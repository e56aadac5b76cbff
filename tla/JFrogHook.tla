----------------------------- MODULE JFrogHook ------------------------------
(***************************************************************************)
(* The chart webhook of src/src/diff_preview.py on the pods of the         *)
(* deployment: do_POST on /jfrog-webhook with its dedup window, the pool   *)
(* that hard-refreshes the fleet and relays a push to the leader           *)
(* (_jfrog_refresh_guarded, _relay_jfrog_push), for one chart and tag.     *)
(*                                                                         *)
(* Builds pushed under the tag are numbered.  What an invalidation does to *)
(* the PRs is PrCycle's; which of the applications are refreshed, PathMap's*)
(***************************************************************************)
EXTENDS Integers, Sequences, SequencesExt

CONSTANTS
    Pods,
    MaxPushes,     \* bound on the builds
    MaxRepeats,    \* bound on the events JFrog sends a second time
    MaxMoves,      \* bound on changes of the leader
    Workers        \* JFROG_DISPATCH_WORKERS

VARIABLES
    build,         \* the newest build under the tag
    wire,          \* requests on their way to a pod
    recent,        \* _jfrog_recent: per pod, the build whose event opened the window, or 0
    head,          \* the leader
    pool,          \* per pod: the queue of _jfrog_refresh_pool
    known,         \* per pod: the newest build when the pod last invalidated
    sent,          \* ghost: events sent, hard refreshes and relays begun, changes of the leader
    excuse         \* ghost: why the leader may not have heard of the newest build

hookVars == <<build, wire, recent, head, pool, known, sent, excuse>>

-----------------------------------------------------------------------------

Requests == [pod : Pods, build : 1 .. MaxPushes, relayed : BOOLEAN, signed : BOOLEAN, n : Nat]
Tasks == [kind : {"refresh", "relay"}, build : 1 .. MaxPushes]

HookTypeOK ==
    /\ build \in 0 .. MaxPushes
    /\ \A r \in wire : r \in Requests
    /\ recent \in [Pods -> 0 .. MaxPushes]
    /\ head \in Pods
    /\ pool \in [Pods -> Seq(Tasks)]
    /\ known \in [Pods -> 0 .. MaxPushes]
    /\ sent \in [events : Nat, refreshes : Nat, relays : Nat, moves : 0 .. MaxMoves]
    /\ excuse \subseteq {"window", "relay", "moved"}

HookInit ==
    /\ build = 0
    /\ wire = {}
    /\ recent = [p \in Pods |-> 0]
    /\ head \in Pods
    /\ pool = [p \in Pods |-> <<>>]
    /\ known = [p \in Pods |-> 0]
    /\ sent = [events |-> 0, refreshes |-> 0, relays |-> 0, moves |-> 0]
    /\ excuse = {}

-----------------------------------------------------------------------------
(* JFrog and the load balancer: an event goes to any pod *)

Event(p, b) == [pod |-> p, build |-> b, relayed |-> FALSE, signed |-> TRUE, n |-> sent.events]

Push(p) ==
    /\ build < MaxPushes
    /\ build' = build + 1
    /\ wire' = wire \cup {Event(p, build + 1)}
    /\ sent' = [sent EXCEPT !.events = @ + 1]
    /\ excuse' = {}
    /\ UNCHANGED <<recent, head, pool, known>>

Repeat(p) ==
    /\ build > 0 /\ sent.events < build + MaxRepeats
    /\ wire' = wire \cup {Event(p, build)}
    /\ sent' = [sent EXCEPT !.events = @ + 1]
    /\ UNCHANGED <<build, recent, head, pool, known, excuse>>

LeaderMoves(p) ==
    /\ p # head /\ sent.moves < MaxMoves
    /\ head' = p
    /\ sent' = [sent EXCEPT !.moves = @ + 1]
    /\ excuse' = excuse \cup {"moved"}
    /\ UNCHANGED <<build, wire, recent, pool, known>>

WindowEnds(p) ==
    /\ recent[p] # 0
    /\ recent' = [recent EXCEPT ![p] = 0]
    /\ UNCHANGED <<build, wire, head, pool, known, sent, excuse>>

-----------------------------------------------------------------------------
(* do_POST *)

(* Mutants: a relayed push is refreshed again; it is relayed again *)
RefreshesAlways(r) == TRUE
RelaysAlways(r) == r.pod # head

(* A relayed push was refreshed by the standby, and is never relayed again *)
Refreshes(r) == ~r.relayed
Relays(r) == ~r.relayed /\ r.pod # head

Submitted(r) ==
    (IF Refreshes(r) THEN <<[kind |-> "refresh", build |-> r.build]>> ELSE <<>>)
    \o (IF Relays(r) THEN <<[kind |-> "relay", build |-> r.build]>> ELSE <<>>)

(* _verify_jfrog_hmac; then the tag must not have been in the window, and is  *)
(* put there before any of the work is done                                  *)
Handle(r) ==
    /\ r \in wire
    /\ wire' = wire \ {r}
    /\ IF ~r.signed
       THEN UNCHANGED <<recent, pool, known, excuse>>
       ELSE IF recent[r.pod] # 0
       THEN /\ excuse' = IF recent[r.pod] # r.build THEN excuse \cup {"window"} ELSE excuse
            /\ UNCHANGED <<recent, pool, known>>
       ELSE /\ recent' = [recent EXCEPT ![r.pod] = r.build]
            /\ known' = [known EXCEPT ![r.pod] = build]
            /\ pool' = [pool EXCEPT ![r.pod] = @ \o Submitted(r)]
            /\ UNCHANGED excuse
    /\ UNCHANGED <<build, head, sent>>

-----------------------------------------------------------------------------
(* The pool: any of the first tasks may be the next to end *)

(* Mutant of Forwarded: the signature header of JFrog is not copied *)
ForwardedUnsigned(b) ==
    [pod |-> head, build |-> b, relayed |-> TRUE, signed |-> FALSE, n |-> sent.relays]

(* _forward_webhook_to_leader: the body and the signature as they came *)
Forwarded(b) ==
    [pod |-> head, build |-> b, relayed |-> TRUE, signed |-> TRUE, n |-> sent.relays]

(* Nothing retries a relay that failed; one to oneself is not tried.  A      *)
(* request that timed out after 3 s may have arrived all the same.           *)
Relay(p, i, arrives, fails) ==
    /\ pool[p][i].kind = "relay"
    /\ sent' = [sent EXCEPT !.relays = @ + 1]
    /\ IF p = head
       THEN UNCHANGED <<wire, excuse>>
       ELSE /\ arrives \/ fails
            /\ wire' = IF arrives THEN wire \cup {Forwarded(pool[p][i].build)} ELSE wire
            /\ excuse' = IF fails THEN excuse \cup {"relay"} ELSE excuse

(* _jfrog_refresh_guarded: what it raises ends here *)
HardRefresh(p, i) ==
    /\ pool[p][i].kind = "refresh"
    /\ sent' = [sent EXCEPT !.refreshes = @ + 1]
    /\ UNCHANGED <<wire, excuse>>

Work(p) ==
    \E i \in DOMAIN pool[p] :
        /\ i <= Workers
        /\ pool' = [pool EXCEPT ![p] = RemoveAt(@, i)]
        /\ HardRefresh(p, i) \/ \E arrives, fails \in BOOLEAN : Relay(p, i, arrives, fails)
        /\ UNCHANGED <<build, recent, head, known>>

HookNext ==
    \/ \E p \in Pods : Push(p) \/ Repeat(p) \/ LeaderMoves(p) \/ WindowEnds(p) \/ Work(p)
    \/ \E r \in wire : Handle(r)

HookSpec == HookInit /\ [][HookNext]_hookVars

-----------------------------------------------------------------------------
(* Properties *)

Quiet == wire = {} /\ \A p \in Pods : pool[p] = <<>>

(* When all that a push started is over, the leader has invalidated after    *)
(* the newest build, whichever pod JFrog reached: unless the window dropped  *)
(* it for another build, a relay failed, or another pod has become leader.   *)
(* And an event starts one hard refresh of the fleet, not one per pod, and   *)
(* at most one relay, even if the leader changes on the way.                 *)
PushIsHeardOnce ==
    /\ Quiet => known[head] = build \/ excuse # {}
    /\ sent.refreshes <= sent.events
    /\ sent.relays <= sent.events

(* Inductive: what has been told to the leader, or will be *)
IsRelayOf(task) == task.kind = "relay" /\ task.build = build
Told ==
    \/ known[head] = build
    \/ \E r \in wire : r.build = build /\ r.pod = head
    \/ \E p \in Pods \ {head} : \E i \in DOMAIN pool[p] : IsRelayOf(pool[p][i])
Announced == \E r \in wire : r.build = build /\ ~r.relayed

(* Until an excuse comes up, the newest build is on its way, wherever its    *)
(* event was dropped as a repetition; the leader does not drop it unheard    *)
ToldOrOnItsWay ==
    excuse = {} =>
        /\ Told \/ Announced
        /\ build # 0 => \A p \in Pods : recent[p] = build => Told
        /\ build # 0 /\ recent[head] = build => known[head] = build
        /\ \A r \in wire : r.relayed /\ r.build = build => r.pod = head
NothingFromAhead ==
    /\ \A r \in wire : r.signed /\ r.build <= build
    /\ \A p \in Pods : recent[p] <= build
    /\ \A p \in Pods : \A i \in DOMAIN pool[p] : pool[p][i].build <= build

(* An event still unhandled may start a refresh and a relay, a task is one   *)
Unhandled == {r \in wire : ~r.relayed}
Queued(kind) ==
    UNION {{p} \X {i \in DOMAIN pool[p] : pool[p][i].kind = kind} : p \in Pods}
Begun(kind) == IF kind = "refresh" THEN sent.refreshes ELSE sent.relays
EachOnce ==
    /\ IsFiniteSet(wire)
    /\ \A kind \in {"refresh", "relay"} :
         /\ IsFiniteSet(Queued(kind))
         /\ Begun(kind) + Cardinality(Queued(kind)) + Cardinality(Unhandled) <= sent.events

HookInv == HookTypeOK /\ NothingFromAhead /\ ToldOrOnItsWay /\ EachOnce
=============================================================================
