-------------------------------- MODULE Watch --------------------------------
(***************************************************************************)
(* The watch cache of one Cluster (internal/service/watch.go) and the      *)
(* interface's lists that are read through it (main.tsx, queries.ts).      *)
(*                                                                         *)
(* A key is a list of the Cluster ("pods", "namespaces", ...), watched by  *)
(* at most one registered informer.  Informers are goroutines: a cancelled *)
(* one may still be waited on by a read.  The contents of a list are its   *)
(* version.  The Cluster is either direct, probed by keepAlive, or behind  *)
(* a Route, whose transitions reset the cache.                             *)
(*                                                                         *)
(* The property the whole component is for: whatever is on screen, data or *)
(* an error, somebody will replace once it is no longer right.  The        *)
(* interface has one hole in it, `missed`: an announcement that comes      *)
(* while a query without data is read starts no other read.                *)
(***************************************************************************)
EXTENDS Integers, FiniteSets

CONSTANTS
    Keys,        \* what is watched, each under one key and announced as one kind
    Fallback,    \* the keys read by ListNamespaces, which does without a watch
    Reach,       \* the kind "reachability"
    Informers,   \* informers, used again once nobody refers to them
    NoInformer,
    Links,       \* which of "dead", "flaky", "steady" the API server may be
    MaxVersion   \* how often the contents change (a bound of the model)

ASSUME WatchAssumption ==
    /\ Fallback \subseteq Keys
    /\ Reach \notin Keys
    /\ NoInformer \notin Informers
    /\ Links \subseteq {"dead", "flaky", "steady"}
    /\ MaxVersion \in Nat \ {0}

Queries  == Keys \cup {Reach}
Versions == 1..MaxVersion

(* A read's result: a version, or an error. *)
Error   == 0
Results == Versions \cup {Error}

(***************************************************************************)
(* Where the reflector of an informer is:                                  *)
(*   list       about to list                                              *)
(*   listed     has a list in hand, not in its store yet                   *)
(*   watch      about to open a watch                                      *)
(*   watching   has one                                                    *)
(*   telling    about to call changed, then goes on to `next`              *)
(***************************************************************************)
Resumes == {"list", "listed", "watch", "watching"}

VARIABLES
    direct,     \* the Cluster has no Route
    readOnly,   \* the Fallback keys that the role may list but not watch
    up,         \* the API server: "dead", "flaky" (its streams end), "steady"
    version,    \* version[q]: what q contains in the Cluster
    kinds,      \* w.kinds, NoInformer for a missing key
    forbidden,  \* w.forbidden
    down,       \* w.down is set
    downKinds,  \* w.downKinds
    pending,    \* w.pending; the coalescing timer runs while it is not empty
    sent,       \* taken from pending, not yet handled by the interface
    of,         \* of[i]: the key of informer i
    live,       \* live[i]: its context is not cancelled
    step,       \* step[i]: its reflector
    next,       \* next[i]: where it goes on after telling
    failed,     \* failed[i]: k.errs: "no", "down" or "forbidden"
    synced,     \* synced[i]: HasSynced
    got,        \* got[i]: the list in hand
    store,      \* store[i]: the contents of its store
    keeper,     \* keepAlive: "sleeping", "probing", "saying"
    saying,     \* the kinds setDown is about to announce
    ssh,        \* the Route has clients (always, for a direct Cluster)
    route,      \* setRouteState: "quiet", "resetting", "emitting"
    outdated,   \* the cached client is of an earlier definition of the Cluster
    saved,      \* an edit of the Cluster was saved, the interface has yet to settle it
    fetch,      \* fetch[q]: step of the interface's read of q
    on,         \* on[q]: the informer that read waits for
    answer,     \* answer[q]: its result, on its way
    shown,      \* shown[q]: what is on screen, an error before the first answer
    rfetch,     \* step of CheckReachability: "idle", "asked", "calling"
    rshown,     \* what it said last
    loaded,     \* the queries that have data, which a later error leaves in place
    missed      \* history: whose last read was under way at an announcement it ignores

clusterVars  == <<direct, readOnly, up, version>>
cacheVars    == <<kinds, forbidden, down, downKinds>>
informerVars == <<of, live, step, next, failed, synced, got, store>>
keeperVars   == <<keeper, saying>>
routeVars    == <<ssh, route>>
configVars   == <<outdated, saved>>
fetchVars    == <<fetch, on, answer>>
reachVars    == <<rfetch, rshown>>
dataVars     == <<loaded, missed>>
vars == <<clusterVars, cacheVars, pending, sent, informerVars, keeperVars,
          routeVars, configVars, fetchVars, shown, reachVars, dataVars>>

Init ==
    /\ direct \in BOOLEAN
    /\ readOnly \in SUBSET Fallback
    /\ up \in Links
    /\ version = [q \in Keys |-> 1]
    /\ kinds = [q \in Keys |-> NoInformer]
    /\ forbidden = {} /\ down = FALSE /\ downKinds = {}
    /\ pending = {} /\ sent = {}
    /\ of \in [Informers -> Keys] /\ \A i, j \in Informers : of[i] = of[j]
    /\ live = [i \in Informers |-> FALSE]
    /\ step = [i \in Informers |-> "list"]
    /\ next = [i \in Informers |-> "list"]
    /\ failed = [i \in Informers |-> "no"]
    /\ synced = [i \in Informers |-> FALSE]
    /\ got = [i \in Informers |-> Error]
    /\ store = [i \in Informers |-> Error]
    /\ keeper = "sleeping" /\ saying = {}
    /\ ssh = TRUE /\ route = "quiet"
    /\ outdated = FALSE /\ saved = FALSE
    /\ fetch = [q \in Keys |-> "asked"]
    /\ on = [q \in Keys |-> NoInformer]
    /\ answer = [q \in Keys |-> Error]
    /\ shown = [q \in Keys |-> Error]
    /\ rfetch = "asked" /\ rshown = "nothing"
    /\ loaded = {} /\ missed = {}

Up == up # "dead"

Answers == Up /\ ssh

-----------------------------------------------------------------------------
(* The Cluster, the network, and what the user does to the Cluster. *)

ClusterChanges(q) ==
    /\ version[q] < MaxVersion
    /\ version' = [version EXCEPT ![q] = @ + 1]
    /\ UNCHANGED <<direct, readOnly, up, cacheVars, pending, sent, informerVars, keeperVars,
                   routeVars, configVars, fetchVars, shown, reachVars, dataVars>>

LinkChanges ==
    /\ up' \in Links \ {up}
    /\ UNCHANGED <<direct, readOnly, version, cacheVars, pending, sent, informerVars, keeperVars,
                   routeVars, configVars, fetchVars, shown, reachVars, dataVars>>

(* An edit of the Cluster, such as its namespace scope, that the interface follows  *)
(* by reading every list again once the call has returned.                          *)
EditCluster ==
    /\ ~saved
    /\ saved' = TRUE
    /\ outdated' = TRUE
    /\ UNCHANGED <<clusterVars, cacheVars, pending, sent, informerVars, keeperVars,
                   routeVars, fetchVars, shown, reachVars, dataVars>>

-----------------------------------------------------------------------------
(* What several operations do to the informers. *)

(* Mutant of CancelAll: the map is cleared, the informers run on. *)
CancelNone(S) == UNCHANGED <<live, step, next, failed, synced, got, store>>

(* What a cancelled informer does or holds is of no account: it is back at the *)
(* start, in the state the next `start` finds it in.                           *)
CancelAll(S) ==
    LET Blank(f, x) == [i \in Informers |-> IF i \in S THEN x ELSE f[i]] IN
    /\ live' = Blank(live, FALSE)
    /\ step' = Blank(step, "list")
    /\ next' = Blank(next, "list")
    /\ failed' = Blank(failed, "no")
    /\ synced' = Blank(synced, FALSE)
    /\ got' = Blank(got, Error)
    /\ store' = Blank(store, Error)

Registered == {kinds[q] : q \in Keys} \ {NoInformer}

(* Mutant of Watched: the informers instead of what they watch. *)
WatchedInformers == Registered

Watched == {q \in Keys : kinds[q] # NoInformer}

ClearKinds == kinds' = [q \in Keys |-> NoInformer]

(* The reads under way of queries that have no data yet.  Query.fetch gives up a *)
(* read only for the sake of data it holds; these it lets finish, and their      *)
(* answer counts as the new one.                                                 *)
Underway ==
    {q \in Keys : fetch[q] # "idle"} \cup (IF rfetch # "idle" THEN {Reach} ELSE {})

FirstReads == Underway \ loaded

(* Those of them the Go side has not begun to answer, and that will see whatever *)
(* the announcement is about.                                                    *)
Unbegun ==
    {q \in Keys : fetch[q] = "asked"} \cup (IF rfetch = "asked" THEN {Reach} ELSE {})

(* A new read of the queries of S, in place of one under way or joined to it. *)
Invalidate(S) ==
    LET Again == S \ FirstReads IN
    /\ fetch' = [q \in Keys |-> IF q \in Again THEN "asked" ELSE fetch[q]]
    /\ on' = [q \in Keys |-> IF q \in Again THEN NoInformer ELSE on[q]]
    /\ answer' = [q \in Keys |-> IF q \in Again THEN Error ELSE answer[q]]
    /\ rfetch' = IF Reach \in Again THEN "asked" ELSE rfetch
    /\ missed' = (missed \ S) \cup ((S \cap FirstReads) \ Unbegun)
    /\ UNCHANGED <<shown, rshown, loaded>>

Free(i) == ~live[i] /\ \A q \in Keys : on[q] # i

(* start *)
Start(q, i) ==
    /\ Free(i)
    /\ kinds' = [kinds EXCEPT ![q] = i]
    /\ of' = [of EXCEPT ![i] = q]
    /\ live' = [live EXCEPT ![i] = TRUE]
    /\ UNCHANGED <<step, next, failed, synced, got, store>>

-----------------------------------------------------------------------------
(* The reflector of informer i.  A cancelled one does nothing anybody sees. *)

GoOn(i, telling, s) ==
    /\ step' = [step EXCEPT ![i] = IF telling THEN "telling" ELSE s]
    /\ next' = [next EXCEPT ![i] = IF telling THEN s ELSE "list"]

(* Mutant of Report: only the beginning of a failure is told. *)
ReportFailure(i, err, s) ==
    /\ failed' = [failed EXCEPT ![i] = err]
    /\ GoOn(i, failed[i] = "no" /\ err # "no", s)

(* report: the namespace's error is replaced, and told if it began or ended. *)
Report(i, err, s) ==
    /\ failed' = [failed EXCEPT ![i] = err]
    /\ GoOn(i, (failed[i] = "no") # (err = "no"), s)

OnlyReflector == UNCHANGED <<clusterVars, cacheVars, pending, sent, of, live, keeperVars,
                             routeVars, configVars, fetchVars, shown, reachVars, dataVars>>

Lists(i) ==
    /\ live[i] /\ step[i] = "list"
    /\ \/ /\ Answers
          /\ got' = [got EXCEPT ![i] = version[of[i]]]
          /\ Report(i, "no", "listed")
       \/ /\ ~Answers
          /\ failed[i] # "down"
          /\ Report(i, "down", "list")
          /\ UNCHANGED got
    /\ UNCHANGED <<synced, store>>
    /\ OnlyReflector

(* The list reaches the store; the handlers hear of it unless it is the first. *)
Replaces(i) ==
    /\ live[i] /\ step[i] = "listed"
    /\ store' = [store EXCEPT ![i] = got[i]]
    /\ synced' = [synced EXCEPT ![i] = TRUE]
    /\ got' = [got EXCEPT ![i] = Error]
    /\ GoOn(i, synced[i], "watch")
    /\ UNCHANGED failed
    /\ OnlyReflector

(* A watch that cannot be opened is tried again, after a new list or without. *)
Opens(i) ==
    /\ live[i] /\ step[i] = "watch"
    /\ \/ Answers /\ of[i] \notin readOnly /\ Report(i, "no", "watching")
       \/ Answers /\ of[i] \in readOnly /\ Report(i, "forbidden", "list")
       \/ /\ ~Answers
          /\ \E s \in {"list", "watch"} : Report(i, "down", s)
    /\ UNCHANGED <<synced, got, store>>
    /\ OnlyReflector

(* An event of the watch: the store is updated, then the handler calls changed. *)
Delivers(i) ==
    /\ live[i] /\ step[i] = "watching"
    /\ Answers
    /\ store[i] # version[of[i]]
    /\ store' = [store EXCEPT ![i] = version[of[i]]]
    /\ GoOn(i, TRUE, "watching")
    /\ UNCHANGED <<failed, synced, got>>
    /\ OnlyReflector

WatchEnds(i) ==
    /\ live[i] /\ step[i] = "watching"
    /\ up # "steady"
    /\ \E s \in {"list", "watch"} : GoOn(i, FALSE, s)
    /\ UNCHANGED <<failed, synced, got, store>>
    /\ OnlyReflector

(* changed, of a context that is not cancelled. *)
Queue(S) == pending' = pending \cup S

Tells(i) ==
    /\ live[i] /\ step[i] = "telling"
    /\ Queue({of[i]})
    /\ GoOn(i, FALSE, next[i])
    /\ UNCHANGED <<failed, synced, got, store>>
    /\ UNCHANGED <<clusterVars, cacheVars, sent, of, live, keeperVars,
                   routeVars, configVars, fetchVars, shown, reachVars, dataVars>>

(* The coalescing timer takes what is pending; the event is on its way. *)
Coalesced ==
    /\ pending # {}
    /\ sent' = sent \cup pending
    /\ pending' = {}
    /\ UNCHANGED <<clusterVars, cacheVars, informerVars, keeperVars,
                   routeVars, configVars, fetchVars, shown, reachVars, dataVars>>

(* The status of the reachability is error: its last read failed and, unless it  *)
(* has data, no other is under way.                                              *)
ReachFailed == rshown = "error" /\ Reach \notin FirstReads

(* cluster:changed: the list is read again, and so is a reachability in error. *)
EventArrives(q) ==
    /\ q \in sent
    /\ sent' = sent \ {q}
    /\ Invalidate({q} \cup (IF ReachFailed THEN {Reach} ELSE {}))
    /\ UNCHANGED <<clusterVars, cacheVars, pending, informerVars, keeperVars,
                   routeVars, configVars>>

-----------------------------------------------------------------------------
(* keepAlive and setDown. *)

Probe ==
    /\ direct
    /\ keeper = "sleeping"
    /\ down \/ Watched # {}
    /\ keeper' = "probing"
    /\ UNCHANGED <<clusterVars, cacheVars, pending, sent, informerVars, saying,
                   routeVars, configVars, fetchVars, shown, reachVars, dataVars>>

(* Mutant of Announced: the check of reachability is not announced. *)
ListsOnly(S) == S

(* What setDown announces. *)
Announced(S) == S \cup {Reach}

(* setDown(err), its critical section: every informer stops. *)
ProbeUnanswered ==
    /\ keeper = "probing"
    /\ ~Up
    /\ IF down
       THEN /\ keeper' = "sleeping"
            /\ UNCHANGED <<kinds, informerVars, down, downKinds, saying>>
       ELSE /\ keeper' = "saying"
            /\ down' = TRUE
            /\ CancelAll(Registered)
            /\ UNCHANGED of
            /\ ClearKinds
            /\ downKinds' = Watched
            /\ saying' = Announced(Watched)
    /\ UNCHANGED <<clusterVars, forbidden, pending, sent,
                   routeVars, configVars, fetchVars, shown, reachVars, dataVars>>

(* setDown(nil), its critical section. *)
ProbeAnswered ==
    /\ keeper = "probing"
    /\ Up
    /\ IF down
       THEN /\ keeper' = "saying"
            /\ down' = FALSE
            /\ saying' = Announced(downKinds)
            /\ downKinds' = {}
       ELSE /\ keeper' = "sleeping"
            /\ UNCHANGED <<down, downKinds, saying>>
    /\ UNCHANGED <<clusterVars, kinds, forbidden, pending, sent, informerVars,
                   routeVars, configVars, fetchVars, shown, reachVars, dataVars>>

(* A refused connection is neither. *)
ProbeRefused ==
    /\ keeper = "probing"
    /\ ~Up
    /\ keeper' = "sleeping"
    /\ UNCHANGED <<clusterVars, cacheVars, pending, sent, informerVars, saying,
                   routeVars, configVars, fetchVars, shown, reachVars, dataVars>>

(* changed, after setDown has left its lock. *)
Says ==
    /\ keeper = "saying"
    /\ Queue(saying)
    /\ saying' = {}
    /\ keeper' = "sleeping"
    /\ UNCHANGED <<clusterVars, cacheVars, sent, informerVars,
                   routeVars, configVars, fetchVars, shown, reachVars, dataVars>>

-----------------------------------------------------------------------------
(* The Route: setClients, the reset of setRouteState, its event. *)

RouteChanges ==
    /\ ~direct
    /\ route = "quiet"
    /\ route' = "resetting"
    /\ ssh' \in IF ssh THEN {FALSE} ELSE BOOLEAN
    /\ UNCHANGED <<clusterVars, cacheVars, pending, sent, informerVars, keeperVars,
                   configVars, fetchVars, shown, reachVars, dataVars>>

(* reset *)
RouteResets ==
    /\ route = "resetting"
    /\ route' = "emitting"
    /\ CancelAll(Registered)
    /\ ClearKinds
    /\ UNCHANGED <<clusterVars, forbidden, down, downKinds, pending, sent,
                   of, keeperVars,
                   ssh, configVars, fetchVars, shown, reachVars, dataVars>>

(* route:state: every list of the Route's Clusters is read again. *)
RouteEmits ==
    /\ route = "emitting"
    /\ route' = "quiet"
    /\ Invalidate(Queries)
    /\ UNCHANGED <<clusterVars, cacheVars, pending, sent, informerVars, keeperVars,
                   ssh, configVars>>

-----------------------------------------------------------------------------
(* The Cluster's client. *)

(* clusterClient finds another definition: the cache is stopped, what it had     *)
(* queued is not emitted any more, and a new one takes its place.  What a read   *)
(* under way still forbids, it forbids in the old one.                           *)
Release ==
    /\ outdated /\ ssh
    /\ outdated' = FALSE
    /\ CancelAll(Registered)
    /\ ClearKinds
    /\ forbidden' = {} /\ down' = FALSE /\ downKinds' = {}
    /\ pending' = {}
    /\ sent' \in SUBSET sent
    /\ keeper' = "sleeping" /\ saying' = {}
    /\ fetch' = [q \in Keys |-> IF fetch[q] = "forbidding" THEN "plain" ELSE fetch[q]]
    /\ UNCHANGED <<clusterVars, of,
                   routeVars, saved, on, answer, shown, reachVars, dataVars>>

(* onSettled of the edit. *)
EditSettles ==
    /\ saved
    /\ saved' = FALSE
    /\ Invalidate(Queries)
    /\ UNCHANGED <<clusterVars, cacheVars, pending, sent, informerVars, keeperVars,
                   routeVars, outdated>>

-----------------------------------------------------------------------------
(* The interface's read of q. *)

Goes(q, from, to) ==
    /\ fetch[q] = from
    /\ fetch' = [fetch EXCEPT ![q] = to]

Answering(q, from, r) ==
    /\ Goes(q, from, "answered")
    /\ answer' = [answer EXCEPT ![q] = r]
    /\ on' = [on EXCEPT ![q] = NoInformer]

OnlyFetch == UNCHANGED <<clusterVars, cacheVars, pending, sent, informerVars, keeperVars,
                         routeVars, configVars, shown, reachVars, dataVars>>

(* ⌘R, the window's focus, a view that opens. *)
Refetch(q) ==
    /\ Goes(q, "idle", "asked")
    /\ missed' = missed \ {q}
    /\ UNCHANGED <<clusterVars, cacheVars, pending, sent, informerVars, keeperVars,
                   routeVars, configVars, on, answer, shown, reachVars, loaded>>

RouteIsDown(q) == ~ssh /\ Answering(q, "asked", Error) /\ OnlyFetch

HasClient == ssh /\ ~outdated

(* Mutant of MayWatch: list does not look at w.down. *)
MayWatchDead(q) == HasClient /\ q \notin forbidden

(* list gets to the informers. *)
MayWatch(q) == HasClient /\ q \notin forbidden /\ ~down

(* list, its first critical section: the registered informer, or a new one.      *)
Joins(q) ==
    /\ MayWatch(q)
    /\ Goes(q, "asked", "polling")
    /\ kinds[q] # NoInformer
    /\ on' = [on EXCEPT ![q] = kinds[q]]
    /\ UNCHANGED answer
    /\ OnlyFetch

Starts(q, i) ==
    /\ MayWatch(q)
    /\ Goes(q, "asked", "polling")
    /\ kinds[q] = NoInformer
    /\ Start(q, i)
    /\ on' = [on EXCEPT ![q] = i]
    /\ UNCHANGED <<clusterVars, forbidden, down, downKinds, pending, sent, keeperVars,
                   routeVars, configVars, answer, shown, reachVars, dataVars>>

(* Another view reads the same key: its pods, say, for the totals of the nodes. *)
OtherStarts(q, i) ==
    /\ MayWatch(q)
    /\ kinds[q] = NoInformer
    /\ Start(q, i)
    /\ UNCHANGED <<clusterVars, forbidden, down, downKinds, pending, sent, keeperVars,
                   routeVars, configVars, fetchVars, shown, reachVars, dataVars>>

ListsDown(q) ==
    /\ HasClient
    /\ q \notin forbidden /\ down
    /\ downKinds' = downKinds \cup {q}
    /\ Answering(q, "asked", Error)
    /\ UNCHANGED <<clusterVars, kinds, forbidden, down, pending, sent, informerVars, keeperVars,
                   routeVars, configVars, shown, reachVars, dataVars>>

ListsForbidden(q) ==
    /\ HasClient
    /\ q \in forbidden
    /\ Goes(q, "asked", "forbidding")
    /\ UNCHANGED <<on, answer>>
    /\ OnlyFetch

(* Mutant of Ready: a list that was synced once is served although it fails now. *)
SyncedOnce(i) == synced[i]

(* The poll finds every error nil and every controller synced. *)
Ready(i) == failed[i] = "no" /\ synced[i]

(* The poll of list: an informer that was cancelled or fails ends the read; one   *)
(* that is synced is read from (right after the poll).                            *)
Polls(q) ==
    LET i == on[q] IN
    /\ fetch[q] = "polling"
    /\ \/ /\ ~live[i] \/ failed[i] = "down"
          /\ Answering(q, "polling", Error)
       \/ /\ live[i] /\ failed[i] = "forbidden"
          /\ Goes(q, "polling", "forbidding")
          /\ on' = [on EXCEPT ![q] = NoInformer]
          /\ UNCHANGED answer
       \/ /\ live[i] /\ Ready(i)
          /\ Answering(q, "polling", store[i])
    /\ OnlyFetch

(* forbid *)
Forbid(q) ==
    /\ Goes(q, "forbidding", "plain")
    /\ CancelAll({kinds[q]})
    /\ kinds' = [kinds EXCEPT ![q] = NoInformer]
    /\ forbidden' = forbidden \cup {q}
    /\ UNCHANGED <<clusterVars, down, downKinds, pending, sent, of,
                   keeperVars, routeVars, configVars, on, answer, shown, reachVars, dataVars>>

(* The list without a watch. *)
PlainList(q) == Answering(q, "plain", IF Answers THEN version[q] ELSE Error) /\ OnlyFetch

Shows(q) ==
    /\ Goes(q, "answered", "idle")
    /\ shown' = [shown EXCEPT ![q] = answer[q]]
    /\ answer' = [answer EXCEPT ![q] = Error]
    /\ loaded' = IF answer[q] = Error THEN loaded ELSE loaded \cup {q}
    /\ UNCHANGED <<clusterVars, cacheVars, pending, sent, informerVars, keeperVars,
                   routeVars, configVars, on, reachVars, missed>>

-----------------------------------------------------------------------------
(* CheckReachability. *)

OnlyReach == UNCHANGED <<clusterVars, cacheVars, pending, sent, informerVars, keeperVars,
                         routeVars, configVars, fetchVars, shown, missed>>

ReachShows(r) ==
    /\ rshown' = r /\ rfetch' = "idle"
    /\ loaded' = IF r = "ok" THEN loaded \cup {Reach} ELSE loaded

CheckReachability ==
    /\ rfetch = "asked"
    /\ \/ ~ssh /\ ReachShows("error")
       \/ HasClient /\ down /\ ReachShows("error")
       \/ HasClient /\ ~down /\ rfetch' = "calling" /\ UNCHANGED <<rshown, loaded>>
    /\ OnlyReach

ReachAnswered ==
    /\ rfetch = "calling"
    /\ ReachShows(IF Answers THEN "ok" ELSE "error")
    /\ OnlyReach

-----------------------------------------------------------------------------
ReflectorStep(i) == Lists(i) \/ Replaces(i) \/ Opens(i) \/ Delivers(i) \/ Tells(i)

KeeperStep == ProbeUnanswered \/ ProbeAnswered \/ ProbeRefused \/ Says

FetchStep(q) ==
    \/ RouteIsDown(q)
    \/ Joins(q) \/ \E i \in Informers : Starts(q, i)
    \/ ListsDown(q) \/ ListsForbidden(q)
    \/ Polls(q) \/ Forbid(q) \/ PlainList(q)
    \/ Shows(q)

ReachStep == CheckReachability \/ ReachAnswered

Next ==
    \/ \E q \in Keys : ClusterChanges(q) \/ FetchStep(q) \/ Refetch(q)
    \/ \E q \in Keys, i \in Informers : OtherStarts(q, i)
    \/ LinkChanges \/ EditCluster \/ EditSettles \/ Release
    \/ \E i \in Informers : ReflectorStep(i) \/ WatchEnds(i)
    \/ Coalesced \/ \E q \in Queries : EventArrives(q)
    \/ Probe \/ KeeperStep
    \/ RouteChanges \/ RouteResets \/ RouteEmits
    \/ ReachStep

Spec == Init /\ [][Next]_vars

(***************************************************************************)
(* Fairness.  Goroutines and timers run, requests are answered or time     *)
(* out, calls in progress are served, and the views that refresh           *)
(* themselves call clusterClient again and again.  Nothing is assumed of   *)
(* the user, the network or the Cluster.                                   *)
(***************************************************************************)
Fairness ==
    /\ \A i \in Informers : WF_vars(ReflectorStep(i))
    /\ \A q \in Keys : WF_vars(FetchStep(q))
    /\ WF_vars(Coalesced)
    /\ \A q \in Queries : WF_vars(EventArrives(q))
    /\ WF_vars(Probe) /\ WF_vars(KeeperStep)
    /\ WF_vars(RouteResets) /\ WF_vars(RouteEmits)
    /\ WF_vars(EditSettles) /\ WF_vars(Release)

FairSpec == Spec /\ Fairness

(* The definition of the Cluster changes and nothing is read again: RenameDialog *)
(* only has the config read, and a kubeconfig file that another program writes   *)
(* gets a new stamp.  Not a part of Next: see ChangesAreTold.                    *)
Redefine ==
    /\ ~outdated
    /\ outdated' = TRUE
    /\ UNCHANGED <<clusterVars, cacheVars, pending, sent, informerVars, keeperVars,
                   routeVars, saved, fetchVars, shown, reachVars, dataVars>>

RedefiningSpec == Init /\ [][Next \/ Redefine]_vars

-----------------------------------------------------------------------------
(* Type correctness of the cache, its informers and the interface's reads. *)
TypeOK ==
    /\ direct \in BOOLEAN
    /\ readOnly \in SUBSET Fallback
    /\ up \in Links
    /\ version \in [Keys -> Versions]
    /\ kinds \in [Keys -> Informers \cup {NoInformer}]
    /\ forbidden \in SUBSET Keys
    /\ down \in BOOLEAN
    /\ downKinds \in SUBSET Keys
    /\ pending \in SUBSET Queries
    /\ sent \in SUBSET Queries
    /\ of \in [Informers -> Keys]
    /\ live \in [Informers -> BOOLEAN]
    /\ step \in [Informers -> Resumes \cup {"telling"}]
    /\ next \in [Informers -> Resumes]
    /\ failed \in [Informers -> {"no", "down", "forbidden"}]
    /\ synced \in [Informers -> BOOLEAN]
    /\ got \in [Informers -> Results]
    /\ store \in [Informers -> Results]
    /\ keeper \in {"sleeping", "probing", "saying"}
    /\ saying \in SUBSET Queries
    /\ ssh \in BOOLEAN
    /\ route \in {"quiet", "resetting", "emitting"}
    /\ outdated \in BOOLEAN
    /\ saved \in BOOLEAN
    /\ fetch \in [Keys -> {"idle", "asked", "polling", "forbidding", "plain", "answered"}]
    /\ on \in [Keys -> Informers \cup {NoInformer}]
    /\ answer \in [Keys -> Results]
    /\ shown \in [Keys -> Results]
    /\ rfetch \in {"idle", "asked", "calling"}
    /\ rshown \in {"nothing", "ok", "error"}
    /\ loaded \in SUBSET Queries
    /\ missed \in SUBSET Queries

(* No informer is ever leaked, and none that was stopped is read from again:     *)
(* the ones that run are exactly those of w.kinds, each under its own key.       *)
RunningIsRegistered ==
    /\ \A i \in Informers : live[i] => kinds[of[i]] = i
    /\ \A q \in Keys : kinds[q] # NoInformer => live[kinds[q]] /\ of[kinds[q]] = q

(* While the keepalive finds the Cluster dead nothing lists or watches it, and   *)
(* a key that forbid stopped "for good" is not started again.                    *)
StoppedStaysStopped ==
    /\ down => Watched = {}
    /\ Watched \cap forbidden = {}

(* An announcement of kind q is on its way to the interface. *)
Announcing(q) ==
    \/ q \in pending \cup sent \cup saying
    \/ route # "quiet"
    \/ saved

(* Somebody is about to have q read again. *)
Told(q) ==
    \/ Announcing(q)
    \/ kinds[q] # NoInformer /\ step[kinds[q]] = "telling"

(* The registered informer would give result r again. *)
Vouches(q, r) ==
    LET i == kinds[q] IN
    /\ i # NoInformer
    /\ IF failed[i] = "no" THEN synced[i] /\ r = store[i] ELSE r = Error

(* r is right, or somebody will notice once it is not. *)
Stands(q, r) ==
    \/ Vouches(q, r)
    \/ r = Error /\ (~ssh \/ (down /\ q \in downKinds))

(* Whatever a list shows is somebody's business: its informer runs and holds the *)
(* same data or error, so that any change is told; or the Cluster is known to be *)
(* down and the list will be announced when it is back; or the Route is down; or *)
(* an announcement is on its way.  No error and no data is left behind, but by a *)
(* read that was joined (see AnnouncedIsRead).  (A list without a watch has      *)
(* nobody: see OutageEnds.)                                                      *)
ShownIsWatched ==
    \A q \in Keys :
        fetch[q] = "idle" /\ q \notin forbidden \cup missed => Told(q) \/ Stands(q, shown[q])

(* The check of reachability does not say reachable of a Cluster the keepalive   *)
(* found dead, again but for a read that was joined (see NeverAsItLastWas).      *)
ReachableIsNotDown ==
    rshown = "ok" /\ rfetch = "idle" /\ down => Announcing(Reach) \/ Reach \in missed

(* Once the Cluster answers for good and is left alone, every watched list ends  *)
(* up showing what the Cluster contains, unless all it has been read by is the   *)
(* one read that an announcement joined.                                         *)
EndsCurrent ==
    <>[](up = "steady" /\ ssh /\ ~saved) =>
        <>[](\A q \in Keys \ readOnly : shown[q] = version[q] \/ q \in missed)

-----------------------------------------------------------------------------
(* What a comment says and the code does not keep. *)

(* "The check of whether it is reachable is announced both times, so it never    *)
(* shows a Cluster as it last was" (setDown): the first check is answered by a   *)
(* Cluster that then dies, and is still the one shown after both announcements.  *)
NeverAsItLastWas ==
    rshown = "ok" /\ rfetch = "idle" /\ down => Announcing(Reach)

(* "cluster:changed" is followed by a read that begins after it: the first read  *)
(* of a list, polling or answered already, is joined instead, and what it brings *)
(* stays on screen until the list changes again.                                 *)
AnnouncedIsRead ==
    \A q \in Keys :
        fetch[q] = "idle" /\ q \notin forbidden => Told(q) \/ Stands(q, shown[q])

(* "They are watched cluster-wide like pods, so a namespace created or deleted,  *)
(* and a failure and its recovery, are announced" (ListNamespaces): an error on  *)
(* screen, of any list, is somebody's to clear.                                  *)
OutageEnds ==
    \A q \in Keys :
        direct /\ fetch[q] = "idle" /\ q \notin missed /\ shown[q] = Error
            => Told(q) \/ Stands(q, Error)

(* "EventClusterChanged carries a ClusterChange once the watched objects of a    *)
(* Cluster change": data on screen that is no longer what the Cluster contains   *)
(* is about to be announced, or its informer has yet to hear of the change.      *)
(* Under RedefiningSpec, the client another read replaces takes the informers    *)
(* of every list on screen with it.                                              *)
ChangesAreTold ==
    \A q \in Keys \ (readOnly \cup missed) :
        fetch[q] = "idle" /\ shown[q] \notin {Error, version[q]}
            => Told(q) \/ Stands(q, shown[q])

=============================================================================
