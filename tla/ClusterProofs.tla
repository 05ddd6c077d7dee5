----------------------------- MODULE ClusterProofs -----------------------------
(***************************************************************************)
(* What is read of a Cluster, and what is drawn of it.                     *)
(*                                                                         *)
(* Watch, for every number of keys and informers.  That what is on screen  *)
(* is watched (ShownIsWatched) rests on the same being true of an answer   *)
(* on its way (AnswerIsWatched), of a read whose informer was cancelled    *)
(* (CancelledIsTold) and of a read without a watch (PlainIsForbidden); and *)
(* on an edit of the Cluster never leaving the interface with what the old *)
(* cache told it (OutdatedIsTold).                                         *)
(*                                                                         *)
(* An announcement the first read of a list missed is kept in missed, and  *)
(* each of these excepts it; a new read makes up for it (MissedLasts).     *)
(*                                                                         *)
(* The Overview, for any objects, owners and scopes.  That its rows are of *)
(* one scope rests on FetchInv: what was fetched is of the saved scope or  *)
(* was joined, unless a save is written whose lists are still to be        *)
(* fetched again.                                                          *)
(* The rest is what the rows, the folds and the filter are made of.        *)
(***************************************************************************)
EXTENDS Watch, Overview, TLAPS

(* A read polls an informer of its own key, or one that was cancelled. *)
PollsItsOwn ==
    \A q \in Keys : fetch[q] = "polling" =>
        on[q] # NoInformer /\ (live[on[q]] => of[on[q]] = q)

(* A read whose informer was cancelled will be made again, unless it was joined. *)
CancelledIsTold ==
    \A q \in Keys \ missed : fetch[q] = "polling" /\ ~live[on[q]] => Told(q)

(* What ShownIsWatched says of the screen, of an answer that is on its way. *)
AnswerIsWatched ==
    \A q \in Keys :
        fetch[q] = "answered" /\ q \notin forbidden \cup missed
            => Told(q) \/ Stands(q, answer[q])

(* Only a key that may not be watched is read without a watch. *)
PlainIsForbidden ==
    \A q \in Keys :
        fetch[q] = "plain" => q \in forbidden \cup missed \/ saved \/ route # "quiet"

(* The error of q, on its way or shown, is that of a Route that is down. *)
RouteError(q) ==
    /\ ~ssh
    /\ \/ fetch[q] = "answered" /\ answer[q] = Error
       \/ fetch[q] = "idle" /\ shown[q] = Error

(* Once the edit has settled, no read outlives the client it outdated but one    *)
(* that was joined.                                                              *)
OutdatedIsTold ==
    outdated /\ ~saved /\ route = "quiet" =>
        \A q \in Keys \ missed : fetch[q] = "asked" \/ RouteError(q)

(* Only setDown has something to say. *)
OnlySaying == keeper # "saying" => saying = {}

(* ReachableIsNotDown, of a check that found the Cluster alive before it called. *)
ReachIsTold ==
    down /\ (rfetch = "calling" \/ (rfetch = "idle" /\ rshown = "ok"))
        => Announcing(Reach) \/ Reach \in missed

Typed == TypeOK /\ RunningIsRegistered /\ PollsItsOwn

IndInv ==
    /\ Typed
    /\ StoppedStaysStopped
    /\ CancelledIsTold
    /\ AnswerIsWatched
    /\ ShownIsWatched
    /\ PlainIsForbidden
    /\ OutdatedIsTold
    /\ OnlySaying
    /\ ReachIsTold

-----------------------------------------------------------------------------
(* At the start every list is being asked for and nothing is watched. *)
LEMMA InitInv == Init => IndInv
<1>. SUFFICES ASSUME Init
              PROVE  IndInv
  OBVIOUS
<1>. USE WatchAssumption DEF Init
<1>1. TypeOK
  <2>1. 1 \in Versions /\ Error \in Results
    BY DEF Versions, Results
  <2>2. version \in [Keys -> Versions]
    BY <2>1
  <2>3. got \in [Informers -> Results] /\ store \in [Informers -> Results]
    BY <2>1
  <2>4. answer \in [Keys -> Results] /\ shown \in [Keys -> Results]
    BY <2>1
  <2>. QED BY <2>2, <2>3, <2>4 DEF TypeOK, Queries, Resumes
<1>2. RunningIsRegistered /\ StoppedStaysStopped
  BY DEF RunningIsRegistered, StoppedStaysStopped, Watched
<1>3. /\ PollsItsOwn /\ CancelledIsTold /\ AnswerIsWatched /\ ShownIsWatched
      /\ PlainIsForbidden /\ OutdatedIsTold /\ OnlySaying /\ ReachIsTold
  BY DEF PollsItsOwn, CancelledIsTold, AnswerIsWatched, ShownIsWatched,
     PlainIsForbidden, OutdatedIsTold, OnlySaying, ReachIsTold
<1>. QED BY <1>1, <1>2, <1>3 DEF IndInv, Typed

-----------------------------------------------------------------------------
(* Cancelled informers are of their types. *)
LEMMA CancelAllTypes ==
  ASSUME TypeOK, NEW S, CancelAll(S)
  PROVE  /\ live' \in [Informers -> BOOLEAN]
         /\ step' \in [Informers -> Resumes \cup {"telling"}]
         /\ next' \in [Informers -> Resumes]
         /\ failed' \in [Informers -> {"no", "down", "forbidden"}]
         /\ synced' \in [Informers -> BOOLEAN]
         /\ got' \in [Informers -> Results]
         /\ store' \in [Informers -> Results]
BY DEF TypeOK, CancelAll, Resumes, Results, Error

(* What an announcement does: it begins a new read, or is missed by the first. *)
LEMMA InvalidateTypes ==
  ASSUME TypeOK, NEW S \in SUBSET Queries, Invalidate(S)
  PROVE  /\ fetch' \in [Keys -> {"idle", "asked", "polling", "forbidding", "plain", "answered"}]
         /\ on' \in [Keys -> Informers \cup {NoInformer}]
         /\ answer' \in [Keys -> Results]
         /\ rfetch' \in {"idle", "asked", "calling"}
         /\ missed' \in SUBSET Queries
         /\ UNCHANGED <<shown, rshown, loaded>>
BY DEF TypeOK, Invalidate, Results, Error

LEMMA AllTypes ==
  ASSUME TypeOK, Invalidate(Queries)
  PROVE  /\ fetch' \in [Keys -> {"idle", "asked", "polling", "forbidding", "plain", "answered"}]
         /\ on' \in [Keys -> Informers \cup {NoInformer}]
         /\ answer' \in [Keys -> Results]
         /\ rfetch' \in {"idle", "asked", "calling"}
         /\ missed' \in SUBSET Queries
         /\ UNCHANGED <<shown, rshown, loaded>>
<1>1. Queries \in SUBSET Queries
  OBVIOUS
<1>. QED BY <1>1, InvalidateTypes

LEMMA InvalidateRenews ==
  ASSUME TypeOK, NEW S \in SUBSET Queries, Invalidate(S), NEW q \in Keys
  PROVE  IF q \in S
         THEN fetch'[q] = "asked" \/ (q \in missed' /\ fetch'[q] = fetch[q]
                /\ on'[q] = on[q] /\ answer'[q] = answer[q] /\ shown'[q] = shown[q])
         ELSE /\ fetch'[q] = fetch[q] /\ on'[q] = on[q] /\ answer'[q] = answer[q]
              /\ shown'[q] = shown[q] /\ (q \in missed' <=> q \in missed)
<1>. USE DEF TypeOK, Queries
<1>1. q # Reach
  BY WatchAssumption DEF WatchAssumption
<1>2. CASE q \in S \ FirstReads
  BY <1>2 DEF Invalidate
<1>3. CASE q \in S /\ q \in FirstReads
  BY <1>1, <1>3 DEF Invalidate, FirstReads, Underway, Unbegun
<1>4. CASE q \notin S
  BY <1>1, <1>4 DEF Invalidate, FirstReads, Underway
<1>. QED BY <1>2, <1>3, <1>4

LEMMA InvalidateReach ==
  ASSUME TypeOK, NEW S \in SUBSET Queries, Invalidate(S)
  PROVE  /\ Reach \in S => rfetch' = "asked" \/ Reach \in missed'
         /\ Reach \notin S => rfetch' = rfetch /\ (Reach \in missed' <=> Reach \in missed)
         /\ rshown' = rshown
<1>. USE WatchAssumption DEF WatchAssumption, TypeOK, Invalidate
<1>1. Reach \in FirstReads <=> rfetch # "idle" /\ Reach \notin loaded
  BY DEF FirstReads, Underway
<1>2. Reach \in Unbegun <=> rfetch = "asked"
  BY DEF Unbegun
<1>. QED BY <1>1, <1>2

(* All queries at once. *)
LEMMA AllRenewed ==
  ASSUME TypeOK, EditSettles \/ RouteEmits, NEW q \in Keys
  PROVE  fetch'[q] = "asked" \/ q \in missed'
<1>1. Invalidate(Queries)
  BY DEF EditSettles, RouteEmits
<1>2. Queries \in SUBSET Queries /\ q \in Queries
  BY DEF Queries
<1>. QED BY <1>1, <1>2, InvalidateRenews

(* The queries an announcement of k concerns. *)
LEMMA EventConcerns ==
  ASSUME NEW k \in Queries
  PROVE  {k} \cup (IF ReachFailed THEN {Reach} ELSE {}) \in SUBSET Queries
BY DEF Queries

(* Every step keeps the types. *)
LEMMA TypeStep ==
  ASSUME Typed, [Next]_vars
  PROVE  TypeOK'
<1>. USE WatchAssumption DEF TypeOK, Typed, Queries, Versions, Results, Error, Resumes,
   clusterVars, cacheVars, informerVars, keeperVars, routeVars, configVars, fetchVars,
   reachVars, dataVars
<1>1. ASSUME NEW p \in Keys, ClusterChanges(p)
      PROVE  TypeOK'
  BY <1>1 DEF ClusterChanges
<1>2. ASSUME NEW p \in Keys, Refetch(p)
      PROVE  TypeOK'
  BY <1>2 DEF Refetch, Goes, OnlyFetch
<1>3. ASSUME NEW p \in Keys, RouteIsDown(p)
      PROVE  TypeOK'
  BY <1>3 DEF RouteIsDown, Answering, Goes, OnlyFetch
<1>4. ASSUME NEW p \in Keys, Joins(p)
      PROVE  TypeOK'
  BY <1>4 DEF Joins, Goes, OnlyFetch, MayWatch, HasClient
<1>5. ASSUME NEW p \in Keys, NEW i \in Informers, Starts(p, i)
      PROVE  TypeOK'
  BY <1>5 DEF Starts, Goes, Start, Free, MayWatch, HasClient
<1>6. ASSUME NEW p \in Keys, ListsDown(p)
      PROVE  TypeOK'
  BY <1>6 DEF ListsDown, Answering, Goes, HasClient
<1>7. ASSUME NEW p \in Keys, ListsForbidden(p)
      PROVE  TypeOK'
  BY <1>7 DEF ListsForbidden, Goes, OnlyFetch
<1>8. ASSUME NEW p \in Keys, Polls(p)
      PROVE  TypeOK'
  <2>1. answer' \in [Keys -> Results] /\ on' \in [Keys -> Informers \cup {NoInformer}]
    <3>1. on[p] \in Informers
      BY <1>8 DEF Polls, PollsItsOwn
    <3>. QED BY <1>8, <3>1 DEF Polls, Answering
  <2>2. fetch' \in [Keys -> {"idle", "asked", "polling", "forbidding", "plain", "answered"}]
    BY <1>8 DEF Polls, Answering, Goes
  <2>. QED BY <1>8, <2>1, <2>2 DEF Polls, OnlyFetch
<1>9. ASSUME NEW p \in Keys, Forbid(p)
      PROVE  TypeOK'
  <2>1. CancelAll({kinds[p]})
    BY <1>9 DEF Forbid
  <2>. QED BY <1>9, <2>1, CancelAllTypes DEF Forbid, Goes
<1>10. ASSUME NEW p \in Keys, PlainList(p)
       PROVE  TypeOK'
  BY <1>10 DEF PlainList, Answering, Goes, OnlyFetch
<1>11. ASSUME NEW p \in Keys, Shows(p)
       PROVE  TypeOK'
  BY <1>11 DEF Shows, Goes
<1>12. ASSUME NEW p \in Keys, NEW i \in Informers, OtherStarts(p, i)
       PROVE  TypeOK'
  BY <1>12 DEF OtherStarts, Start, Free, MayWatch, HasClient
<1>13. CASE LinkChanges
  BY <1>13 DEF LinkChanges
<1>14. CASE EditCluster
  BY <1>14 DEF EditCluster
<1>15. CASE EditSettles
  <2>1. /\ fetch' \in [Keys -> {"idle", "asked", "polling", "forbidding", "plain", "answered"}]
        /\ on' \in [Keys -> Informers \cup {NoInformer}]
        /\ answer' \in [Keys -> Results]
        /\ rfetch' \in {"idle", "asked", "calling"}
        /\ missed' \in SUBSET Queries
        /\ UNCHANGED <<shown, rshown, loaded>>
    <3>. HIDE DEF Typed, TypeOK, Queries, Results
    <3>1. TypeOK /\ Invalidate(Queries)
      BY <1>15 DEF EditSettles, Typed
    <3>. QED BY <3>1, AllTypes
  <2>. QED BY <1>15, <2>1 DEF EditSettles
<1>16. CASE Release
  <2>1. CancelAll(Registered)
    BY <1>16 DEF Release
  <2>. QED BY <1>16, <2>1, CancelAllTypes DEF Release, ClearKinds
<1>17. ASSUME NEW i \in Informers, Lists(i)
       PROVE  TypeOK'
  BY <1>17 DEF Lists, Report, GoOn, OnlyReflector
<1>18. ASSUME NEW i \in Informers, Replaces(i)
       PROVE  TypeOK'
  BY <1>18 DEF Replaces, GoOn, OnlyReflector
<1>19. ASSUME NEW i \in Informers, Opens(i)
       PROVE  TypeOK'
  BY <1>19 DEF Opens, Report, GoOn, OnlyReflector
<1>20. ASSUME NEW i \in Informers, Delivers(i)
       PROVE  TypeOK'
  BY <1>20 DEF Delivers, GoOn, OnlyReflector
<1>21. ASSUME NEW i \in Informers, Tells(i)
       PROVE  TypeOK'
  BY <1>21 DEF Tells, GoOn, Queue
<1>22. ASSUME NEW i \in Informers, WatchEnds(i)
       PROVE  TypeOK'
  BY <1>22 DEF WatchEnds, GoOn, OnlyReflector
<1>23. CASE Coalesced
  BY <1>23 DEF Coalesced
<1>24. ASSUME NEW k \in Queries, EventArrives(k)
       PROVE  TypeOK'
  BY <1>24, EventConcerns, InvalidateTypes DEF EventArrives
<1>25. CASE Probe
  BY <1>25 DEF Probe
<1>26. CASE ProbeUnanswered
  <2>1. CASE down
    BY <1>26, <2>1 DEF ProbeUnanswered
  <2>2. CASE ~down
    <3>1. CancelAll(Registered)
      BY <1>26, <2>2 DEF ProbeUnanswered
    <3>. QED BY <1>26, <2>2, <3>1, CancelAllTypes DEF ProbeUnanswered, ClearKinds, Announced, Watched
  <2>. QED BY <2>1, <2>2
<1>27. CASE ProbeAnswered
  BY <1>27, ZenonT(40) DEF ProbeAnswered, Announced
<1>28. CASE ProbeRefused
  BY <1>28 DEF ProbeRefused
<1>29. CASE Says
  BY <1>29 DEF Says, Queue
<1>30. CASE RouteChanges
  BY <1>30 DEF RouteChanges
<1>31. CASE RouteResets
  <2>1. CancelAll(Registered)
    BY <1>31 DEF RouteResets
  <2>. QED BY <1>31, <2>1, CancelAllTypes DEF RouteResets, ClearKinds
<1>32. CASE RouteEmits
  BY <1>32, AllTypes DEF RouteEmits
<1>33. CASE CheckReachability
  BY <1>33 DEF CheckReachability, ReachShows, OnlyReach, HasClient
<1>34. CASE ReachAnswered
  BY <1>34 DEF ReachAnswered, ReachShows, OnlyReach
<1>35. CASE UNCHANGED vars
  BY <1>35 DEF vars
<1>. QED BY <1>1, <1>2, <1>3, <1>4, <1>5, <1>6, <1>7, <1>8, <1>9, <1>10, <1>11, <1>12, <1>13,
   <1>14, <1>15, <1>16, <1>17, <1>18, <1>19, <1>20, <1>21, <1>22, <1>23, <1>24, <1>25,
   <1>26, <1>27, <1>28, <1>29, <1>30, <1>31, <1>32, <1>33, <1>34, <1>35 DEF Next,
   FetchStep, ReflectorStep, KeeperStep, ReachStep

(* What a step does to the informers: it starts one of a key without, forbids a  *)
(* key, stops them all, or leaves them registered as they are.                   *)
Starting(q, i) ==
    /\ MayWatch(q) /\ kinds[q] = NoInformer
    /\ Start(q, i)
    /\ UNCHANGED <<forbidden, down>>

Forbidding(q) ==
    /\ fetch[q] = "forbidding" /\ fetch'[q] = "plain"
    /\ CancelAll({kinds[q]})
    /\ kinds' = [kinds EXCEPT ![q] = NoInformer]
    /\ forbidden' = forbidden \cup {q}
    /\ UNCHANGED <<of, down>>

Stopping ==
    /\ RouteResets \/ Release \/ (ProbeUnanswered /\ ~down)
    /\ CancelAll(Registered) /\ ClearKinds
    /\ UNCHANGED of

Leaving ==
    /\ UNCHANGED <<kinds, of, live, forbidden>>
    /\ down' => down

LEMMA InformersMove ==
  ASSUME Typed, [Next]_vars
  PROVE  \/ \E q \in Keys, i \in Informers : Starting(q, i)
         \/ \E q \in Keys : Forbidding(q)
         \/ Stopping
         \/ Leaving
<1>. USE DEF Leaving, clusterVars, cacheVars, informerVars, keeperVars, routeVars, configVars,
     fetchVars, reachVars, dataVars
<1>1. ASSUME NEW p \in Keys, NEW i \in Informers, Starts(p, i) \/ OtherStarts(p, i)
      PROVE  Starting(p, i)
  BY <1>1 DEF Starts, OtherStarts, Starting
<1>2. ASSUME NEW p \in Keys, Forbid(p)
      PROVE  Forbidding(p)
  BY <1>2 DEF Forbid, Forbidding, Goes, Typed, TypeOK
<1>3. ASSUME RouteResets \/ Release
      PROVE  Stopping
  BY <1>3 DEF RouteResets, Release, Stopping
<1>4. ASSUME ProbeUnanswered
      PROVE  Stopping \/ Leaving
  BY <1>4 DEF ProbeUnanswered, Stopping
<1>5. ASSUME NEW p \in Keys, ClusterChanges(p)
      PROVE  Leaving
  BY <1>5 DEF ClusterChanges
<1>6. CASE LinkChanges \/ EditCluster \/ RouteChanges
  BY <1>6 DEF LinkChanges, EditCluster, RouteChanges
<1>7. CASE EditSettles \/ RouteEmits
  BY <1>7 DEF EditSettles, RouteEmits
<1>8. ASSUME NEW p \in Keys,
             \/ Refetch(p) \/ RouteIsDown(p) \/ Joins(p) \/ ListsDown(p)
             \/ ListsForbidden(p) \/ Polls(p) \/ PlainList(p) \/ Shows(p)
      PROVE  Leaving
  BY <1>8 DEF Refetch, Goes, OnlyFetch, RouteIsDown, Answering, Joins, MayWatch,
     HasClient, ListsDown, ListsForbidden, Polls, Ready, PlainList, Shows
<1>9. ASSUME NEW i \in Informers,
             \/ Lists(i) \/ Replaces(i) \/ Opens(i) \/ Delivers(i) \/ Tells(i)
             \/ WatchEnds(i)
      PROVE  Leaving
  BY <1>9 DEF Lists, Report, GoOn, OnlyReflector, Replaces, Opens, Delivers, Tells,
     Queue, WatchEnds
<1>10. ASSUME NEW k \in Queries, EventArrives(k)
       PROVE  Leaving
  BY <1>10 DEF EventArrives
<1>11. CASE \/ Coalesced \/ Probe \/ ProbeAnswered \/ ProbeRefused \/ Says
            \/ CheckReachability \/ ReachAnswered
  BY <1>11 DEF Coalesced, Probe, ProbeAnswered, Announced, ProbeRefused, Says, Queue,
     CheckReachability, ReachShows, OnlyReach, HasClient, ReachAnswered
<1>12. CASE UNCHANGED vars
  BY <1>12 DEF vars
<1>. QED BY <1>1, <1>2, <1>3, <1>4, <1>5, <1>6, <1>7, <1>8, <1>9, <1>10, <1>11, <1>12 DEF Next,
   FetchStep, ReflectorStep, KeeperStep, ReachStep

LEMMA RunningStep ==
  ASSUME Typed, [Next]_vars
  PROVE  RunningIsRegistered'
<1>. USE WatchAssumption DEF Typed, TypeOK, RunningIsRegistered
<1>1. ASSUME NEW p \in Keys, NEW i \in Informers, Starting(p, i)
      PROVE  RunningIsRegistered'
  BY <1>1 DEF Starting, Start, Free
<1>2. ASSUME NEW p \in Keys, Forbidding(p)
      PROVE  RunningIsRegistered'
  <2>. USE <1>2 DEF Forbidding
  <2>1. /\ live' = [i \in Informers |-> IF i = kinds[p] THEN FALSE ELSE live[i]]
        /\ kinds' = [kinds EXCEPT ![p] = NoInformer]
        /\ of' = of
    BY DEF CancelAll
  <2>2. ASSUME NEW i \in Informers, live'[i]
        PROVE  kinds'[of'[i]] = i
    <3>1. live[i] /\ i # kinds[p] /\ kinds[of[i]] = i
      BY <2>1, <2>2
    <3>. QED BY <2>1, <3>1
  <2>3. ASSUME NEW q \in Keys, kinds'[q] # NoInformer
        PROVE  live'[kinds'[q]] /\ of'[kinds'[q]] = q
    <3>1. q # p /\ kinds'[q] = kinds[q] /\ kinds[q] \in Informers
      BY <2>1, <2>3
    <3>2. live[kinds[q]] /\ of[kinds[q]] = q /\ kinds[q] # kinds[p]
      BY <3>1
    <3>. QED BY <2>1, <3>1, <3>2
  <2>. QED BY <2>2, <2>3
<1>3. CASE Stopping
  BY <1>3 DEF Stopping, CancelAll, ClearKinds, Registered
<1>4. CASE Leaving
  BY <1>4 DEF Leaving
<1>. QED BY <1>1, <1>2, <1>3, <1>4, InformersMove

LEMMA StoppedStep ==
  ASSUME Typed, StoppedStaysStopped, [Next]_vars
  PROVE  StoppedStaysStopped'
<1>. USE WatchAssumption DEF Typed, TypeOK, StoppedStaysStopped, Watched
<1>1. ASSUME NEW p \in Keys, NEW i \in Informers, Starting(p, i)
      PROVE  StoppedStaysStopped'
  BY <1>1 DEF Starting, Start, MayWatch
<1>2. ASSUME NEW p \in Keys, Forbidding(p)
      PROVE  StoppedStaysStopped'
  BY <1>2 DEF Forbidding
<1>3. CASE Stopping
  BY <1>3 DEF Stopping, ClearKinds
<1>4. CASE Leaving
  BY <1>4 DEF Leaving
<1>. QED BY <1>1, <1>2, <1>3, <1>4, InformersMove

(* What a step does to the read of q: a step of that read, or a new read, or the *)
(* release of the cache it would have forbidden q in, or nothing.                *)
FetchStays(q) ==
    /\ fetch'[q] = fetch[q]
    /\ on'[q] = on[q]
    /\ answer'[q] = answer[q]
    /\ shown'[q] = shown[q]

Released(q) == Release /\ fetch[q] = "forbidding" /\ fetch'[q] = "plain"

LEMMA FetchMoves ==
  ASSUME Typed, [Next]_vars, NEW q \in Keys
  PROVE  FetchStays(q) \/ fetch'[q] = "asked" \/ Released(q) \/ FetchStep(q)
<1>. DEFINE Moves == FetchStays(q) \/ fetch'[q] = "asked" \/ Released(q) \/ FetchStep(q)
<1>. USE WatchAssumption DEF Typed, TypeOK, FetchStays, clusterVars, cacheVars,
   informerVars, keeperVars, routeVars, configVars, fetchVars, reachVars, dataVars
<1>1. ASSUME NEW p \in Keys, ClusterChanges(p)
      PROVE  Moves
  BY <1>1 DEF ClusterChanges
<1>2. CASE LinkChanges \/ EditCluster \/ RouteChanges
  BY <1>2 DEF LinkChanges, EditCluster, RouteChanges
<1>3. CASE EditSettles \/ RouteEmits
  BY <1>3, InvalidateRenews DEF EditSettles, RouteEmits
<1>4. CASE Release
  BY <1>4 DEF Release, CancelAll, ClearKinds, Released
<1>5. ASSUME NEW p \in Keys,
             \/ RouteIsDown(p) \/ Joins(p) \/ ListsDown(p) \/ ListsForbidden(p)
             \/ Polls(p) \/ Forbid(p) \/ PlainList(p) \/ Shows(p)
      PROVE  Moves
  <2>1. CASE p = q
    BY <1>5, <2>1 DEF FetchStep
  <2>. QED BY <1>5, <2>1 DEF RouteIsDown, Joins, ListsDown, ListsForbidden, Polls, Forbid, PlainList,
          Shows, Answering, Goes, OnlyFetch
<1>6. ASSUME NEW p \in Keys, NEW i \in Informers, Starts(p, i)
      PROVE  Moves
  <2>1. CASE p = q
    BY <1>6, <2>1 DEF FetchStep
  <2>. QED BY <1>6, <2>1 DEF Starts, Goes
<1>7. ASSUME NEW p \in Keys, Refetch(p)
      PROVE  Moves
  BY <1>7 DEF Refetch, Goes, OnlyFetch
<1>8. ASSUME NEW p \in Keys, NEW i \in Informers, OtherStarts(p, i)
      PROVE  Moves
  BY <1>8 DEF OtherStarts, Start, Free, MayWatch, HasClient
<1>9. ASSUME NEW i \in Informers,
             \/ Lists(i) \/ Replaces(i) \/ Opens(i) \/ Delivers(i) \/ Tells(i)
             \/ WatchEnds(i)
      PROVE  Moves
  BY <1>9 DEF Lists, Report, GoOn, OnlyReflector, Replaces, Opens, Delivers, Tells,
     Queue, WatchEnds
<1>10. ASSUME NEW k \in Queries, EventArrives(k)
       PROVE  Moves
  BY <1>10, EventConcerns, InvalidateRenews DEF EventArrives
<1>11. CASE \/ Probe \/ ProbeUnanswered \/ ProbeAnswered \/ ProbeRefused \/ Says
            \/ RouteResets \/ Coalesced \/ CheckReachability \/ ReachAnswered
  BY <1>11 DEF Probe, ProbeUnanswered, CancelAll, ClearKinds, Announced, ProbeAnswered,
     ProbeRefused, Says, Queue, RouteResets, Coalesced, CheckReachability, ReachShows,
     OnlyReach, HasClient, ReachAnswered
<1>12. CASE UNCHANGED vars
  BY <1>12 DEF vars
<1>. QED BY <1>1, <1>2, <1>3, <1>4, <1>5, <1>6, <1>7, <1>8, <1>9, <1>10, <1>11, <1>12 DEF Next,
   FetchStep, ReflectorStep, KeeperStep, ReachStep

(* An announcement that was missed is made up for only by another read. *)
LEMMA MissedLasts ==
  ASSUME Typed, [Next]_vars, NEW q \in Keys, q \in missed
  PROVE  q \in missed' \/ fetch'[q] = "asked"
<1>. DEFINE Lasts == q \in missed' \/ fetch'[q] = "asked"
<1>. USE DEF Typed, dataVars
<1>1. CASE EditSettles \/ RouteEmits
  BY <1>1, InvalidateRenews DEF EditSettles, RouteEmits
<1>2. ASSUME NEW k \in Queries, EventArrives(k)
      PROVE  Lasts
  BY <1>2, EventConcerns, InvalidateRenews DEF EventArrives
<1>3. ASSUME NEW p \in Keys, Refetch(p)
      PROVE  Lasts
  BY <1>3 DEF Refetch, Goes, TypeOK
<1>4. CASE LinkChanges \/ EditCluster \/ RouteChanges \/ RouteResets \/ Release
  BY <1>4 DEF LinkChanges, EditCluster, RouteChanges, RouteResets, Release
<1>5. ASSUME NEW p \in Keys,
             \/ ClusterChanges(p) \/ RouteIsDown(p) \/ Joins(p) \/ ListsDown(p)
             \/ ListsForbidden(p) \/ Polls(p) \/ Forbid(p) \/ PlainList(p)
             \/ Shows(p)
      PROVE  Lasts
  BY <1>5 DEF ClusterChanges, OnlyFetch, RouteIsDown, Joins, ListsDown, ListsForbidden,
     Polls, Forbid, PlainList, Shows
<1>6. ASSUME NEW p \in Keys, NEW i \in Informers, Starts(p, i) \/ OtherStarts(p, i)
      PROVE  Lasts
  BY <1>6 DEF Starts, OtherStarts
<1>7. ASSUME NEW i \in Informers,
             \/ Lists(i) \/ Replaces(i) \/ Opens(i) \/ Delivers(i) \/ Tells(i)
             \/ WatchEnds(i)
      PROVE  Lasts
  BY <1>7 DEF Lists, OnlyReflector, Replaces, Opens, Delivers, Tells, WatchEnds
<1>8. CASE \/ Coalesced \/ Probe \/ ProbeUnanswered \/ ProbeAnswered \/ ProbeRefused
           \/ Says \/ CheckReachability \/ ReachAnswered
  BY <1>8 DEF Coalesced, Probe, ProbeUnanswered, ProbeAnswered, ProbeRefused, Says,
     CheckReachability, OnlyReach, ReachAnswered
<1>9. CASE UNCHANGED vars
  BY <1>9 DEF vars
<1>. QED BY <1>1, <1>2, <1>3, <1>4, <1>5, <1>6, <1>7, <1>8, <1>9 DEF Next, FetchStep,
   ReflectorStep, KeeperStep, ReachStep

LEMMA PollsStep ==
  ASSUME Typed, [Next]_vars
  PROVE  PollsItsOwn'
<1>. SUFFICES ASSUME NEW q \in Keys, fetch'[q] = "polling"
              PROVE  on'[q] # NoInformer /\ (live'[on'[q]] => of'[on'[q]] = q)
  BY DEF PollsItsOwn
<1>. USE WatchAssumption DEF Typed, TypeOK, RunningIsRegistered, PollsItsOwn
<1>1. CASE FetchStays(q)
  <2>. USE <1>1 DEF FetchStays
  <2>1. on[q] \in Informers /\ on'[q] = on[q] /\ (live[on[q]] => of[on[q]] = q)
    OBVIOUS
  <2>2. ASSUME NEW p \in Keys, NEW i \in Informers, Starting(p, i)
        PROVE  live'[on[q]] => of'[on[q]] = q
    BY <2>1, <2>2 DEF Starting, Start, Free
  <2>3. ASSUME NEW p \in Keys, Forbidding(p)
        PROVE  live'[on[q]] => of'[on[q]] = q
    BY <2>1, <2>3 DEF Forbidding, CancelAll
  <2>4. ASSUME Stopping
        PROVE  live'[on[q]] => of'[on[q]] = q
    BY <2>1, <2>4 DEF Stopping, CancelAll
  <2>5. ASSUME Leaving
        PROVE  live'[on[q]] => of'[on[q]] = q
    BY <2>1, <2>5 DEF Leaving
  <2>. QED BY <2>1, <2>2, <2>3, <2>4, <2>5, InformersMove
<1>2. CASE Joins(q)
  BY <1>2 DEF Joins, Goes, OnlyFetch, informerVars
<1>3. ASSUME NEW i \in Informers, Starts(q, i)
      PROVE  on'[q] # NoInformer /\ (live'[on'[q]] => of'[on'[q]] = q)
  BY <1>3 DEF Starts, Start, Goes
<1>4. CASE \/ RouteIsDown(q) \/ ListsDown(q) \/ ListsForbidden(q)
           \/ Polls(q) \/ Forbid(q) \/ PlainList(q) \/ Shows(q)
  BY <1>4 DEF RouteIsDown, ListsDown, ListsForbidden, Polls, Forbid, PlainList, Shows,
     Answering, Goes
<1>5. CASE fetch'[q] = "asked" \/ Released(q)
  BY <1>5 DEF Released
<1>. QED BY <1>1, <1>2, <1>3, <1>4, <1>5, FetchMoves DEF FetchStep


(* A new read of q is due, or missed, or q is about to be read without a watch. *)
Renewed(q) == fetch'[q] \in {"asked", "plain"} \/ q \in missed'

LEMMA ReleaseRenews ==
  ASSUME OutdatedIsTold, Typed, Release, NEW q \in Keys
  PROVE  Renewed(q) \/ Told(q)'
<1>1. ssh /\ saved' = saved /\ route' = route
      /\ fetch' = [p \in Keys |-> IF fetch[p] = "forbidding" THEN "plain" ELSE fetch[p]]
  BY DEF Release, routeVars
<1>2. CASE saved \/ route # "quiet"
  BY <1>1, <1>2 DEF Told, Announcing
<1>3. CASE ~saved /\ route = "quiet"
  <2>1. fetch[q] = "asked" \/ q \in missed
    BY <1>1, <1>3 DEF OutdatedIsTold, RouteError, Release
  <2>2. missed' = missed
    BY DEF Release, dataVars
  <2>. QED BY <1>1, <2>1, <2>2 DEF Renewed
<1>. QED BY <1>2, <1>3

(* Who was about to be told still is. *)
LEMMA ToldStays ==
  ASSUME Typed, OutdatedIsTold, OnlySaying, [Next]_vars, NEW q \in Keys, Told(q)
  PROVE  Renewed(q) \/ Told(q)'
<1>. DEFINE Stays == Renewed(q) \/ Told(q)'
<1>. USE WatchAssumption DEF Typed, TypeOK, Renewed, Told, Announcing,
   RunningIsRegistered, clusterVars, cacheVars, informerVars, keeperVars, routeVars,
   configVars, fetchVars, reachVars, dataVars
<1>1. ASSUME NEW p \in Keys, ClusterChanges(p)
      PROVE  Stays
  BY <1>1 DEF ClusterChanges
<1>2. CASE LinkChanges \/ EditCluster \/ RouteChanges
  BY <1>2 DEF LinkChanges, EditCluster, RouteChanges
<1>3. CASE EditSettles \/ RouteEmits
  BY <1>3, AllRenewed
<1>4. CASE Release
  BY <1>4, ReleaseRenews
<1>5. CASE RouteResets
  BY <1>5 DEF RouteResets, CancelAll, ClearKinds
<1>6. ASSUME NEW p \in Keys,
             \/ Refetch(p) \/ RouteIsDown(p) \/ Joins(p) \/ ListsDown(p)
             \/ ListsForbidden(p) \/ Polls(p) \/ PlainList(p) \/ Shows(p)
      PROVE  Stays
  BY <1>6 DEF Refetch, Goes, OnlyFetch, RouteIsDown, Answering, Joins, MayWatch,
     HasClient, ListsDown, ListsForbidden, Polls, Ready, PlainList, Shows
<1>7. ASSUME NEW p \in Keys, NEW i \in Informers, Starts(p, i) \/ OtherStarts(p, i)
      PROVE  Stays
  BY <1>7 DEF Starts, Goes, Start, Free, MayWatch, HasClient, OtherStarts
<1>8. ASSUME NEW p \in Keys, Forbid(p)
      PROVE  Stays
  BY <1>8 DEF Forbid, Goes, CancelAll
<1>9. ASSUME NEW i \in Informers, Lists(i)
      PROVE  Stays
  BY <1>9 DEF Lists, Report, GoOn, OnlyReflector
<1>10. ASSUME NEW i \in Informers, Replaces(i)
       PROVE  Stays
  BY <1>10 DEF Replaces, GoOn, OnlyReflector
<1>11. ASSUME NEW i \in Informers, Opens(i)
       PROVE  Stays
  BY <1>11 DEF Opens, Report, GoOn, OnlyReflector
<1>12. ASSUME NEW i \in Informers, Delivers(i)
       PROVE  Stays
  BY <1>12 DEF Delivers, GoOn, OnlyReflector
<1>13. ASSUME NEW i \in Informers, WatchEnds(i)
       PROVE  Stays
  BY <1>13 DEF WatchEnds, GoOn, OnlyReflector
<1>14. ASSUME NEW i \in Informers, Tells(i)
       PROVE  Stays
  BY <1>14 DEF Tells, GoOn, Queue
<1>15. ASSUME NEW k \in Queries, EventArrives(k)
       PROVE  Stays
  <2>1. CASE q = k
    BY <1>15, <2>1, EventConcerns, InvalidateRenews DEF EventArrives
  <2>2. CASE q # k
    BY <1>15, <2>2 DEF EventArrives
  <2>. QED BY <2>1, <2>2
<1>16. CASE Coalesced
  BY <1>16 DEF Coalesced
<1>17. CASE Probe \/ ProbeRefused \/ CheckReachability \/ ReachAnswered
  BY <1>17 DEF Probe, ProbeRefused, CheckReachability, ReachShows, OnlyReach, HasClient,
     ReachAnswered
<1>18. CASE ProbeUnanswered
  <2>1. CASE down
    BY <1>18, <2>1 DEF ProbeUnanswered
  <2>2. CASE ~down
    <3>1. /\ saying = {} /\ saying' = Watched \cup {Reach}
          /\ UNCHANGED <<pending, sent, route, saved, ssh>>
      BY <1>18, <2>2 DEF ProbeUnanswered, Announced, OnlySaying
    <3>2. CASE q \in Watched
      BY <3>1, <3>2
    <3>3. CASE q \notin Watched
      BY <2>2, <3>1, <3>3 DEF Watched
    <3>. QED BY <3>2, <3>3
  <2>. QED BY <2>1, <2>2
<1>19. CASE ProbeAnswered
  BY <1>19 DEF ProbeAnswered, Announced, OnlySaying
<1>20. CASE Says
  BY <1>20 DEF Says, Queue
<1>21. CASE UNCHANGED vars
  BY <1>21 DEF vars
<1>. QED BY <1>1, <1>2, <1>3, <1>4, <1>5, <1>6, <1>7, <1>8, <1>9, <1>10, <1>11, <1>12, <1>13,
   <1>14, <1>15, <1>16, <1>17, <1>18, <1>19, <1>20, <1>21 DEF Next, FetchStep,
   ReflectorStep, KeeperStep, ReachStep

(* And a result that stood still does, or q is told. *)
LEMMA StandsStays ==
  ASSUME Typed, StoppedStaysStopped, OutdatedIsTold, OnlySaying, [Next]_vars,
         NEW q \in Keys, NEW r, Stands(q, r)
  PROVE  Renewed(q) \/ Told(q)' \/ Stands(q, r)'
<1>. DEFINE Stays == Renewed(q) \/ Told(q)' \/ Stands(q, r)'
<1>. USE WatchAssumption DEF Typed, TypeOK, Renewed, Told, Announcing, Stands, Vouches,
   RunningIsRegistered, clusterVars, cacheVars, informerVars, keeperVars, routeVars,
   configVars, fetchVars, reachVars, dataVars
<1>1. ASSUME NEW p \in Keys, ClusterChanges(p)
      PROVE  Stays
  BY <1>1 DEF ClusterChanges
<1>2. CASE LinkChanges \/ EditCluster
  BY <1>2 DEF LinkChanges, EditCluster
<1>3. CASE RouteChanges
  BY <1>3 DEF RouteChanges
<1>4. CASE EditSettles \/ RouteEmits
  BY <1>4, AllRenewed
<1>5. CASE Release
  BY <1>5, ReleaseRenews
<1>6. CASE RouteResets
  BY <1>6 DEF RouteResets, CancelAll, ClearKinds
<1>7. ASSUME NEW p \in Keys,
             \/ Refetch(p) \/ RouteIsDown(p) \/ Joins(p) \/ ListsForbidden(p)
             \/ Polls(p) \/ PlainList(p) \/ Shows(p)
      PROVE  Stays
  BY <1>7 DEF Refetch, Goes, OnlyFetch, RouteIsDown, Answering, Joins, MayWatch,
     HasClient, ListsForbidden, Polls, Ready, PlainList, Shows
<1>8. ASSUME NEW p \in Keys, ListsDown(p)
      PROVE  Stays
  BY <1>8 DEF ListsDown, Answering, Goes, HasClient
<1>9. ASSUME NEW p \in Keys, NEW i \in Informers, Starts(p, i) \/ OtherStarts(p, i)
      PROVE  Stays
  BY <1>9 DEF Starts, Goes, Start, Free, MayWatch, HasClient, OtherStarts
<1>10. ASSUME NEW p \in Keys, Forbid(p)
       PROVE  Stays
  BY <1>10 DEF Forbid, Goes, CancelAll
<1>11. ASSUME NEW i \in Informers, Lists(i)
       PROVE  Stays
  BY <1>11 DEF Lists, Report, GoOn, OnlyReflector
<1>12. ASSUME NEW i \in Informers, Replaces(i)
       PROVE  Stays
  BY <1>12 DEF Replaces, GoOn, OnlyReflector
<1>13. ASSUME NEW i \in Informers, Opens(i)
       PROVE  Stays
  BY <1>13 DEF Opens, Report, GoOn, OnlyReflector
<1>14. ASSUME NEW i \in Informers, Delivers(i)
       PROVE  Stays
  BY <1>14 DEF Delivers, GoOn, OnlyReflector
<1>15. ASSUME NEW i \in Informers, WatchEnds(i)
       PROVE  Stays
  BY <1>15 DEF WatchEnds, GoOn, OnlyReflector
<1>16. ASSUME NEW i \in Informers, Tells(i)
       PROVE  Stays
  BY <1>16 DEF Tells, GoOn, Queue
<1>17. ASSUME NEW k \in Queries, EventArrives(k)
       PROVE  Stays
  <2>1. CASE q = k
    BY <1>17, <2>1, EventConcerns, InvalidateRenews DEF EventArrives
  <2>2. CASE q # k
    BY <1>17, <2>2 DEF EventArrives
  <2>. QED BY <2>1, <2>2
<1>18. CASE Coalesced
  BY <1>18 DEF Coalesced
<1>19. CASE Probe \/ ProbeRefused \/ CheckReachability \/ ReachAnswered
  BY <1>19 DEF Probe, ProbeRefused, CheckReachability, ReachShows, OnlyReach, HasClient,
     ReachAnswered
<1>20. CASE ProbeUnanswered
  <2>1. CASE down
    BY <1>20, <2>1 DEF ProbeUnanswered
  <2>2. CASE ~down
    <3>1. /\ saying = {} /\ saying' = Watched \cup {Reach}
          /\ UNCHANGED <<pending, sent, route, saved, ssh>>
      BY <1>20, <2>2 DEF ProbeUnanswered, Announced, OnlySaying
    <3>2. CASE q \in Watched
      BY <3>1, <3>2
    <3>3. CASE q \notin Watched
      BY <2>2, <3>1, <3>3 DEF Watched
    <3>. QED BY <3>2, <3>3
  <2>. QED BY <2>1, <2>2
<1>21. CASE ProbeAnswered
  BY <1>21 DEF ProbeAnswered, Announced, OnlySaying, StoppedStaysStopped, Watched
<1>22. CASE Says
  BY <1>22 DEF Says, Queue
<1>23. CASE UNCHANGED vars
  BY <1>23 DEF vars
<1>. QED BY <1>1, <1>2, <1>3, <1>4, <1>5, <1>6, <1>7, <1>8, <1>9, <1>10, <1>11, <1>12, <1>13,
   <1>14, <1>15, <1>16, <1>17, <1>18, <1>19, <1>20, <1>21, <1>22, <1>23 DEF Next,
   FetchStep, ReflectorStep, KeeperStep, ReachStep

(* A key is allowed again only with a new cache. *)
LEMMA ForbiddenStays ==
  ASSUME Typed, [Next]_vars, ~Release
  PROVE  forbidden \subseteq forbidden'
<1>1. CASE Stopping
  BY <1>1 DEF Stopping, RouteResets, ProbeUnanswered
<1>. QED BY <1>1, InformersMove DEF Starting, Forbidding, Leaving

(* An informer is cancelled only with something to tell who polls it. *)
LEMMA CancellingTells ==
  ASSUME IndInv, [Next]_vars, NEW q \in Keys, fetch[q] = "polling",
         kinds[q] # NoInformer, ~live'[kinds[q]]
  PROVE  Renewed(q) \/ Told(q)'
<1>. USE WatchAssumption DEF IndInv, Typed, TypeOK, RunningIsRegistered
<1>1. ASSUME NEW p \in Keys, NEW i \in Informers, Starting(p, i)
      PROVE  FALSE
  BY <1>1 DEF Starting, Start
<1>2. ASSUME NEW p \in Keys, Forbidding(p)
      PROVE  FALSE
  <2>1. p # q
    BY <1>2 DEF Forbidding
  <2>2. kinds[q] # kinds[p] /\ live[kinds[q]] /\ kinds[q] \in Informers
    BY <2>1
  <2>. QED BY <1>2, <2>2 DEF Forbidding, CancelAll
<1>3. CASE Stopping
  <2>1. CASE RouteResets
    BY <2>1 DEF RouteResets, Told, Announcing
  <2>2. CASE Release
    BY <2>2, ReleaseRenews
  <2>3. CASE ProbeUnanswered /\ ~down
    BY <2>3 DEF ProbeUnanswered, Announced, Watched, Told, Announcing
  <2>. QED BY <1>3, <2>1, <2>2, <2>3 DEF Stopping
<1>4. ASSUME Leaving
      PROVE  FALSE
  BY <1>4 DEF Leaving
<1>. QED BY <1>1, <1>2, <1>3, <1>4, InformersMove

LEMMA CancelledStep ==
  ASSUME IndInv, [Next]_vars
  PROVE  CancelledIsTold'
<1>. SUFFICES ASSUME NEW q \in Keys, q \notin missed', fetch'[q] = "polling", ~live'[on'[q]]
              PROVE  Told(q)'
  BY DEF CancelledIsTold
<1>. USE WatchAssumption DEF IndInv, Typed, TypeOK, RunningIsRegistered
<1>1. CASE FetchStays(q)
  <2>. USE <1>1 DEF FetchStays
  <2>1. fetch[q] = "polling" /\ on[q] \in Informers /\ ~live'[on[q]]
    BY DEF PollsItsOwn
  <2>2. CASE ~live[on[q]]
    BY <2>1, <2>2, ToldStays, MissedLasts DEF CancelledIsTold, Renewed
  <2>3. CASE live[on[q]]
    <3>1. kinds[q] = on[q]
      BY <2>1, <2>3 DEF PollsItsOwn
    <3>. QED BY <2>1, <3>1, CancellingTells DEF Renewed
  <2>. QED BY <2>2, <2>3
<1>2. CASE Joins(q)
  BY <1>2 DEF Joins, Goes, OnlyFetch, informerVars
<1>3. ASSUME NEW i \in Informers, Starts(q, i)
      PROVE  Told(q)'
  BY <1>3 DEF Starts, Start, Goes
<1>4. CASE \/ RouteIsDown(q) \/ ListsDown(q) \/ ListsForbidden(q)
           \/ Polls(q) \/ Forbid(q) \/ PlainList(q) \/ Shows(q)
  BY <1>4 DEF RouteIsDown, ListsDown, ListsForbidden, Polls, Forbid, PlainList, Shows,
     Answering, Goes
<1>5. CASE fetch'[q] = "asked" \/ Released(q)
  BY <1>5 DEF Released
<1>. QED BY <1>1, <1>2, <1>3, <1>4, <1>5, FetchMoves DEF FetchStep

(* A result of q that nobody replaces and that stood, or had been told, still is. *)
LEMMA ResultStays ==
  ASSUME IndInv, [Next]_vars, NEW q \in Keys, NEW r, ~Renewed(q), q \notin forbidden',
         q \notin forbidden \cup missed => Told(q) \/ Stands(q, r)
  PROVE  Told(q)' \/ Stands(q, r)'
<1>. q \notin missed
  BY MissedLasts DEF IndInv, Renewed
<1>1. CASE q \notin forbidden
  BY <1>1, ToldStays, StandsStays DEF IndInv
<1>2. CASE q \in forbidden
  BY <1>2, ForbiddenStays, ReleaseRenews DEF IndInv
<1>. QED BY <1>1, <1>2

LEMMA AnswerStep ==
  ASSUME IndInv, [Next]_vars
  PROVE  AnswerIsWatched'
<1>. SUFFICES ASSUME NEW q \in Keys, fetch'[q] = "answered", q \notin forbidden' \cup missed'
              PROVE  Told(q)' \/ Stands(q, answer[q])'
  BY DEF AnswerIsWatched
<1>. USE WatchAssumption DEF IndInv, Typed, TypeOK
<1>1. CASE FetchStays(q)
  <2>1. PICK r : r = answer[q]
    OBVIOUS
  <2>2. Told(q)' \/ Stands(q, r)'
    <3>1. q \notin forbidden \cup missed => Told(q) \/ Stands(q, r)
      BY <1>1, <2>1 DEF FetchStays, AnswerIsWatched, Stands, Vouches
    <3>. QED BY <3>1, ResultStays DEF Renewed
  <2>. QED BY <1>1, <2>1, <2>2 DEF FetchStays, Stands, Vouches
<1>2. CASE RouteIsDown(q)
  BY <1>2 DEF RouteIsDown, Answering, OnlyFetch, routeVars, Stands
<1>3. CASE ListsDown(q)
  BY <1>3 DEF ListsDown, Answering, Stands
<1>4. CASE Polls(q)
  <2>. DEFINE i == on[q]
  <2>1. /\ i \in Informers /\ kinds' = kinds /\ failed' = failed
        /\ synced' = synced /\ store' = store
    BY <1>4 DEF Polls, PollsItsOwn, OnlyFetch, cacheVars, informerVars
  <2>2. CASE ~live[i]
    <3>1. fetch[q] = "polling" /\ q \notin missed
      BY <1>4, MissedLasts DEF Polls
    <3>2. Told(q)
      BY <2>2, <3>1 DEF CancelledIsTold
    <3>. QED BY <3>2, ToldStays DEF Renewed
  <2>3. CASE live[i]
    <3>1. kinds[q] = i
      BY <1>4, <2>1, <2>3 DEF Polls, PollsItsOwn, RunningIsRegistered
    <3>2. answer'[q] = IF failed[i] = "down" THEN Error ELSE store[i]
      BY <1>4, <2>3 DEF Polls, Answering, Goes, Ready
    <3>3. failed[i] = "down" \/ (failed[i] = "no" /\ synced[i])
      BY <1>4, <2>3 DEF Polls, Goes, Ready
    <3>. QED BY <2>1, <3>1, <3>2, <3>3 DEF Stands, Vouches
  <2>. QED BY <2>2, <2>3
<1>5. CASE PlainList(q)
  <2>1. saved' \/ route' # "quiet"
    BY <1>5 DEF PlainList, Answering, Goes, OnlyFetch, PlainIsForbidden, cacheVars,
       configVars, routeVars, dataVars
  <2>. QED BY <2>1 DEF Told, Announcing
<1>6. ASSUME NEW i \in Informers, Starts(q, i)
      PROVE  FALSE
  BY <1>6 DEF Starts, Goes
<1>7. CASE fetch'[q] = "asked" \/ Released(q)
  BY <1>7 DEF Released
<1>8. CASE Joins(q) \/ ListsForbidden(q) \/ Forbid(q) \/ Shows(q)
  BY <1>8 DEF Joins, ListsForbidden, Forbid, Shows, Goes
<1>. QED BY <1>1, <1>2, <1>3, <1>4, <1>5, <1>6, <1>7, <1>8, FetchMoves DEF FetchStep

LEMMA ShownStep ==
  ASSUME IndInv, [Next]_vars
  PROVE  ShownIsWatched'
<1>. SUFFICES ASSUME NEW q \in Keys, fetch'[q] = "idle", q \notin forbidden' \cup missed'
              PROVE  Told(q)' \/ Stands(q, shown[q])'
  BY DEF ShownIsWatched
<1>. USE WatchAssumption DEF IndInv, Typed, TypeOK
<1>1. CASE FetchStays(q)
  <2>1. PICK r : r = shown[q]
    OBVIOUS
  <2>2. Told(q)' \/ Stands(q, r)'
    <3>1. q \notin forbidden \cup missed => Told(q) \/ Stands(q, r)
      BY <1>1, <2>1 DEF FetchStays, ShownIsWatched, Stands, Vouches
    <3>. QED BY <3>1, ResultStays DEF Renewed
  <2>. QED BY <1>1, <2>1, <2>2 DEF FetchStays, Stands, Vouches
<1>2. CASE Shows(q)
  <2>1. PICK r : r = answer[q]
    OBVIOUS
  <2>2. Told(q)' \/ Stands(q, r)'
    <3>1. q \notin forbidden \cup missed => Told(q) \/ Stands(q, r)
      BY <1>2, <2>1 DEF Shows, Goes, AnswerIsWatched, Stands, Vouches
    <3>. QED BY <3>1, ResultStays DEF Renewed
  <2>3. shown'[q] = r
    BY <1>2, <2>1 DEF Shows
  <2>. QED BY <2>2, <2>3 DEF Stands, Vouches
<1>3. ASSUME NEW i \in Informers, Starts(q, i)
      PROVE  FALSE
  BY <1>3 DEF Starts, Goes
<1>4. CASE \/ RouteIsDown(q) \/ Joins(q) \/ ListsDown(q) \/ ListsForbidden(q)
           \/ Polls(q) \/ Forbid(q) \/ PlainList(q)
  BY <1>4 DEF RouteIsDown, Joins, ListsDown, ListsForbidden, Polls, Forbid, PlainList,
     Answering, Goes
<1>5. CASE fetch'[q] = "asked" \/ Released(q)
  BY <1>5 DEF Released
<1>. QED BY <1>1, <1>2, <1>3, <1>4, <1>5, FetchMoves DEF FetchStep


(* An edit is outdated before it is settled; what settles it, and what ends a    *)
(* change of the Route, reads every list again.                                  *)
ConfigMoves ==
    /\ outdated' => outdated \/ saved'
    /\ saved \/ route # "quiet" =>
         \/ saved' \/ route' # "quiet"
         \/ \A q \in Keys : fetch'[q] = "asked" \/ q \in missed'
    /\ ssh' # ssh => route' # "quiet"

LEMMA ConfigMovesLemma ==
  ASSUME Typed, [Next]_vars
  PROVE  ConfigMoves
<1>. USE DEF Typed, TypeOK, ConfigMoves, configVars, routeVars
<1>. DEFINE Same == UNCHANGED <<ssh, route, outdated, saved>>
<1>1. ASSUME Same
      PROVE  ConfigMoves
  BY <1>1
<1>2. CASE EditCluster
  BY <1>2 DEF EditCluster
<1>3. CASE RouteChanges
  BY <1>3 DEF RouteChanges
<1>4. CASE EditSettles
  BY <1>4, AllRenewed DEF EditSettles
<1>5. CASE RouteEmits
  BY <1>5, AllRenewed DEF RouteEmits
<1>6. CASE Release
  BY <1>6 DEF Release
<1>7. CASE RouteResets
  BY <1>7 DEF RouteResets
<1>8. ASSUME NEW p \in Keys, ClusterChanges(p)
      PROVE  Same
  BY <1>8 DEF ClusterChanges
<1>9. CASE LinkChanges
  BY <1>9 DEF LinkChanges
<1>10. ASSUME NEW p \in Keys,
              \/ Refetch(p) \/ RouteIsDown(p) \/ Joins(p) \/ ListsDown(p)
              \/ ListsForbidden(p) \/ Polls(p) \/ Forbid(p) \/ PlainList(p)
              \/ Shows(p)
       PROVE  Same
  BY <1>10 DEF Refetch, Goes, OnlyFetch, RouteIsDown, Answering, Joins, MayWatch,
     HasClient, ListsDown, ListsForbidden, Polls, Ready, Forbid, CancelAll, PlainList,
     Shows
<1>11. ASSUME NEW p \in Keys, NEW i \in Informers, Starts(p, i) \/ OtherStarts(p, i)
       PROVE  Same
  BY <1>11 DEF Starts, Goes, Start, Free, MayWatch, HasClient, OtherStarts
<1>12. ASSUME NEW i \in Informers,
              \/ Lists(i) \/ Replaces(i) \/ Opens(i) \/ Delivers(i) \/ Tells(i)
              \/ WatchEnds(i)
       PROVE  Same
  BY <1>12 DEF Lists, Report, GoOn, OnlyReflector, Replaces, Opens, Delivers, Tells,
     Queue, WatchEnds
<1>13. ASSUME NEW k \in Queries, EventArrives(k)
       PROVE  Same
  BY <1>13 DEF EventArrives
<1>14. CASE Coalesced \/ Probe
  BY <1>14 DEF Coalesced, Probe
<1>15. CASE ProbeUnanswered
  BY <1>15 DEF ProbeUnanswered, CancelAll, ClearKinds, Announced
<1>16. CASE ProbeAnswered \/ ProbeRefused \/ Says
  BY <1>16 DEF ProbeAnswered, Announced, ProbeRefused, Says, Queue
<1>17. CASE CheckReachability \/ ReachAnswered
  BY <1>17 DEF CheckReachability, ReachShows, OnlyReach, HasClient, ReachAnswered
<1>18. CASE UNCHANGED vars
  BY <1>18 DEF vars
<1>. QED BY <1>1, <1>2, <1>3, <1>4, <1>5, <1>6, <1>7, <1>8, <1>9, <1>10, <1>11, <1>12, <1>13,
   <1>14, <1>15, <1>16, <1>17, <1>18 DEF Next, FetchStep, ReflectorStep, KeeperStep,
   ReachStep

LEMMA PlainStep ==
  ASSUME IndInv, [Next]_vars
  PROVE  PlainIsForbidden'
<1>. SUFFICES ASSUME NEW q \in Keys, fetch'[q] = "plain"
              PROVE  q \in forbidden' \cup missed' \/ saved' \/ route' # "quiet"
  BY DEF PlainIsForbidden
<1>1. ConfigMoves
  BY ConfigMovesLemma DEF IndInv
<1>2. CASE FetchStays(q)
  <2>1. CASE Release
    BY <1>2, <2>1 DEF Release, FetchStays, IndInv, OutdatedIsTold, RouteError, routeVars,
       dataVars
  <2>2. CASE ~Release
    BY <1>1, <1>2, <2>2, ForbiddenStays, MissedLasts
       DEF FetchStays, IndInv, PlainIsForbidden, ConfigMoves
  <2>. QED BY <2>1, <2>2
<1>3. CASE Released(q)
  BY <1>3 DEF Released, Release, IndInv, OutdatedIsTold, RouteError, routeVars, dataVars
<1>4. CASE Forbid(q)
  BY <1>4 DEF Forbid
<1>5. ASSUME NEW i \in Informers, Starts(q, i)
      PROVE  FALSE
  BY <1>5 DEF Starts, Goes, IndInv, Typed, TypeOK
<1>6. CASE \/ RouteIsDown(q) \/ Joins(q) \/ ListsDown(q) \/ ListsForbidden(q)
           \/ Polls(q) \/ PlainList(q) \/ Shows(q)
  BY <1>6 DEF RouteIsDown, Joins, ListsDown, ListsForbidden, Polls, PlainList, Shows,
     Answering, Goes, IndInv, Typed, TypeOK
<1>. QED BY <1>2, <1>3, <1>4, <1>5, <1>6, FetchMoves DEF FetchStep, IndInv

LEMMA OutdatedStep ==
  ASSUME IndInv, [Next]_vars
  PROVE  OutdatedIsTold'
<1>. SUFFICES ASSUME outdated', ~saved', route' = "quiet", NEW q \in Keys \ missed'
              PROVE  fetch'[q] = "asked" \/ RouteError(q)'
  BY DEF OutdatedIsTold
<1>1. ConfigMoves
  BY ConfigMovesLemma DEF IndInv
<1>2. CASE saved \/ route # "quiet"
  BY <1>1, <1>2 DEF ConfigMoves
<1>3. CASE ~saved /\ route = "quiet"
  <2>1. outdated /\ ssh' = ssh
    BY <1>1, <1>3 DEF ConfigMoves
  <2>2. fetch'[q] = "asked" \/ fetch[q] = "asked" \/ RouteError(q)
    <3>1. CASE q \in missed
      BY <3>1, MissedLasts DEF IndInv
    <3>2. CASE q \notin missed
      BY <1>3, <2>1, <3>2 DEF IndInv, OutdatedIsTold
    <3>. QED BY <3>1, <3>2
  <2>3. CASE FetchStays(q)
    BY <2>1, <2>2, <2>3 DEF FetchStays, RouteError
  <2>4. CASE Released(q)
    BY <2>2, <2>4 DEF Released, RouteError
  <2>5. CASE RouteIsDown(q)
    BY <2>5 DEF RouteIsDown, Answering, Goes, OnlyFetch, routeVars, RouteError,
       IndInv, Typed, TypeOK
  <2>6. CASE Shows(q)
    BY <2>1, <2>2, <2>6 DEF Shows, Goes, RouteError, IndInv, Typed, TypeOK
  <2>7. ASSUME NEW i \in Informers, Starts(q, i)
        PROVE  FALSE
    BY <2>1, <2>7 DEF Starts, MayWatch, HasClient
  <2>8. CASE Joins(q) \/ ListsDown(q) \/ ListsForbidden(q)
    BY <2>1, <2>8 DEF Joins, ListsDown, ListsForbidden, MayWatch, HasClient
  <2>9. CASE Polls(q) \/ Forbid(q) \/ PlainList(q)
    BY <2>2, <2>9 DEF Polls, Forbid, PlainList, Answering, Goes, RouteError
  <2>. QED BY <2>3, <2>4, <2>5, <2>6, <2>7, <2>8, <2>9, FetchMoves DEF FetchStep, IndInv
<1>. QED BY <1>2, <1>3

LEMMA SayingStep ==
  ASSUME Typed, OnlySaying, [Next]_vars
  PROVE  OnlySaying'
<1>. USE WatchAssumption DEF OnlySaying, clusterVars, cacheVars, informerVars,
   keeperVars, routeVars, configVars, fetchVars, reachVars, dataVars
<1>1. ASSUME NEW p \in Keys, ClusterChanges(p)
      PROVE  OnlySaying'
  BY <1>1 DEF ClusterChanges
<1>2. CASE LinkChanges \/ EditCluster \/ RouteChanges
  BY <1>2 DEF LinkChanges, EditCluster, RouteChanges
<1>3. CASE EditSettles \/ RouteEmits
  BY <1>3 DEF EditSettles, RouteEmits
<1>4. CASE Release \/ RouteResets
  BY <1>4 DEF Release, CancelAll, ClearKinds, RouteResets
<1>5. ASSUME NEW p \in Keys,
             \/ Refetch(p) \/ RouteIsDown(p) \/ Joins(p) \/ ListsDown(p)
             \/ ListsForbidden(p) \/ Polls(p) \/ Forbid(p) \/ PlainList(p)
             \/ Shows(p)
      PROVE  OnlySaying'
  BY <1>5 DEF Refetch, Goes, OnlyFetch, RouteIsDown, Answering, Joins, MayWatch,
     HasClient, ListsDown, ListsForbidden, Polls, Ready, Forbid, CancelAll, PlainList,
     Shows
<1>6. ASSUME NEW p \in Keys, NEW i \in Informers, Starts(p, i) \/ OtherStarts(p, i)
      PROVE  OnlySaying'
  BY <1>6 DEF Starts, Goes, Start, Free, MayWatch, HasClient, OtherStarts
<1>7. ASSUME NEW i \in Informers,
             \/ Lists(i) \/ Replaces(i) \/ Opens(i) \/ Delivers(i) \/ Tells(i)
             \/ WatchEnds(i)
      PROVE  OnlySaying'
  BY <1>7 DEF Lists, Report, GoOn, OnlyReflector, Replaces, Opens, Delivers, Tells,
     Queue, WatchEnds
<1>8. ASSUME NEW k \in Queries, EventArrives(k)
      PROVE  OnlySaying'
  BY <1>8 DEF EventArrives
<1>9. CASE Coalesced \/ Probe \/ CheckReachability \/ ReachAnswered
  BY <1>9 DEF Coalesced, Probe, CheckReachability, ReachShows, OnlyReach, HasClient,
     ReachAnswered
<1>10. CASE ProbeUnanswered \/ ProbeAnswered \/ ProbeRefused \/ Says
  BY <1>10 DEF ProbeUnanswered, CancelAll, ClearKinds, Announced, ProbeAnswered,
     ProbeRefused, Says, Queue
<1>11. CASE UNCHANGED vars
  BY <1>11 DEF vars
<1>. QED BY <1>1, <1>2, <1>3, <1>4, <1>5, <1>6, <1>7, <1>8, <1>9, <1>10, <1>11 DEF Next,
   FetchStep, ReflectorStep, KeeperStep, ReachStep

(* A check of reachability that found the Cluster alive is made again once it is *)
(* found dead.                                                                   *)
LEMMA ReachToldStep ==
  ASSUME Typed, OnlySaying, ReachIsTold, [Next]_vars
  PROVE  ReachIsTold'
<1>. USE WatchAssumption DEF ReachIsTold, Announcing, clusterVars, cacheVars,
   informerVars, keeperVars, routeVars, configVars, fetchVars, reachVars, dataVars
<1>1. ASSUME NEW p \in Keys, ClusterChanges(p)
      PROVE  ReachIsTold'
  BY <1>1 DEF ClusterChanges
<1>2. CASE LinkChanges \/ EditCluster \/ RouteChanges
  BY <1>2 DEF LinkChanges, EditCluster, RouteChanges
<1>3. CASE EditSettles \/ RouteEmits
  <2>1. Invalidate(Queries) /\ Reach \in Queries
    BY <1>3 DEF EditSettles, RouteEmits, Queries
  <2>. QED BY <2>1, InvalidateReach DEF Typed
<1>4. CASE Release \/ RouteResets
  BY <1>4 DEF Release, CancelAll, ClearKinds, RouteResets
<1>5. ASSUME NEW p \in Keys,
             \/ Refetch(p) \/ RouteIsDown(p) \/ Joins(p) \/ ListsDown(p)
             \/ ListsForbidden(p) \/ Polls(p) \/ Forbid(p) \/ PlainList(p)
             \/ Shows(p)
      PROVE  ReachIsTold'
  BY <1>5 DEF Refetch, Goes, OnlyFetch, RouteIsDown, Answering, Joins, MayWatch,
     HasClient, ListsDown, ListsForbidden, Polls, Ready, Forbid, CancelAll, PlainList,
     Shows
<1>6. ASSUME NEW p \in Keys, NEW i \in Informers, Starts(p, i) \/ OtherStarts(p, i)
      PROVE  ReachIsTold'
  BY <1>6 DEF Starts, Goes, Start, Free, MayWatch, HasClient, OtherStarts
<1>7. ASSUME NEW i \in Informers,
             Lists(i) \/ Replaces(i) \/ Opens(i) \/ Delivers(i) \/ WatchEnds(i)
      PROVE  ReachIsTold'
  BY <1>7 DEF Lists, Report, GoOn, OnlyReflector, Replaces, Opens, Delivers, WatchEnds
<1>8. ASSUME NEW i \in Informers, Tells(i)
      PROVE  ReachIsTold'
  BY <1>8 DEF Tells, GoOn, Queue
<1>9. ASSUME NEW k \in Queries, EventArrives(k)
      PROVE  ReachIsTold'
  <2>1. PICK S \in SUBSET Queries : Invalidate(S) /\ k \in S
    BY <1>9, EventConcerns DEF EventArrives
  <2>2. k # Reach => (Reach \in pending \cup sent \cup saying => Reach \in pending' \cup sent' \cup saying')
    BY <1>9 DEF EventArrives
  <2>3. (route # "quiet" => route' # "quiet") /\ (saved => saved') /\ down' = down
    BY <1>9 DEF EventArrives
  <2>. QED BY <2>1, <2>2, <2>3, InvalidateReach DEF Typed
<1>10. CASE Coalesced
  BY <1>10 DEF Coalesced
<1>11. CASE Probe \/ ProbeRefused \/ Says
  BY <1>11 DEF Probe, ProbeRefused, Says, Queue
<1>12. CASE ProbeUnanswered \/ ProbeAnswered
  BY <1>12 DEF ProbeUnanswered, CancelAll, ClearKinds, Announced, ProbeAnswered
<1>13. CASE CheckReachability \/ ReachAnswered
  BY <1>13 DEF CheckReachability, ReachShows, OnlyReach, HasClient, ReachAnswered
<1>14. CASE UNCHANGED vars
  BY <1>14 DEF vars
<1>. QED BY <1>1, <1>2, <1>3, <1>4, <1>5, <1>6, <1>7, <1>8, <1>9, <1>10, <1>11, <1>12, <1>13,
   <1>14 DEF Next, FetchStep, ReflectorStep, KeeperStep, ReachStep

-----------------------------------------------------------------------------
LEMMA IndInvStep == IndInv /\ [Next]_vars => IndInv'
<1>. SUFFICES ASSUME IndInv, [Next]_vars
              PROVE  IndInv'
  OBVIOUS
<1>1. Typed /\ StoppedStaysStopped /\ OutdatedIsTold /\ OnlySaying /\ ReachIsTold
  BY DEF IndInv
<1>2. Typed'
  BY <1>1, TypeStep, RunningStep, PollsStep DEF Typed
<1>3. StoppedStaysStopped' /\ OnlySaying' /\ ReachIsTold'
  BY <1>1, StoppedStep, SayingStep, ReachToldStep
<1>4. CancelledIsTold' /\ AnswerIsWatched' /\ ShownIsWatched'
  BY CancelledStep, AnswerStep, ShownStep
<1>5. PlainIsForbidden' /\ OutdatedIsTold'
  BY PlainStep, OutdatedStep
<1>. QED BY <1>2, <1>3, <1>4, <1>5 DEF IndInv

LEMMA Inductive == Spec => []IndInv
<1>1. Init => IndInv
  BY InitInv
<1>2. IndInv /\ [Next]_vars => IndInv'
  BY IndInvStep
<1>. QED BY <1>1, <1>2, PTL DEF Spec

(* Type correctness, of the cache and of the reads of any set of keys. *)
THEOREM TypeCorrect == Spec => []TypeOK
<1>1. IndInv => TypeOK
  BY DEF IndInv, Typed
<1>. QED BY <1>1, Inductive, PTL

(* The informers that run are exactly the registered ones, each under its key,   *)
(* whatever is cancelled, forbidden, reset or started again.                     *)
THEOREM NoLeak == Spec => []RunningIsRegistered
<1>1. IndInv => RunningIsRegistered
  BY DEF IndInv, Typed
<1>. QED BY <1>1, Inductive, PTL

(* A dead Cluster is not watched, and a forbidden key never again.               *)
THEOREM StaysStopped == Spec => []StoppedStaysStopped
<1>1. IndInv => StoppedStaysStopped
  BY DEF IndInv
<1>. QED BY <1>1, Inductive, PTL

(* Every watched list on screen, data or error, is somebody's to replace.        *)
THEOREM ScreenIsWatched == Spec => []ShownIsWatched
<1>1. IndInv => ShownIsWatched
  BY DEF IndInv
<1>. QED BY <1>1, Inductive, PTL

(* A Cluster found dead is not said to be reachable for longer than it takes to  *)
(* announce it.                                                                  *)
THEOREM DeadIsNotReachable == Spec => []ReachableIsNotDown
<1>1. IndInv => ReachableIsNotDown
  BY DEF IndInv, ReachIsTold, ReachableIsNotDown
<1>. QED BY <1>1, Inductive, PTL

--------------------------------------------------------------------------------
(* The Overview. *)

\* What is drawn passes the filter, or the user picked a kind of which nothing is unhealthy.
LEMMA EmptyHasAReason == EmptySaysWhy
<1> SUFFICES ASSUME Listed(Drawn) # {}, ~view.words, Passing(Drawn) = {}
             PROVE  KindPicked(Drawn) # AnyKind /\ OnlyProblems(Drawn)
  BY DEF EmptySaysWhy
<1>1. \A o \in Listed(Drawn) : KindPicked(Drawn) \in {AnyKind, Group(o)} => OnlyProblems(Drawn) /\ ~Problem(Drawn, o)
  BY DEF Passing
<1>2. \E o \in Listed(Drawn) : KindPicked(Drawn) \in {AnyKind, Group(o)}
  BY DEF KindPicked
<1>3. \E o \in Listed(Drawn) : OnlyProblems(Drawn) => Problem(Drawn, o)
  BY DEF OnlyProblems
<1>4. KindPicked(Drawn) = AnyKind => FALSE
  <2>1. SUFFICES ASSUME KindPicked(Drawn) = AnyKind PROVE FALSE
    OBVIOUS
  <2>2. OnlyProblems(Drawn) /\ \A o \in Listed(Drawn) : ~Problem(Drawn, o)
    BY <1>1, <1>2, <2>1
  <2> QED BY <2>2 DEF OnlyProblems
<1> QED BY <1>1, <1>2, <1>4

\* Who finishes with its owner is a pod.
LEMMA OwnersRun ==
  ASSUME NEW st, NEW o \in Objects, IsChild(st, o)
  PROVE  /\ o.owner \in Listed(st) /\ o.owner \in Objects /\ ~Finished(st, o.owner) /\ o.owner.kind # "secret"
         /\ o.kind \in {"pod", "job", "hpa"} /\ o.owner.kind \in {"deploy", "cron", "job"}
         /\ o.owner \in Live(st)
<1>1. o.owner # NoOwner /\ o.owner \in Listed(st) /\ o.owner.kind \in {"deploy", "cron", "job"} /\ ~Finished(st, o)
  BY DEF IsChild, OwnerListed, IsWorkload
<1>2. o.kind \in {"pod", "job", "hpa"} /\ o.owner \in Objects
  BY <1>1, OverviewAssumption DEF OverviewAssumption
<1>3. ~Succeeded(st, o.owner)
  <2>1. CASE o.kind = "pod"
    BY <1>1, <2>1 DEF Finished, OwnerListed, IsWorkload
  <2>2. CASE o.kind = "job"
    <3>1. o.owner.kind = "cron"
      BY <1>1, <1>2, <2>2, OverviewAssumption DEF OverviewAssumption
    <3> QED BY <3>1 DEF Succeeded
  <2>3. CASE o.kind = "hpa"
    <3>1. o.owner.kind = "deploy"
      BY <1>1, <1>2, <2>3, OverviewAssumption DEF OverviewAssumption
    <3> QED BY <3>1 DEF Succeeded
  <2> QED BY <1>2, <2>1, <2>2, <2>3
<1>4. ~Finished(st, o.owner)
  BY <1>1, <1>3 DEF Finished
<1> QED BY <1>1, <1>2, <1>4 DEF Live

\* The rows an object is listed under are two at most: a Job's pod is under the Job and its CronJob.
LEMMA UpIsOpen ==
  ASSUME NEW st, NEW o \in Live(st)
  PROVE  /\ \A a \in Branch(st, o) : a \in Live(st) /\ (~IsChild(st, a) => ~OwnerListed(st, a))
         /\ \A a \in Branch(st, o) : Branch(st, a) \subseteq Branch(st, o)
         /\ ~IsChild(st, o) => Branch(st, o) = {o}
         /\ IsChild(st, o) => /\ Branch(st, o) = {o, o.owner} \cup (IF IsChild(st, o.owner) THEN {o.owner.owner} ELSE {})
                              /\ IsChild(st, o.owner) => Branch(st, o.owner.owner) = {o.owner.owner}
                              /\ o.owner \in Live(st) /\ Branch(st, o.owner) = {o.owner} \cup
                                   (IF IsChild(st, o.owner) THEN {o.owner.owner} ELSE {})
<1>1. o \in Objects /\ \A a \in Live(st) : a \in Objects /\ (~IsChild(st, a) => ~OwnerListed(st, a))
  BY DEF Live, Listed, IsChild
<1>2. CASE ~IsChild(st, o)
  <2>1. Branch(st, o) = {o}
    BY <1>2 DEF Branch
  <2> QED BY <1>1, <1>2, <2>1
<1>3. CASE IsChild(st, o) /\ ~IsChild(st, o.owner)
  <2>1. Branch(st, o) = {o, o.owner} /\ Branch(st, o.owner) = {o.owner}
    BY <1>3 DEF Branch
  <2>2. o.owner \in Live(st)
    BY <1>1, <1>3, OwnersRun
  <2> QED BY <1>1, <1>3, <2>1, <2>2
<1>4. CASE IsChild(st, o) /\ IsChild(st, o.owner)
  <2>1. o.owner \in Live(st) /\ o.owner \in Objects
    BY <1>1, <1>4, OwnersRun
  <2>2. /\ o.owner.owner \in Live(st) /\ o.owner.owner \in Objects /\ o.owner.kind \in {"deploy", "cron", "job"}
        /\ o.owner.kind \in {"pod", "job", "hpa"}
    BY <1>1, <1>4, <2>1, OwnersRun
  <2>3. o.owner.owner.kind = "cron"
    BY <1>4, <2>1, <2>2, OverviewAssumption DEF OverviewAssumption, IsChild, OwnerListed
  <2>4. ~IsChild(st, o.owner.owner)
    BY <2>2, <2>3, OwnersRun
  <2>5. /\ Branch(st, o) = {o, o.owner} \cup {o.owner.owner} /\ Branch(st, o.owner) = {o.owner} \cup {o.owner.owner}
        /\ Branch(st, o.owner.owner) = {o.owner.owner}
    BY <1>4, <2>4 DEF Branch
  <2> QED BY <1>1, <1>4, <2>1, <2>2, <2>5
<1> QED BY <1>2, <1>3, <1>4

\* A row of the tree that is not drawn is behind one that is, and that the user folded.
LEMMA FoldedBehindARow ==
  ASSUME NEW st, NEW o \in Passing(st), o \in Live(st), o \notin TreeRows(st)
  PROVE  ~Filtering(st) /\ \E a \in Branch(st, o) \ {o} : a \in TreeRows(st) /\ a \in view.hidden
<1>1. /\ \A a \in Branch(st, o) : a \in Live(st) /\ (~IsChild(st, a) => ~OwnerListed(st, a))
      /\ \A a \in Branch(st, o) : HasPassing(st, a)
  BY UpIsOpen DEF HasPassing
<1>2. o \in Branch(st, o)
  BY DEF Branch
<1>3. \E a \in Branch(st, o) \ {o} : ~IsOpen(st, a)
  BY <1>1, <1>2 DEF TreeRows
<1>4. ~Filtering(st)
  BY <1>3 DEF IsOpen
<1>5. IsChild(st, o)
  BY <1>3, UpIsOpen
<1>6. /\ Branch(st, o) = {o, o.owner} \cup (IF IsChild(st, o.owner) THEN {o.owner.owner} ELSE {})
      /\ IsChild(st, o.owner) => Branch(st, o.owner.owner) = {o.owner.owner}
      /\ Branch(st, o.owner) = {o.owner} \cup (IF IsChild(st, o.owner) THEN {o.owner.owner} ELSE {})
  BY <1>5, UpIsOpen
<1>7. PICK a \in Branch(st, o) \ {o} : ~IsOpen(st, a) /\ \A b \in Branch(st, a) \ {a} : IsOpen(st, b)
  <2>1. CASE IsChild(st, o.owner) /\ ~IsOpen(st, o.owner.owner) /\ o.owner.owner # o
    BY <1>6, <2>1
  <2>2. CASE ~(IsChild(st, o.owner) /\ ~IsOpen(st, o.owner.owner) /\ o.owner.owner # o)
    <3>1. ~IsOpen(st, o.owner) /\ o.owner # o
      BY <1>3, <1>6, <2>2
    <3>2. \A b \in Branch(st, o.owner) \ {o.owner} : IsOpen(st, b)
      BY <1>5, <1>6, <2>2, <1>3
    <3> QED BY <1>6, <3>1, <3>2
  <2> QED BY <2>1, <2>2
<1>8. \A b \in Branch(st, a) : b \in Branch(st, o)
  BY UpIsOpen
<1>9. a \in TreeRows(st)
  BY <1>1, <1>7, <1>8 DEF TreeRows
<1>10. a \in view.hidden
  BY <1>7 DEF IsOpen
<1> QED BY <1>4, <1>9, <1>10

\* All that passes the filter is a row, or behind one that can be unfolded.
LEMMA NothingIsHidden == NothingLost
<1> SUFFICES ASSUME NEW o \in Passing(Drawn)
             PROVE  \/ o \in Rows(Drawn)
                    \/ /\ ~Filtering(Drawn)
                       /\ \E a \in Branch(Drawn, o) \ {o} : a \in Rows(Drawn) /\ a \in view.hidden
                    \/ \E fold \in Folds : FoldLine(Drawn, fold) /\ o \in FoldOf(Drawn, fold) /\ fold \notin view.unfolded
  BY DEF NothingLost
<1>1. o \in Listed(Drawn)
  BY DEF Passing
<1>2. CASE Finished(Drawn, o) \/ o.kind = "secret"
  <2>1. PICK fold \in Folds : o \in FoldOf(Drawn, fold)
    BY <1>2 DEF FoldOf, Folds
  <2>2. CASE Seeking(Drawn) \/ fold \in view.unfolded
    <3>1. o \in FoldRows(Drawn, fold)
      BY <2>1, <2>2 DEF FoldRows
    <3> QED BY <3>1 DEF Rows
  <2>3. CASE ~Seeking(Drawn) /\ fold \notin view.unfolded
    BY <2>1, <2>3 DEF FoldLine
  <2> QED BY <2>2, <2>3
<1>3. CASE ~Finished(Drawn, o) /\ o.kind # "secret"
  <2>1. o \in Live(Drawn)
    BY <1>1, <1>3 DEF Live
  <2>2. CASE KindPicked(Drawn) # AnyKind
    BY <2>1, <2>2 DEF Rows
  <2>3. CASE KindPicked(Drawn) = AnyKind
    <3>1. TreeRows(Drawn) \subseteq Rows(Drawn)
      BY <2>3 DEF Rows
    <3> QED BY <2>1, <3>1, FoldedBehindARow
  <2> QED BY <2>2, <2>3
<1> QED BY <1>2, <1>3

-----------------------------------------------------------------------------
\* What is fetched, or was, is of the scope that is saved, unless everything is still to be asked for again, or it
\* was joined when it was.
Kept(l) ==
  /\ fetching[l] = "idle" => list[l].joined \/ list[l].scope = scope
  /\ fetching[l] = "read" => arriving[l].joined \/ arriving[l].scope = scope
FetchInv ==
  /\ saving # "waiting" => saves # <<>>
  /\ saving \in {"waiting", "sent"} => explicit = scope /\ \A l \in Listings : Kept(l)
  /\ saving = "refetching" =>
       /\ \A l \in Listings : /\ l \in due => fetching[l] # "idle"
                              /\ Kept(l)
       /\ explicit = scope \/ "config" \in due
OneScopeInv == OverviewTypeOK /\ FetchInv /\ RowsOfOneScope

\* Every variable but what the rows are drawn from.
Stored ==
  /\ cluster \in [Objects -> States] /\ scope \in Scopes \cup {{}} /\ explicit \in Scopes \cup {{}}
  /\ list \in [Listings -> ListType] /\ arriving \in [Listings -> ListType] /\ landed \subseteq Listings
  /\ fetching \in [Fetched -> {"idle", "asked", "read"}]
  /\ saves \in Seq(Scopes) /\ saving \in {"waiting", "sent", "written", "refetching"}
  /\ due \subseteq Fetched /\ (saving # "waiting" => saves # <<>>)
  /\ view \in [words : BOOLEAN, picked : Groups \cup {AnyKind}, only : BOOLEAN,
               hidden : SUBSET Objects, unfolded : SUBSET Folds]

LEMMA EmptyIsAList == EmptyList \in ListType /\ EmptyList.scope = {}
BY DEF EmptyList, ListType, States

\* A read that is joined brings what it brought, and is known by it.
LEMMA JoinedIsAList ==
  ASSUME NEW data \in ListType
  PROVE  Joined(data) \in ListType /\ Joined(data).joined
BY DEF Joined, ListType

LEMMA OverviewTypesInit == OverviewInit => OverviewTypeOK
<1> SUFFICES ASSUME OverviewInit PROVE OverviewTypeOK
  OBVIOUS
<1>1. \A o \in Objects : cluster[o] \in States
  BY DEF OverviewInit, States
<1>2. cluster \in [Objects -> States]
  BY <1>1 DEF OverviewInit
<1>3. list \in [Listings -> ListType] /\ arriving \in [Listings -> ListType]
  BY EmptyIsAList DEF OverviewInit
<1>4. settled \in [list : [Listings -> ListType], explicit : Scopes \cup {{}}, loaded : BOOLEAN]
  BY <1>3 DEF OverviewInit
<1>5. fetching \in [Fetched -> {"idle", "asked", "read"}]
  BY DEF OverviewInit
<1>6. view \in [words : BOOLEAN, picked : Groups \cup {AnyKind}, only : BOOLEAN,
                hidden : SUBSET Objects, unfolded : SUBSET Folds]
  BY DEF OverviewInit
<1>7. /\ scope \in Scopes \cup {{}} /\ explicit \in Scopes \cup {{}} /\ saves \in Seq(Scopes) /\ saving = "waiting"
      /\ due = {} /\ landed = {}
  BY DEF OverviewInit
<1> QED BY <1>2, <1>3, <1>4, <1>5, <1>6, <1>7 DEF OverviewTypeOK

LEMMA StoredStep == OverviewTypeOK /\ Step => Stored'
<1> SUFFICES ASSUME OverviewTypeOK, Step PROVE Stored'
  OBVIOUS
<1>0. Stored
  BY DEF OverviewTypeOK, Stored
<1> USE DEF server, queries, saveVars, user
<1>1. ASSUME NEW o \in Objects, Changes(o) PROVE Stored'
  BY <1>0, <1>1 DEF Changes, Stored
<1>2. ASSUME NEW o \in Objects, ToggleChildren(o) PROVE Stored'
  <2>1. view' \in [words : BOOLEAN, picked : Groups \cup {AnyKind}, only : BOOLEAN,
                   hidden : SUBSET Objects, unfolded : SUBSET Folds]
    BY <1>0, <1>2 DEF ToggleChildren, Stored
  <2> QED BY <1>0, <1>2, <2>1 DEF ToggleChildren, Stored
<1>3. ASSUME NEW l \in Listings, Asks(l) PROVE Stored'
  BY <1>0, <1>3, EmptyIsAList DEF Asks, Stored, Fetched
<1>4. ASSUME NEW l \in Listings, Reads(l) PROVE Stored'
  <2> DEFINE data == [of |-> [o \in Objects |-> IF ListOf(o) = l THEN Seen(scope)[o] ELSE "gone"],
                      scope |-> scope, joined |-> FALSE]
  <2>1. \A o \in Objects : Seen(scope)[o] \in States
    BY <1>0 DEF Seen, Stored, States
  <2>2. data \in ListType
    BY <1>0, <2>1 DEF ListType, States, Stored
  <2>3. arriving' = [arriving EXCEPT ![l] = data]
    BY <1>4 DEF Reads
  <2>4. l \in Fetched /\ fetching' = [fetching EXCEPT ![l] = "read"] /\ UNCHANGED <<server, list, landed, explicit, saveVars, user>>
    BY <1>4 DEF Reads, Fetched
  <2> HIDE DEF data
  <2>5. arriving' \in [Listings -> ListType] /\ fetching' \in [Fetched -> {"idle", "asked", "read"}]
    BY <1>0, <2>2, <2>3, <2>4 DEF Stored
  <2> QED BY <1>0, <2>4, <2>5 DEF Stored
<1>5. ASSUME NEW l \in Listings, Lands(l) PROVE Stored'
  BY <1>0, <1>5, EmptyIsAList DEF Lands, Stored, Fetched
<1>6. CASE ConfigLands
  BY <1>0, <1>6 DEF ConfigLands, Stored, Fetched
<1>7. ASSUME NEW s \in Scopes, UserPicksScope(s) PROVE Stored'
  <2>1. saves' \in Seq(Scopes) /\ saves' # <<>>
    BY <1>0, <1>7 DEF UserPicksScope, Stored
  <2> QED BY <1>0, <1>7, <2>1 DEF UserPicksScope, Stored
<1>8. CASE SaveStarts
  BY <1>0, <1>8 DEF SaveStarts, Stored
<1>9. CASE SetNamespaces
  <2>1. saves # <<>> /\ Head(saves) \in Scopes
    BY <1>0, <1>9 DEF SetNamespaces, Stored
  <2> QED BY <1>0, <1>9, <2>1 DEF SetNamespaces, Stored
<1>10. CASE SaveSettles
  <2>1. arriving' \in [Listings -> ListType]
    BY <1>0, <1>10, EmptyIsAList, JoinedIsAList DEF SaveSettles, Stored
  <2>2. fetching' \in [Fetched -> {"idle", "asked", "read"}]
    BY <1>10 DEF SaveSettles
  <2> QED BY <1>0, <1>10, <2>1, <2>2 DEF SaveSettles, Stored
<1>11. CASE SaveEnds
  <2>1. Tail(saves) \in Seq(Scopes)
    BY <1>0, <1>11 DEF SaveEnds, Stored
  <2> QED BY <1>0, <1>11, <2>1 DEF SaveEnds, Stored
<1>12. CASE UserTypes
  <2>1. view' \in [words : BOOLEAN, picked : Groups \cup {AnyKind}, only : BOOLEAN,
                   hidden : SUBSET Objects, unfolded : SUBSET Folds]
    BY <1>0, <1>12 DEF UserTypes, Stored
  <2> QED BY <1>0, <1>12, <2>1 DEF UserTypes, Stored
<1>13. CASE UserTogglesProblems
  <2> DEFINE p == IF OnlyProblems(Drawn) THEN view.picked ELSE AnyKind
             n == ~OnlyProblems(Drawn)
  <2>1. p \in Groups \cup {AnyKind} /\ n \in BOOLEAN
    BY <1>0 DEF Stored
  <2>2. view' = [view EXCEPT !.picked = p, !.only = n]
    BY <1>13 DEF UserTogglesProblems
  <2> HIDE DEF p, n
  <2>3. view' \in [words : BOOLEAN, picked : Groups \cup {AnyKind}, only : BOOLEAN,
                   hidden : SUBSET Objects, unfolded : SUBSET Folds]
    BY <1>0, <2>1, <2>2 DEF Stored
  <2> QED BY <1>0, <1>13, <2>3 DEF UserTogglesProblems, Stored
<1>14. ASSUME NEW g \in Groups \cup {AnyKind}, UserPicksKind(g) PROVE Stored'
  <2>1. view' \in [words : BOOLEAN, picked : Groups \cup {AnyKind}, only : BOOLEAN,
                   hidden : SUBSET Objects, unfolded : SUBSET Folds]
    BY <1>0, <1>14 DEF UserPicksKind, Stored
  <2> QED BY <1>0, <1>14, <2>1 DEF UserPicksKind, Stored
<1>15. ASSUME NEW fold \in Folds, ToggleFold(fold) PROVE Stored'
  <2>1. view' \in [words : BOOLEAN, picked : Groups \cup {AnyKind}, only : BOOLEAN,
                   hidden : SUBSET Objects, unfolded : SUBSET Folds]
    BY <1>0, <1>15 DEF ToggleFold, Stored
  <2> QED BY <1>0, <1>15, <2>1 DEF ToggleFold, Stored
<1> QED BY <1>1, <1>2, <1>3, <1>4, <1>5, <1>6, <1>7, <1>8, <1>9, <1>10, <1>11, <1>12, <1>13, <1>14, <1>15 DEF Step

LEMMA OverviewTypesStep == OverviewTypeOK /\ [OverviewNext]_overviewVars => OverviewTypeOK'
<1>1. ASSUME OverviewTypeOK, OverviewNext PROVE OverviewTypeOK'
  <2>1. Stored'
    BY <1>1, StoredStep DEF OverviewNext
  <2>2. settled' \in [list : [Listings -> ListType], explicit : Scopes \cup {{}}, loaded : BOOLEAN]
    BY <1>1, <2>1 DEF OverviewNext, Render, Stored, OverviewTypeOK
  <2> QED BY <2>1, <2>2 DEF Stored, OverviewTypeOK
<1>2. ASSUME OverviewTypeOK, UNCHANGED overviewVars PROVE OverviewTypeOK'
  BY <1>2 DEF overviewVars, OverviewTypeOK, server, queries, saveVars, user
<1> QED BY <1>1, <1>2

\* A step of the Cluster, the lists or the saves keeps what is fetched of the saved scope.
LEMMA ScopeStep == OverviewTypeOK /\ FetchInv /\ Step => FetchInv'
<1> SUFFICES ASSUME OverviewTypeOK, FetchInv, Step PROVE FetchInv'
  OBVIOUS
<1> USE DEF server, queries, saveVars, user, FetchInv, Kept
<1>0. /\ fetching \in [Fetched -> {"idle", "asked", "read"}] /\ list \in [Listings -> ListType] /\ arriving \in [Listings -> ListType]
      /\ saves \in Seq(Scopes) /\ saving \in {"waiting", "sent", "written", "refetching"} /\ due \subseteq Fetched
      /\ Listings \subseteq Fetched /\ "config" \in Fetched \ Listings
  BY DEF OverviewTypeOK, Fetched, Listings
<1>1. ASSUME NEW o \in Objects, Changes(o) PROVE FetchInv'
  BY <1>1 DEF Changes
<1>2. ASSUME NEW o \in Objects, ToggleChildren(o) PROVE FetchInv'
  BY <1>2 DEF ToggleChildren
<1>3. ASSUME NEW l \in Listings, Asks(l) PROVE FetchInv'
  BY <1>0, <1>3 DEF Asks
<1>4. ASSUME NEW l \in Listings, Reads(l) PROVE FetchInv'
  <2>1. arriving'[l].scope = scope /\ \A m \in Listings \ {l} : arriving'[m] = arriving[m]
    BY <1>0, <1>4 DEF Reads
  <2> QED BY <1>0, <1>4, <2>1 DEF Reads
<1>5. ASSUME NEW l \in Listings, Lands(l) PROVE FetchInv'
  BY <1>0, <1>5 DEF Lands
<1>6. CASE ConfigLands
  BY <1>0, <1>6 DEF ConfigLands
<1>7. ASSUME NEW s \in Scopes, UserPicksScope(s) PROVE FetchInv'
  <2>1. saves' # <<>>
    BY <1>0, <1>7 DEF UserPicksScope
  <2> QED BY <1>0, <1>7, <2>1 DEF UserPicksScope
<1>8. CASE SaveStarts
  BY <1>8 DEF SaveStarts
<1>9. CASE SetNamespaces
  BY <1>9 DEF SetNamespaces
<1>10. CASE SaveSettles
  <2>1. \A l \in Listings : fetching'[l] = "asked" \/ (fetching'[l] = "read" /\ arriving'[l].joined)
    <3> TAKE l \in Listings
    <3>1. CASE l \in JoinedReads
      BY <1>0, <1>10, <3>1, JoinedIsAList DEF SaveSettles
    <3>2. CASE l \notin JoinedReads
      BY <1>0, <1>10, <3>2 DEF SaveSettles
    <3> QED BY <3>1, <3>2
  <2>2. JoinedReads \subseteq Listings /\ "config" \notin JoinedReads
    BY <1>0 DEF JoinedReads
  <2> QED BY <1>0, <1>10, <2>1, <2>2 DEF SaveSettles
<1>11. CASE SaveEnds
  BY <1>0, <1>11 DEF SaveEnds
<1>12. CASE UserTypes
  BY <1>12 DEF UserTypes
<1>13. CASE UserTogglesProblems
  BY <1>13 DEF UserTogglesProblems
<1>14. ASSUME NEW g \in Groups \cup {AnyKind}, UserPicksKind(g) PROVE FetchInv'
  BY <1>14 DEF UserPicksKind
<1>15. ASSUME NEW fold \in Folds, ToggleFold(fold) PROVE FetchInv'
  BY <1>15 DEF ToggleFold
<1> QED BY <1>1, <1>2, <1>3, <1>4, <1>5, <1>6, <1>7, <1>8, <1>9, <1>10, <1>11, <1>12, <1>13, <1>14, <1>15 DEF Step

\* What is drawn once all has landed and no scope is being saved is of that scope.
LEMMA SettledStep == OverviewTypeOK' /\ FetchInv' /\ RowsOfOneScope /\ OverviewNext => RowsOfOneScope'
<1> SUFFICES ASSUME OverviewTypeOK', FetchInv', RowsOfOneScope, OverviewNext PROVE RowsOfOneScope'
  OBVIOUS
<1>1. CASE MaySettle'
  <2>1. /\ saving' = "waiting" /\ explicit' = scope'
        /\ \A l \in Listings : fetching'[l] = "idle" /\ (list'[l].joined \/ list'[l].scope = scope')
    BY <1>1 DEF MaySettle, FetchInv, Kept
  <2>2. settled' = [list |-> list', explicit |-> explicit', loaded |-> TRUE]
    BY <1>1 DEF OverviewNext, Render
  <2> QED BY <2>1, <2>2 DEF RowsOfOneScope
<1>2. CASE ~MaySettle'
  BY <1>2 DEF OverviewNext, Render, RowsOfOneScope
<1> QED BY <1>1, <1>2

LEMMA OneScopeInit == OverviewInit => OneScopeInv
<1> SUFFICES ASSUME OverviewInit PROVE OneScopeInv
  OBVIOUS
<1>1. \A l \in Listings : fetching[l] = "asked"
  BY EmptyIsAList DEF OverviewInit, Listings, Fetched
<1>2. FetchInv /\ RowsOfOneScope
  BY <1>1 DEF OverviewInit, FetchInv, Kept, RowsOfOneScope
<1> QED BY <1>2, OverviewTypesInit DEF OneScopeInv

LEMMA OneScopeStep == OneScopeInv /\ [OverviewNext]_overviewVars => OneScopeInv'
<1>1. ASSUME OneScopeInv, OverviewNext PROVE OneScopeInv'
  <2>1. OverviewTypeOK' /\ FetchInv'
    BY <1>1, OverviewTypesStep, ScopeStep DEF OneScopeInv, OverviewNext
  <2> QED BY <1>1, <2>1, SettledStep DEF OneScopeInv
<1>2. ASSUME OneScopeInv, UNCHANGED overviewVars PROVE OneScopeInv'
  BY <1>2, OverviewTypesStep DEF OneScopeInv, FetchInv, Kept, RowsOfOneScope, overviewVars, server, queries, saveVars, user
<1> QED BY <1>1, <1>2

\* Whatever lands, is picked and is saved in the meantime, the rows are drawn from lists of one scope, but for a
\* first read that a save found under way.
THEOREM RowsAreOfOneScope == OverviewSpec => []RowsOfOneScope
<1>1. OneScopeInv => RowsOfOneScope
  BY DEF OneScopeInv
<1> QED BY OneScopeInit, OneScopeStep, <1>1, PTL DEF OverviewSpec

\* An Overview without rows always has a reason it can give.
THEOREM EmptyAlwaysSaysWhy == OverviewSpec => []EmptySaysWhy
BY EmptyHasAReason, PTL

\* No object that passes the filter is ever without a row or a fold to unfold.
THEOREM NothingIsLost == OverviewSpec => []NothingLost
BY NothingIsHidden, PTL

================================================================================
