------------------------------ MODULE Overview ------------------------------
(***************************************************************************)
(* The Overview of a Cluster (cluster-overview.tsx, targets.tsx over       *)
(* queries.ts): the lists it is drawn from, each fetched on its own; the   *)
(* rows worked out from them; the user's filter, kind, folds and "show     *)
(* only these"; and the namespace scope, saved and then read again.        *)
(*                                                                         *)
(* Rows change only once every list has landed and no scope is being       *)
(* saved (settled).  A render follows every step, so Render is a conjunct  *)
(* of each.                                                                *)
(***************************************************************************)
EXTENDS Naturals, Sequences, FiniteSets

CONSTANTS
  Objects,      \* records [kind, ns, owner]: what a Cluster may hold, an owner being another object or NoOwner
  NoOwner,
  Matching,     \* the objects whose names the search words are in
  Scopes,       \* the sets of namespaces the user may pick; {} is all of them
  MaxActs       \* bound: acts of the user, changes of the Cluster and lists asked for again

Groups == {"Services", "Workloads", "Jobs", "Autoscalers", "Pods", "Secrets"}
KindGroup == [svc |-> "Services", deploy |-> "Workloads", cron |-> "Workloads", job |-> "Jobs",
              hpa |-> "Autoscalers", pod |-> "Pods", secret |-> "Secrets"]
Group(o) == KindGroup[o.kind]
AnyKind == "All"
Listings == {"workloads", "pods", "rest"}
Fetched == Listings \cup {"config"}
ListOf(o) == IF o.kind \in {"deploy", "cron", "job"} THEN "workloads"
             ELSE IF o.kind = "pod" THEN "pods" ELSE "rest"
States == {"gone", "ok", "problem", "ended"}
Folds == {"finished", "reference"}

\* Pods, Jobs and autoscalers have owners, in their own namespace; an autoscaler scales a workload that runs on.
ASSUME OverviewAssumption ==
  /\ \A o \in Objects : o.owner # NoOwner => o.kind \in {"pod", "job", "hpa"}
  /\ \A o \in Objects : o.owner = NoOwner \/ (o.owner \in Objects /\ o.owner.ns = o.ns)
  /\ \A o \in Objects : o.kind = "hpa" /\ o.owner # NoOwner => o.owner.kind = "deploy"
  /\ \A o \in Objects : o.kind = "job" /\ o.owner # NoOwner => o.owner.kind = "cron"
  /\ NoOwner \notin Objects /\ Matching \subseteq Objects
  /\ MaxActs \in Nat

VARIABLES
  cluster,   \* [Objects -> States]: what the API server has
  scope,     \* the Cluster's namespaces in the config
  list,      \* [Listings -> ListType]: the data of each query, with the scope it was read under (history)
  landed,    \* the lists that have data
  explicit,  \* the scope in the interface's copy of the config
  fetching,  \* [Fetched -> {"idle", "asked", "read"}]
  arriving,  \* [Listings -> what was read], for fetching = "read"
  saves,     \* the scopes picked and not yet saved and read again, in order
  saving,    \* of the first of them: "waiting", "sent", "written" or "refetching"
  due,       \* while refetching: the queries whose refetch has not ended
  settled,   \* what the rows are drawn from
  view,      \* the filter, the kind, "show only these" and the folds
  acts       \* how many of them so far

overviewVars == <<cluster, scope, list, landed, explicit, fetching, arriving, saves, saving, due, settled, view, acts>>
server == <<cluster, scope>>
queries == <<list, landed, explicit, fetching, arriving>>
saveVars == <<saves, saving, due>>
user == <<view, acts>>

InScope(s, o) == s = {} \/ o.ns \in s
Seen(s) == [o \in Objects |-> IF InScope(s, o) THEN cluster[o] ELSE "gone"]
EmptyList == [of |-> [o \in Objects |-> "gone"], scope |-> {}, joined |-> FALSE]

-----------------------------------------------------------------------------
(* derive: what the lists say of an object.  st maps each object to its state in its own list. *)

Drawn == [o \in Objects |-> settled.list[ListOf(o)].of[o]]
Listed(st) == {o \in Objects : st[o] # "gone"}
IsWorkload(o) == o.kind \in {"deploy", "cron", "job"}
OwnerListed(st, o) == o.owner # NoOwner /\ o.owner \in Listed(st) /\ IsWorkload(o.owner)
Succeeded(st, o) == o.kind = "job" /\ st[o] = "ended"

(* Mutant of Finished: the pods of a Job that succeeded are not finished with it. *)
EndedOnly(st, o) == Succeeded(st, o) \/ (o.kind = "pod" /\ st[o] = "ended")

Finished(st, o) ==
  \/ Succeeded(st, o)
  \/ o.kind = "pod" /\ (st[o] = "ended" \/ (OwnerListed(st, o) /\ Succeeded(st, o.owner)))
Problem(st, o) == ~Finished(st, o) /\ st[o] = "problem"
IsChild(st, o) == OwnerListed(st, o) /\ ~Finished(st, o)

\* The object and the rows it would be listed under.
Branch(st, o) ==
      {o} \cup (IF ~IsChild(st, o) THEN {}
                ELSE {o.owner} \cup IF IsChild(st, o.owner) THEN {o.owner.owner} ELSE {})

(* Mutant of KindPicked: an empty kind is kept. *)
KindKept(st) == view.picked

\* A kind the scope no longer has lets go, and so does the problems filter once nothing is unhealthy.
KindPicked(st) == IF \E o \in Listed(st) : Group(o) = view.picked THEN view.picked ELSE AnyKind
OnlyProblems(st) == view.only /\ \E o \in Listed(st) : Problem(st, o)

Seeking(st) == view.words \/ KindPicked(st) # AnyKind
Filtering(st) == Seeking(st) \/ OnlyProblems(st)
Passing(st) ==
  {o \in Listed(st) : /\ KindPicked(st) \in {AnyKind, Group(o)}
                      /\ OnlyProblems(st) => Problem(st, o)
                      /\ view.words => o \in Matching}

-----------------------------------------------------------------------------
(* lay: the rows of every namespace. *)

HasPassing(st, o) == \E x \in Passing(st) : o \in Branch(st, x)
Live(st) == {o \in Listed(st) : o.kind # "secret" /\ ~Finished(st, o)}
IsOpen(st, o) == Filtering(st) \/ o \notin view.hidden

TreeRows(st) ==
  {o \in Live(st) : /\ HasPassing(st, o)
                    /\ \A a \in Branch(st, o) : /\ a \in Live(st)
                                                /\ ~IsChild(st, a) => ~OwnerListed(st, a)
                                                /\ a # o => IsOpen(st, a)}
FoldOf(st, fold) ==
  {o \in Passing(st) : IF fold = "finished" THEN Finished(st, o) ELSE o.kind = "secret"}
FoldLine(st, fold) == ~Seeking(st) /\ FoldOf(st, fold) # {}
FoldRows(st, fold) == IF Seeking(st) \/ fold \in view.unfolded THEN FoldOf(st, fold) ELSE {}

Rows(st) ==
  (IF KindPicked(st) # AnyKind THEN Live(st) \cap Passing(st) ELSE TreeRows(st))
  \cup UNION {FoldRows(st, fold) : fold \in Folds}

-----------------------------------------------------------------------------
(* The rows are drawn from the lists once all have landed and no scope is being saved. *)

(* Mutant of MaySettle: a scope being saved does not hold the rows back. *)
AllLanded == \A l \in Listings : fetching[l] = "idle"
MaySettle == saves = <<>> /\ \A l \in Listings : fetching[l] = "idle"

Render ==
  settled' = IF MaySettle' THEN [list |-> list', explicit |-> explicit', loaded |-> TRUE] ELSE settled

-----------------------------------------------------------------------------
(* The Cluster and its lists. *)

Acts == acts < MaxActs /\ acts' = acts + 1

\* What an object may become: a workload or a pod breaks or heals, a Job and a pod end.
Changes(o) ==
  /\ Acts
  /\ \E st \in States : /\ st # cluster[o]
                        /\ st = "ended" => o.kind \in {"job", "pod"}
                        /\ st = "problem" => o.kind # "secret" /\ o.kind # "svc"
                        /\ cluster' = [cluster EXCEPT ![o] = st]
  /\ UNCHANGED <<scope, queries, saveVars, view>>

\* An event, or the window's focus, has a list asked for again: the read in progress is given up for the sake of
\* the data there is, and whoever awaited it awaits the next.  Without data it is left to finish.
Asks(l) ==
  /\ Acts
  /\ fetching[l] = "idle" \/ (fetching[l] = "read" /\ l \in landed)
  /\ fetching' = [fetching EXCEPT ![l] = "asked"] /\ arriving' = [arriving EXCEPT ![l] = EmptyList]
  /\ UNCHANGED <<server, list, landed, explicit, saveVars, view>>

Reads(l) ==
  /\ l \in Listings /\ fetching[l] = "asked"
  /\ fetching' = [fetching EXCEPT ![l] = "read"]
  /\ arriving' = [arriving EXCEPT ![l] = [of |-> [o \in Objects |-> IF ListOf(o) = l THEN Seen(scope)[o] ELSE "gone"],
                                          scope |-> scope, joined |-> FALSE]]
  /\ UNCHANGED <<server, list, landed, explicit, saveVars, user>>

Lands(l) ==
  /\ l \in Listings /\ fetching[l] = "read"
  /\ list' = [list EXCEPT ![l] = arriving[l]] /\ landed' = landed \cup {l}
  /\ arriving' = [arriving EXCEPT ![l] = EmptyList]
  /\ fetching' = [fetching EXCEPT ![l] = "idle"] /\ due' = due \ {l}
  /\ UNCHANGED <<server, explicit, saves, saving, user>>

ConfigLands ==
  /\ fetching["config"] = "asked"
  /\ explicit' = scope
  /\ fetching' = [fetching EXCEPT !["config"] = "idle"] /\ due' = due \ {"config"}
  /\ UNCHANGED <<server, list, landed, arriving, saves, saving, user>>

-----------------------------------------------------------------------------
(* The namespace scope: saves run one after another, each until everything was read again. *)

UserPicksScope(s) ==
  /\ Acts
  /\ saves' = Append(saves, s)
  /\ UNCHANGED <<server, queries, saving, due, view>>

SaveStarts ==
  /\ saves # <<>> /\ saving = "waiting"
  /\ saving' = "sent"
  /\ UNCHANGED <<server, queries, saves, due, user>>

SetNamespaces ==
  /\ saving = "sent"
  /\ scope' = Head(saves) /\ saving' = "written"
  /\ UNCHANGED <<cluster, queries, saves, due, user>>

\* The first reads under way: invalidated, they are joined and not begun again.
JoinedReads == {l \in Listings \ landed : fetching[l] = "read"}
Joined(data) == [of |-> data.of, scope |-> data.scope, joined |-> TRUE]

SaveSettles ==
  /\ saving = "written"
  /\ saving' = "refetching" /\ due' = Fetched
  /\ fetching' = [q \in Fetched |-> IF q \in JoinedReads THEN "read" ELSE "asked"]
  /\ arriving' = [l \in Listings |-> IF l \in JoinedReads THEN Joined(arriving[l]) ELSE EmptyList]
  /\ UNCHANGED <<server, list, landed, explicit, saves, user>>

(* Mutant of SaveEnds: the next save is sent without looking whether there is one. *)
SendsNext ==
  /\ saving = "refetching" /\ due = {}
  /\ saving' = "sent" /\ saves' = Tail(saves)
  /\ UNCHANGED <<server, queries, due, user>>

SaveEnds ==
  /\ saving = "refetching" /\ due = {}
  /\ saving' = "waiting" /\ saves' = Tail(saves)
  /\ UNCHANGED <<server, queries, due, user>>

-----------------------------------------------------------------------------
(* The user and the list.  Only what is on screen can be clicked. *)

UserTypes ==
  /\ Acts /\ view' = [view EXCEPT !.words = ~@]
  /\ UNCHANGED <<server, queries, saveVars>>

UserPicksKind(g) ==
  /\ Acts
  /\ g = AnyKind \/ \E o \in Listed(Drawn) : Group(o) = g
  /\ view' = [view EXCEPT !.picked = g]
  /\ UNCHANGED <<server, queries, saveVars>>

\* "Show only these" drops the kind, so that it lists what it names.
UserTogglesProblems ==
  /\ Acts
  /\ \E o \in Listed(Drawn) : Problem(Drawn, o)
  /\ view' = [view EXCEPT !.picked = IF OnlyProblems(Drawn) THEN @ ELSE AnyKind,
                          !.only = ~OnlyProblems(Drawn)]
  /\ UNCHANGED <<server, queries, saveVars>>

ToggleChildren(o) ==
  /\ Acts
  /\ o \in TreeRows(Drawn) /\ \E x \in Listed(Drawn) : IsChild(Drawn, x) /\ x.owner = o /\ HasPassing(Drawn, x)
  /\ view' = [view EXCEPT !.hidden = IF o \in @ THEN @ \ {o} ELSE @ \cup {o}]
  /\ UNCHANGED <<server, queries, saveVars>>

ToggleFold(fold) ==
  /\ Acts
  /\ FoldLine(Drawn, fold)
  /\ view' = [view EXCEPT !.unfolded = IF fold \in @ THEN @ \ {fold} ELSE @ \cup {fold}]
  /\ UNCHANGED <<server, queries, saveVars>>

-----------------------------------------------------------------------------

OverviewInit ==
  /\ cluster \in [Objects -> {"ok", "problem"}]
  /\ \A o \in Objects : cluster[o] = "problem" => o.kind \notin {"secret", "svc", "cron"}
  /\ scope = {} /\ explicit = {}
  /\ list = [l \in Listings |-> EmptyList] /\ arriving = list /\ landed = {}
  /\ fetching = [q \in Fetched |-> IF q = "config" THEN "idle" ELSE "asked"]
  /\ saves = <<>> /\ saving = "waiting" /\ due = {}
  /\ settled = [list |-> list, explicit |-> {}, loaded |-> FALSE]
  /\ view = [words |-> FALSE, picked |-> AnyKind, only |-> FALSE, hidden |-> {}, unfolded |-> {}]
  /\ acts = 0

Step ==
  \/ \E o \in Objects : Changes(o) \/ ToggleChildren(o)
  \/ \E l \in Listings : Asks(l) \/ Reads(l) \/ Lands(l)
  \/ ConfigLands
  \/ \E s \in Scopes : UserPicksScope(s)
  \/ SaveStarts \/ SetNamespaces \/ SaveSettles \/ SaveEnds
  \/ UserTypes \/ UserTogglesProblems
  \/ \E g \in Groups \cup {AnyKind} : UserPicksKind(g)
  \/ \E fold \in Folds : ToggleFold(fold)

OverviewNext == Step /\ Render

OverviewSpec == OverviewInit /\ [][OverviewNext]_overviewVars

-----------------------------------------------------------------------------
(* Properties. *)

ListType == [of : [Objects -> States], scope : Scopes \cup {{}}, joined : BOOLEAN]
OverviewTypeOK ==
  /\ cluster \in [Objects -> States] /\ scope \in Scopes \cup {{}} /\ explicit \in Scopes \cup {{}}
  /\ list \in [Listings -> ListType] /\ arriving \in [Listings -> ListType] /\ landed \subseteq Listings
  /\ fetching \in [Fetched -> {"idle", "asked", "read"}]
  /\ saves \in Seq(Scopes) /\ saving \in {"waiting", "sent", "written", "refetching"}
  /\ due \subseteq Fetched /\ (saving # "waiting" => saves # <<>>)
  /\ settled \in [list : [Listings -> ListType], explicit : Scopes \cup {{}}, loaded : BOOLEAN]
  /\ view \in [words : BOOLEAN, picked : Groups \cup {AnyKind}, only : BOOLEAN,
               hidden : SUBSET Objects, unfolded : SUBSET Folds]

\* Nothing that passes the filter is out of reach: it is a row, or behind a row that is folded and can be
\* unfolded, or behind a fold line on screen; and nothing unhealthy is behind anything while only problems show.
NothingLost ==
  \A o \in Passing(Drawn) :
     \/ o \in Rows(Drawn)
     \/ /\ ~Filtering(Drawn)
        /\ \E a \in Branch(Drawn, o) \ {o} : a \in Rows(Drawn) /\ a \in view.hidden
     \/ \E fold \in Folds : FoldLine(Drawn, fold) /\ o \in FoldOf(Drawn, fold) /\ fold \notin view.unfolded

\* With no search words the list of a scope that holds anything is empty only when the user asked for a kind
\* of which nothing is unhealthy; whatever leaves the Cluster while a kind or the problems are picked.
EmptySaysWhy ==
  Listed(Drawn) # {} /\ ~view.words /\ Passing(Drawn) = {}
  => KindPicked(Drawn) # AnyKind /\ OnlyProblems(Drawn)

\* The rows never mix two scopes: every list they are drawn from was read under the scope they are laid out in,
\* but for a first read that a save found under way.
RowsOfOneScope ==
  settled.loaded => \A l \in Listings : settled.list[l].joined \/ settled.list[l].scope = settled.explicit

\* "Each stays pending until the lists have been fetched again, which is what the spinner and the dimmed list
\* show" (NamespaceScope): once the spinner is gone every list is of the scope that was saved.  The code does not
\* keep this of a scope picked before the lists were there.
FetchedAgain ==
  settled.loaded => \A l \in Listings : settled.list[l].scope = settled.explicit
=============================================================================
