---------------------------------- MODULE Nav ----------------------------------
(***************************************************************************)
(* What the window shows and how the user moves: the Cluster, the view and *)
(* the detail of the store, the places the user goes back and forward to,  *)
(* the walk of the rows, the palette, and the Command a key runs           *)
(* (lib/history.ts, lib/commands.ts, store.ts, shell.tsx, inspector.tsx,   *)
(* palette.tsx, sidebar.tsx).                                              *)
(*                                                                         *)
(* A list is its objects in order.  What a Command does elsewhere than to  *)
(* what is shown is left out.                                              *)
(***************************************************************************)
EXTENDS Integers, Sequences, Keys

CONSTANTS Clusters,
          Objects,   \* numbers: the order of the rows
          Nodes,     \* the ones that are nodes
          None,
          Platform,
          MaxPlaces, \* lib/history.ts keeps so many
          MaxActs    \* bound: what the user does, and the Clusters

ASSUME NavAssumption ==
  /\ Objects \subseteq Nat /\ Nodes \subseteq Objects
  /\ None \notin Clusters \cup Objects
  /\ Platform \in Platforms
  /\ MaxPlaces \in Nat \ {0, 1} /\ MaxActs \in Nat

VARIABLES
  config,  \* the Clusters there are
  known,   \* the ones the window has
  fetch,   \* its read of them
  up,      \* the Clusters whose views are there: their Route is, if they have one
  lists,   \* per Cluster, the objects its lists have
  ui,      \* the store: the Cluster, whether the Routes page covers it, the view, the detail
  open,    \* the object whose detail is beside the list
  editing, \* its YAML is edited
  history, \* the places, and the one the user is at; 0 before the first
  walk,    \* the place a walk of the rows was begun at, None without a walk
  palette,
  removal, \* the dialog that removes a Cluster, and its call
  acts

navVars == <<config, known, fetch, up, lists, ui, open, editing, history, walk, palette, removal, acts>>

mainTabs == <<"overview", "nodes", "events", "forwards">>
Tabs == {mainTabs[i] : i \in DOMAIN mainTabs}
ViewOf(o) == IF o \in Nodes THEN "nodes" ELSE "overview"

NoDetail == [cluster |-> None, object |-> None]
Details == {NoDetail} \cup [cluster : Clusters, object : Objects]
Places == [cluster : Clusters, tab : Tabs, detail : Details]
NoItem == [kind |-> "none", cluster |-> None, to |-> None]
NoWalk == [on |-> FALSE, from |-> [cluster |-> None, tab |-> "overview", detail |-> NoDetail]]

Act == acts < MaxActs /\ acts' = acts + 1

NavInit ==
  /\ config = Clusters /\ known = Clusters
  /\ fetch = [stage |-> "idle", got |-> Clusters]
  /\ up = Clusters
  /\ lists = [c \in Clusters |-> Objects]
  /\ ui = [selected |-> None, routes |-> FALSE, tab |-> "overview", detail |-> NoDetail]
  /\ open = None /\ editing = FALSE
  /\ history = [places |-> <<>>, at |-> 0]
  /\ walk = NoWalk
  /\ palette = [phase |-> "closed", chosen |-> NoItem]
  /\ removal = [stage |-> "none", cluster |-> None]
  /\ acts = 0

--------------------------------------------------------------------------------
(* The places. *)

Here(u) == [cluster |-> u.selected, tab |-> u.tab, detail |-> u.detail]
Same(p, q) == p.cluster = q.cluster /\ p.tab = q.tab /\ p.detail.object = q.detail.object

(* Mutant of Last: one too many are kept. *)
LastAndOne(s, n) == IF Len(s) <= n + 1 THEN s ELSE SubSeq(s, Len(s) - n, Len(s))

Last(s, n) == IF Len(s) <= n THEN s ELSE SubSeq(s, Len(s) - n + 1, Len(s))

(* A change of the place adds a place and removes the forward ones. *)
Visited(h, u) ==
  IF u.selected = None \/ (h.at > 0 /\ Same(h.places[h.at], Here(u))) THEN h
  ELSE LET places == Last(Append(SubSeq(h.places, 1, h.at), Here(u)), MaxPlaces)
       IN [places |-> places, at |-> Len(places)]

(* Mutant of Replaced: each row walked to is a place. *)
ReplacedNever(h, u) == Visited(h, u)

Replaced(h, u) == IF h.at = 0 THEN Visited(h, u) ELSE [h EXCEPT !.places[h.at] = Here(u)]

(* Where back (-1) and forward (1) lead, past the Clusters that are gone. *)
Reached(step, u) ==
  LET from == IF u.routes /\ step < 0 THEN history.at ELSE history.at + step
      there == {i \in DOMAIN history.places : history.places[i].cluster \in known
                                              /\ IF step < 0 THEN i <= from ELSE i >= from}
  IN IF there = {} THEN 0
     ELSE CHOOSE i \in there : \A j \in there : IF step < 0 THEN i >= j ELSE i <= j

--------------------------------------------------------------------------------
(* What is beside the list. *)

Mounted(u, clusters, reachable) ==
  u.selected \in clusters \cap reachable /\ ~u.routes /\ u.tab \in {"overview", "nodes"}

Rows(u, l) == {o \in l[u.selected] : ViewOf(o) = u.tab}

(* The detail of an object the list has, or had when it was opened. *)
Inspected(u, clusters, reachable, l, last) ==
  IF /\ Mounted(u, clusters, reachable)
     /\ u.detail.cluster = u.selected /\ u.detail.object # None /\ ViewOf(u.detail.object) = u.tab
     /\ u.detail.object \in Rows(u, l) \cup {last}
  THEN u.detail.object ELSE None

Renders ==
  LET stays == /\ Mounted(ui, known, up) /\ ui.selected = ui'.selected /\ ui.tab = ui'.tab
  IN /\ open' = Inspected(ui', known', up', lists', IF stays THEN open ELSE None)
     /\ editing' = (editing /\ open' = open)

(* The store takes u, then v; each is a place. *)
Goes(u) == ui' = u /\ history' = Visited(history, u) /\ walk' = NoWalk /\ Renders
GoesBy(u, v) == ui' = v /\ history' = Visited(Visited(history, u), v) /\ walk' = NoWalk /\ Renders

Selecting(u, c) ==
  [u EXCEPT !.selected = c, !.routes = FALSE, !.detail = IF c = u.selected THEN @ ELSE NoDetail]
SelectingTab(u, t) == IF t = u.tab THEN u ELSE [u EXCEPT !.tab = t, !.detail = NoDetail]
Opening(c, o) == [selected |-> c, routes |-> FALSE, tab |-> ViewOf(o), detail |-> [cluster |-> c, object |-> o]]
Closing(u) == [u EXCEPT !.detail = NoDetail]

(* Mutant of Going: the Clusters that are gone are skipped in what is shown only. *)
GoingNext(step) ==
  LET i == Reached(step, ui)
      p == history.places[i]
  IN /\ i # 0
     /\ history' = [history EXCEPT !.at = IF @ + step \in DOMAIN history.places THEN @ + step ELSE i]
     /\ ui' = [selected |-> p.cluster, routes |-> FALSE, tab |-> p.tab, detail |-> p.detail]
     /\ walk' = NoWalk
     /\ Renders

Going(step) ==
  LET i == Reached(step, ui)
      p == history.places[i]
  IN /\ i # 0
     /\ history' = [history EXCEPT !.at = i]
     /\ ui' = [selected |-> p.cluster, routes |-> FALSE, tab |-> p.tab, detail |-> p.detail]
     /\ walk' = NoWalk
     /\ Renders

--------------------------------------------------------------------------------
(* The user. *)

DialogOpen == palette.phase = "open" \/ removal.stage # "none"
ClusterShown == ui.selected \in known /\ ~ui.routes
Elsewhere == UNCHANGED <<config, known, fetch, up, lists, palette, removal>>

UserSelects ==
  /\ Elsewhere
  /\ Act /\ ~DialogOpen
  /\ \E c \in known : Goes(Selecting(ui, c))

UserOpensRoutes ==
  /\ Elsewhere
  /\ Act /\ ~DialogOpen /\ ~ui.routes
  /\ Goes([ui EXCEPT !.routes = TRUE])

UserPicksTab ==
  /\ Elsewhere
  /\ Act /\ ~DialogOpen /\ ClusterShown
  /\ \E t \in Tabs \ {ui.tab} : Goes(SelectingTab(ui, t))

(* A click on the row of the open detail closes it, but on the Nodes view. *)
UserClicksRow ==
  /\ Elsewhere
  /\ Act /\ ~DialogOpen /\ Mounted(ui, known, up)
  /\ \E o \in Rows(ui, lists) :
       Goes(IF o = open /\ o \notin Nodes THEN Closing(ui) ELSE Opening(ui.selected, o))

(* A link of a detail or of an event, to an object that may be gone. *)
UserFollowsLink ==
  /\ Elsewhere
  /\ Act /\ ~DialogOpen /\ ClusterShown
  /\ open # None \/ (ui.tab = "events" /\ ui.selected \in up)
  /\ \E o \in Objects : Goes(Opening(ui.selected, o))

UserEdits ==
  /\ Act /\ ~DialogOpen /\ open # None /\ ~editing
  /\ editing' = TRUE
  /\ UNCHANGED <<ui, open, history, walk>> /\ Elsewhere

(* The mouse's back and forward buttons. *)
MouseGoes ==
  /\ Elsewhere
  /\ Act /\ ~DialogOpen
  /\ \E step \in {-1, 1} : Going(step)

--------------------------------------------------------------------------------
(* The keys. *)

Runnable ==
  {"palette", "show-shortcuts", "select-cluster", "refresh", "open-settings", "go-back", "go-forward", "close-tab"}
  \cup (IF ClusterShown
        THEN {"previous-view", "next-view", "filter-view", "toggle-panel", "new-terminal", "previous-tab", "next-tab",
              "select-log-lines", "save-logs", "follow-logs"} ELSE {})
  \cup (IF Mounted(ui, known, up) THEN {"next-row"} ELSE {})
  \cup (IF open # None
        THEN {"previous-row", "close-detail", "logs", "shell", "forward", "details-tab", "yaml-tab"} ELSE {})
  \cup (IF editing THEN {"cancel-yaml", "review-yaml"} ELSE IF open # None THEN {"edit-yaml"} ELSE {})

FocusSpots ==
  IF DialogOpen THEN {"dialog"}
  ELSE {"list", "field"} \cup (IF ClusterShown THEN {"tabs", "panel", "panelField", "terminal"} ELSE {})
       \cup (IF editing THEN {"editor", "editorButton"} ELSE {})

(* The editor hears a key before the window does, and the first Command that *)
(* takes it leaves nothing to the others.                                    *)
Takes(key, spot) ==
  LET taking == Claims[Platform][key][spot] \cap Runnable
  IN IF "cancel-yaml" \in taking THEN {"cancel-yaml"} ELSE taking

Pressed(id) ==
  /\ Act
  /\ id \in UNION {Takes(x[1], x[2]) : x \in {y \in KeysOf[Platform][id] : y[2] \in FocusSpots}}

KeySelects == Pressed("select-cluster") /\ Elsewhere /\ \E c \in known : Goes(Selecting(ui, c))

KeyGoes ==
  /\ Elsewhere
  /\ \/ Pressed("go-back") /\ Going(-1)
     \/ Pressed("go-forward") /\ Going(1)

StepView(by) ==
  LET i == CHOOSE i \in DOMAIN mainTabs : mainTabs[i] = ui.tab
  IN mainTabs[((i - 1 + by) % Len(mainTabs)) + 1]

KeyStepsView ==
  /\ Elsewhere
  /\ \/ Pressed("previous-view") /\ Goes(SelectingTab(ui, StepView(-1)))
     \/ Pressed("next-view") /\ Goes(SelectingTab(ui, StepView(1)))

(* From the row of the detail to the next; from a row that is gone to the    *)
(* first, or nowhere.                                                        *)
NextRow(step) ==
  LET rows == Rows(ui, lists)
      after == {o \in rows : IF step > 0 THEN o > open ELSE o < open}
      first(S) == {o \in S : \A x \in S : o <= x}
      last(S) == {o \in S : \A x \in S : o >= x}
  IN IF open \in rows THEN IF step > 0 THEN first(after) ELSE last(after)
     ELSE IF step > 0 THEN first(rows) ELSE {}

(* The first row opens a detail, a new place; the next rows replace it. *)
Walks(step) ==
  \E o \in NextRow(step) :
    LET u == Opening(ui.selected, o)
    IN /\ ui' = u
       /\ IF open = None
          THEN history' = Visited(history, u) /\ walk' = [on |-> TRUE, from |-> Here(ui)]
          ELSE history' = Replaced(history, u) /\ walk' = walk
       /\ Renders

KeyWalks ==
  /\ Elsewhere
  /\ \/ Pressed("next-row") /\ Walks(1)
     \/ Pressed("previous-row") /\ Walks(-1)

KeyCloses == Pressed("close-detail") /\ Elsewhere /\ Goes(Closing(ui))

KeyCancels ==
  /\ Pressed("cancel-yaml")
  /\ editing' = FALSE
  /\ UNCHANGED <<ui, open, history, walk>> /\ Elsewhere

--------------------------------------------------------------------------------
(* The palette: what is chosen runs when it is closed.  It may be opened     *)
(* again before that, and keeps what was chosen.                             *)

Stays == UNCHANGED <<ui, open, editing, history, walk>>

PaletteOpens ==
  /\ Pressed("palette")
  /\ palette' = [palette EXCEPT !.phase = "open"]
  /\ Stays /\ UNCHANGED <<config, known, fetch, up, lists, removal>>

Item(kind, c, to) == [kind |-> kind, cluster |-> c, to |-> to]
Items ==
  {Item("cluster", c, None) : c \in known} \cup {Item("command", None, id) : id \in {"go-back", "go-forward"}}
  \cup (IF ui.selected \in known
        THEN {Item("view", ui.selected, t) : t \in Tabs}
             \cup {Item("object", ui.selected, o) : o \in lists[ui.selected]} ELSE {})

UserChooses ==
  /\ Act /\ palette.phase = "open"
  /\ \E item \in Items : palette' = [phase |-> "closing", chosen |-> item]
  /\ Stays /\ UNCHANGED <<config, known, fetch, up, lists, removal>>

UserLeavesPalette ==
  /\ Act /\ palette.phase = "open"
  /\ palette' = [palette EXCEPT !.phase = "closing"]
  /\ Stays /\ UNCHANGED <<config, known, fetch, up, lists, removal>>

(* goTo leaves the Routes page or another Cluster before it turns to the view. *)
Runs(item) ==
  \/ item.kind = "none" /\ Stays
  \/ item.kind = "cluster" /\ Goes(Selecting(ui, item.cluster))
  \/ /\ item.kind = "view"
     /\ LET u == IF ui.routes \/ ui.selected # item.cluster THEN Selecting(ui, item.cluster) ELSE ui
        IN GoesBy(u, SelectingTab(u, item.to))
  \/ item.kind = "object" /\ Goes(Opening(item.cluster, item.to))
  \/ /\ item.kind = "command"
     /\ LET step == IF item.to = "go-back" THEN -1 ELSE 1
        IN Going(step) \/ (Reached(step, ui) = 0 /\ Stays)

PaletteClosed ==
  /\ UNCHANGED <<config, known, fetch, up, lists, removal, acts>>
  /\ palette.phase = "closing"
  /\ palette' = [phase |-> "closed", chosen |-> NoItem]
  /\ Runs(palette.chosen)

--------------------------------------------------------------------------------
(* What happens to the window. *)

(* A Cluster picked in the tray, whatever is open. *)
TrayOpens ==
  /\ Elsewhere
  /\ Act
  /\ \E c \in config : LET u == Selecting(ui, c) IN GoesBy(u, SelectingTab(u, "overview"))

UserRemoves ==
  /\ Act /\ ~DialogOpen /\ ClusterShown
  /\ removal' = [stage |-> "sent", cluster |-> ui.selected]
  /\ Stays /\ UNCHANGED <<config, known, fetch, up, lists, palette>>

DeleteCluster ==
  /\ removal.stage = "sent"
  /\ config' = config \ {removal.cluster}
  /\ removal' = [removal EXCEPT !.stage = "done"]
  /\ Stays /\ UNCHANGED <<known, fetch, up, lists, palette, acts>>

(* No Cluster is selected then, whichever was. *)
Removed ==
  /\ UNCHANGED <<config, known, up, lists, palette, acts>>
  /\ removal.stage = "done"
  /\ Goes(Selecting(ui, None))
  /\ removal' = [stage |-> "none", cluster |-> None]
  /\ fetch' = [fetch EXCEPT !.stage = "sent"]

ConfigReads ==
  /\ fetch.stage = "sent"
  /\ fetch' = [stage |-> "answered", got |-> config]
  /\ Stays /\ UNCHANGED <<config, known, up, lists, palette, removal, acts>>

ConfigLands ==
  /\ UNCHANGED <<config, up, lists, palette, removal, acts>>
  /\ fetch.stage = "answered"
  /\ known' = fetch.got /\ fetch' = [fetch EXCEPT !.stage = "idle"]
  /\ UNCHANGED <<ui, history, walk>> /\ Renders

RouteMoves ==
  /\ UNCHANGED <<config, known, fetch, lists, palette, removal>>
  /\ Act
  /\ \E c \in config : up' = IF c \in up THEN up \ {c} ELSE up \cup {c}
  /\ UNCHANGED <<ui, history, walk>> /\ Renders

ListLands ==
  /\ UNCHANGED <<config, known, fetch, up, palette, removal>>
  /\ Act
  /\ \E c \in up, o \in Objects :
       lists' = [lists EXCEPT ![c] = IF o \in @ THEN @ \ {o} ELSE @ \cup {o}]
  /\ UNCHANGED <<ui, history, walk>> /\ Renders

NavNext ==
  \/ UserSelects \/ UserOpensRoutes \/ UserPicksTab \/ UserClicksRow \/ UserFollowsLink \/ UserEdits \/ MouseGoes
  \/ KeySelects \/ KeyGoes \/ KeyStepsView \/ KeyWalks \/ KeyCloses \/ KeyCancels
  \/ PaletteOpens \/ UserChooses \/ UserLeavesPalette \/ PaletteClosed
  \/ TrayOpens \/ UserRemoves \/ DeleteCluster \/ Removed \/ ConfigReads \/ ConfigLands \/ RouteMoves \/ ListLands

NavSpec == NavInit /\ [][NavNext]_navVars

--------------------------------------------------------------------------------
(* Every variable has the type its declaration says, and the history is      *)
(* never longer than it may be nor the user outside it.                      *)
TypeOK ==
  /\ config \subseteq Clusters /\ known \subseteq Clusters /\ up \subseteq Clusters
  /\ fetch \in [stage : {"idle", "sent", "answered"}, got : SUBSET Clusters]
  /\ lists \in [Clusters -> SUBSET Objects]
  /\ ui \in [selected : Clusters \cup {None}, routes : BOOLEAN, tab : Tabs, detail : Details]
  /\ open \in Objects \cup {None} /\ editing \in BOOLEAN
  /\ history.places \in Seq(Places) /\ Len(history.places) <= MaxPlaces
  /\ history.at \in 0..Len(history.places) /\ (history.at = 0 <=> history.places = <<>>)
  /\ walk.on \in BOOLEAN
  /\ palette.phase \in {"closed", "open", "closing"}
  /\ removal \in [stage : {"none", "sent", "done"}, cluster : Clusters \cup {None}]
  /\ acts \in Nat

(* While a Cluster is selected, the place the user is at is what is shown,   *)
(* and a detail is one of that Cluster and of that view, whatever removals,  *)
(* the tray and late answers do (lib/history.ts:22, target-verbs.tsx:15).    *)
PlaceShown ==
  /\ ui.selected # None => history.at > 0 /\ Same(history.places[history.at], Here(ui))
  /\ ui.detail # NoDetail => ui.detail.cluster = ui.selected /\ ui.tab = ViewOf(ui.detail.object)

(* "One back undoes the walk": behind the place of a walk is the one it was  *)
(* begun at (lib/history.ts:35).                                             *)
WalkUndone ==
  walk.on => /\ history.at > 1
             /\ Same(history.places[history.at - 1], walk.from)

(* A key is never claimed by two Commands that are there at once, so that it *)
(* never hangs on the order of their handlers which of them runs             *)
(* (lib/key-owner.ts:46); but Escape, which the editor hears first.          *)
OneTaker ==
  \A ids \in Contested : Cardinality(ids \cap Runnable) <= 1 \/ ids \cap Runnable = {"cancel-yaml", "close-detail"}
================================================================================
