---------------------------------- MODULE Keys ----------------------------------
(***************************************************************************)
(* Who gets a key: the element that has the focus, or one of the app's     *)
(* Commands (lib/key-owner.ts, lib/commands.ts).  A Command that Wails,    *)
(* Base UI, xterm or one element handles itself is not here, but its keys  *)
(* are taken.                                                              *)
(***************************************************************************)
EXTENDS Naturals, FiniteSets

Platforms == {"mac", "other"}

(* Where the focus can be; a dialog or menu that is open takes every key. *)
Spots == {"dialog", "list", "tabs", "field", "editor", "editorButton", "panel", "panelField", "terminal"}

focusArea(spot) ==
  CASE spot \in {"field", "panelField"} -> "text"
    [] spot \in {"list", "editorButton"} -> "other"
    [] OTHER -> spot

InPanel(spot) == spot \in {"panel", "panelField", "terminal"}
InEditor(spot) == spot \in {"editor", "editorButton"}

(* mod is Cmd on macOS and Ctrl elsewhere; Comma is the key of that sign. *)
Key(mods, k) == [key |-> k, mod |-> "mod" \in mods, shift |-> "shift" \in mods, alt |-> "alt" \in mods]
Plain(k) == Key({}, k)
Mod(k) == Key({"mod"}, k)
ModShift(k) == Key({"mod", "shift"}, k)
Arrows == {"Up", "Down", "Left", "Right"}
Digits == {"1", "9"}

(* A Terminal's shell keeps the keys it may want. *)
TerminalGives(platform, k) ==
  IF platform = "mac"
  THEN k.mod /\ k.key \notin {"K", "C", "V", "A", "F", "Left", "Right", "Backspace"}
  ELSE /\ k.mod /\ ~k.alt
       /\ IF k.shift THEN k.key \notin {"C", "V", "K", "F", "_", "@"}
                     ELSE k.key \in Digits \cup {"0", "-", "=", "PageUp", "PageDown"}

KeyIsApps(platform, k, area, group) ==
  \/ area = "editor" /\ group = "yaml"
  \/ area = "terminal" /\ TerminalGives(platform, k)
  \/ /\ area \in {"text", "editor"} /\ k.mod
     /\ ~(platform = "mac" /\ ~k.shift /\ k.key \in {"[", "]"})
  \/ area = "panel" /\ (k.mod \/ k.alt \/ k.key \notin Arrows)
  \/ area = "tabs" /\ (k.mod \/ k.alt \/ k.key \notin {"Left", "Right"})
  \/ area = "other"

Each(keys) == [p \in Platforms |-> keys]
PerPlatform(mac, other) == [p \in Platforms |-> IF p = "mac" THEN mac ELSE other]
Command(id, group, keys, panel) == [id |-> id, group |-> group, keys |-> keys, panel |-> panel]

(* Where a Command runs from: any place, inside the panel or outside it. *)
Commands ==
  {Command("palette", "anywhere", Each({Mod("K"), ModShift("P")}), "any"),
   Command("show-shortcuts", "anywhere", Each({Plain("?")}), "any"),
   Command("select-cluster", "anywhere", Each({Mod(d) : d \in Digits}), "any"),
   Command("refresh", "anywhere", Each({Mod("R")}), "any"),
   Command("open-settings", "anywhere", Each({Mod("Comma")}), "any"),
   Command("go-back", "anywhere", PerPlatform({Mod("[")}, {Key({"alt"}, "Left")}), "any"),
   Command("go-forward", "anywhere", PerPlatform({Mod("]")}, {Key({"alt"}, "Right")}), "any"),
   Command("previous-view", "cluster", PerPlatform({ModShift("[")}, {Mod("PageUp")}), "outside"),
   Command("next-view", "cluster", PerPlatform({ModShift("]")}, {Mod("PageDown")}), "outside"),
   Command("filter-view", "cluster", Each({Mod("F"), Plain("/")}), "any"),
   Command("next-row", "list", Each({Plain("Down"), Plain("J")}), "any"),
   Command("previous-row", "list", Each({Plain("Up"), Plain("K")}), "any"),
   Command("close-detail", "detail", Each({Plain("Escape")}), "any"),
   Command("logs", "detail", Each({Plain("L")}), "any"),
   Command("shell", "detail", Each({Plain("S")}), "any"),
   Command("forward", "detail", Each({Key({"shift"}, "F")}), "any"),
   Command("details-tab", "detail", Each({Plain("D")}), "any"),
   Command("yaml-tab", "detail", Each({Plain("Y")}), "any"),
   Command("edit-yaml", "detail", Each({Plain("E")}), "any"),
   Command("review-yaml", "yaml", Each({Mod("S")}), "outside"),
   Command("cancel-yaml", "yaml", Each({Plain("Escape")}), "any"),
   Command("toggle-panel", "panel", Each({Mod("J")}), "any"),
   Command("new-terminal", "panel", Each({Mod("T")}), "any"),
   Command("close-tab", "panel", Each({Mod("W")}), "any"),
   Command("previous-tab", "panel", PerPlatform({ModShift("[")}, {Mod("PageUp")}), "inside"),
   Command("next-tab", "panel", PerPlatform({ModShift("]")}, {Mod("PageDown")}), "inside"),
   Command("select-log-lines", "logs", Each({Mod("A")}), "any"),
   Command("save-logs", "logs", Each({Mod("S")}), "inside"),
   Command("follow-logs", "logs", PerPlatform({Mod("Down")}, {Mod("End")}), "inside")}

(* The keys with Ctrl+Shift of the Commands that are handled elsewhere. *)
NativeKeys(platform) == IF platform = "mac" THEN {} ELSE {ModShift(k) : k \in {"K", "C", "V", "F"}}
CatalogKeys(platform) == UNION {c.keys[platform] : c \in Commands} \cup NativeKeys(platform)

(* Off macOS, Ctrl+Shift+key also runs the Command of Ctrl+key, unless it is *)
(* a Command's own.                                                          *)
WithShift(platform, keys) ==
  IF platform = "mac" THEN keys
  ELSE keys \cup ({[k EXCEPT !.shift = TRUE] : k \in {x \in keys : x.mod /\ ~x.shift}} \ CatalogKeys(platform))

(* Mutant of GetsKey: it does not look where the focus is. *)
GetsKeyAnywhere(platform, c, k, spot) == KeyIsApps(platform, k, focusArea(spot), c.group)

GetsKey(platform, c, k, spot) ==
  /\ c.panel = "any" \/ InPanel(spot) = (c.panel = "inside")
  /\ KeyIsApps(platform, k, focusArea(spot), c.group)

(* The Commands that listen in one element only. *)
Hears(id, spot) == /\ id = "cancel-yaml" => InEditor(spot)
                   /\ id = "select-log-lines" => spot = "panel"

AllKeys(platform) == UNION {WithShift(platform, c.keys[platform]) : c \in Commands}

(* The Commands that take a key at a spot when they are there. *)
Claims == [p \in Platforms |-> [k \in AllKeys(p) |-> [s \in Spots |->
  {c.id : c \in {x \in Commands : /\ k \in WithShift(p, x.keys[p]) /\ Hears(x.id, s)
                                  /\ GetsKey(p, x, k, s)}}]]]

(* What takes a Command there, and the Commands that meet there. *)
KeysOf == [p \in Platforms |-> [id \in {c.id : c \in Commands} |->
  {x \in AllKeys(p) \X Spots : id \in Claims[p][x[1]][x[2]]}]]
Contested == {ids \in UNION {{Claims[p][k][s] : k \in AllKeys(p), s \in Spots} : p \in Platforms} : Cardinality(ids) > 1}
================================================================================
