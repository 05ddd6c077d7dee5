-------------------------------- MODULE Dock --------------------------------
(***************************************************************************)
(* The dock: log streams, shells and Terminals, each a session of the      *)
(* service and a tab of the window (store.ts, shell.tsx, terminal.tsx,     *)
(* logs.tsx over shell.go, terminal.go, logs.go and DeleteCluster).        *)
(*                                                                         *)
(* A call of the window and its answer are two steps, and answers overtake *)
(* each other and the events; the events arrive in the order they were     *)
(* emitted.  A reload of the window forgets the store and asks the service *)
(* for its sessions.                                                       *)
(***************************************************************************)
EXTENDS Naturals, Sequences, FiniteSets

CONSTANTS
  Clusters,
  Sources,       \* records [kind, cluster, target]: what a session follows or runs in
  MaxSessions,   \* bound: sessions started, over the whole run
  MaxCalls,      \* bound: calls of the window in flight at once
  MaxActs        \* bound: acts of the user, a reload of the window among them

Kinds == {"log", "shell", "terminal"}
Ids == 1..MaxSessions
Slots == 1..MaxCalls
None == 0
NoSource == [kind |-> "none", cluster |-> "none", target |-> "none"]

ASSUME DockAssumption ==
  /\ Sources \subseteq [kind : Kinds, cluster : Clusters, target : STRING]
  /\ MaxSessions \in Nat /\ MaxCalls \in Nat /\ MaxActs \in Nat

VARIABLES
  clusters,  \* the Clusters of the config
  source,    \* [Ids -> Sources], for the sessions started: 1..started
  started,
  registered, \* s.logs, s.shells and s.terminals
  run,       \* [Ids -> RunStates]: the session's goroutine
  cancelled, \* sessions whose context was cancelled or whose shell was hung up
  call,      \* [Slots -> Call]
  events,    \* emitted and not yet handled by the window
  asked,     \* the kinds whose Statuses() is asked and not yet read
  snapshots, \* answers of Statuses() read and not yet handled
  ui,        \* the store
  acts       \* what the user has done

vars == <<clusters, source, started, registered, run, cancelled, call, events,
          asked, snapshots, ui, acts>>
service == <<clusters, source, started, registered, run, cancelled>>

RunStates == {"none", "starting", "running", "failed", "read", "draining", "done"}
Statuses == {"live", "idle", "error", "stopped"}
EventType == [id : Ids, st : Statuses]
Call == [op : {"none", "start", "stop", "delete"},
         phase : {"sent", "checked", "stopping", "answered", "failed"},
         src : Sources \cup {NoSource},
         id : Ids \cup {None},         \* start: the session started; stop: the one being waited for
         replaces : Ids \cup {None},   \* start: the tab it takes the place of
         closes : SUBSET Ids,          \* start: the tabs closed once it is open
         todo : SUBSET Ids,            \* stop, delete: the sessions still to stop
         cluster : Clusters \cup {NoSource.cluster},
         kept : BOOLEAN]               \* the window that made it has not been reloaded

Idle == [op |-> "none", phase |-> "sent", src |-> NoSource, id |-> None, replaces |-> None,
         closes |-> {}, todo |-> {}, cluster |-> NoSource.cluster, kept |-> TRUE]
EmptyStore == [shown |-> [id \in Ids |-> "none"], order |-> <<>>, closed |-> {}]

KindOf(id) == source[id].kind
ClusterOf(id) == source[id].cluster
Present(u) == {id \in Ids : u.shown[id] # "none"}
Ended(u, id) == u.shown[id] \in {"stopped", "error"}
Elements(seq) == {seq[i] : i \in DOMAIN seq}
Without(seq, gone) ==
  LET kept[i \in 0..Len(seq)] ==
        IF i = 0 THEN <<>> ELSE IF seq[i] \in gone THEN kept[i - 1] ELSE Append(kept[i - 1], seq[i])
  IN  kept[Len(seq)]
IndexIn(seq, id) == CHOOSE i \in DOMAIN seq : seq[i] = id

-----------------------------------------------------------------------------
(* The store's operations on sessions, as functions of the store. *)

AddDockTab(u, id) == [u EXCEPT !.order = Append(@, id)]

(* Mutant of OpenLogTab: the tab its first event made is not taken out first. *)
OpenLogTabTwice(u, id, replaces) ==
  LET at == IF replaces \in Elements(u.order) THEN IndexIn(u.order, replaces) ELSE Len(u.order) + 1
  IN  [u EXCEPT !.shown[id] = IF @ = "none" THEN "live" ELSE @,
                !.order = SubSeq(@, 1, at - 1) \o <<id>> \o SubSeq(@, at, Len(@))]

OpenLogTab(u, id, replaces) ==
  LET rest == Without(u.order, {id})
      at == IF replaces \in Elements(rest) THEN IndexIn(rest, replaces) ELSE Len(rest) + 1
  IN [u EXCEPT !.shown[id] = IF @ = "none" THEN "live" ELSE @,
               !.order = SubSeq(rest, 1, at - 1) \o <<id>> \o SubSeq(rest, at, Len(rest))]

Remove(u, id) == [u EXCEPT !.shown[id] = "none", !.order = Without(@, {id})]

Show(u, id, st) ==
  LET v == [u EXCEPT !.shown[id] = st]
  IN  IF u.shown[id] = "none" THEN AddDockTab(v, id) ELSE v

\* A stopped stream is forgotten with its lines.
SetLogStatus(u, id, st) ==
  IF st # "stopped" THEN Show(u, id, st)
  ELSE IF u.shown[id] = "none" THEN u ELSE Remove(u, id)

(* Mutant of SetSessionStatus: what the user closed is not remembered. *)
SetAnyStatus(u, id, st) == Show(u, id, st)

\* setShellStatus and setTerminalStatus: an ended session stays on screen until closed.
SetSessionStatus(u, id, st) == IF id \in u.closed THEN u ELSE Show(u, id, st)

SetStatus(u, id, st) ==
  IF KindOf(id) = "log" THEN SetLogStatus(u, id, st) ELSE SetSessionStatus(u, id, st)

\* closeShell and closeTerminal.
CloseSession(u, id) ==
  IF u.shown[id] = "none" THEN u ELSE [Remove(u, id) EXCEPT !.closed = @ \cup {id}]
\* At most one is closed at a time.
CloseAll(u, ids) == IF ids = {} THEN u ELSE CloseSession(u, CHOOSE id \in ids : TRUE)

-----------------------------------------------------------------------------
(* What the user does: each starts calls or changes the store. *)

Acts == acts < MaxActs /\ acts' = acts + 1
Emit(id, st) == events' = Append(events, [id |-> id, st |-> st])
Free == {k \in Slots : call[k].op = "none"}
SlotOf == CHOOSE k \in Free : \A j \in Free : k <= j
Send(c) == Free # {} /\ call' = [call EXCEPT ![SlotOf] = c]
StartCall(src, replaces, closes) ==
  [Idle EXCEPT !.op = "start", !.src = src, !.replaces = replaces, !.closes = closes,
               !.cluster = src.cluster]
StopCall(ids) == [Idle EXCEPT !.op = "stop", !.phase = "stopping", !.todo = ids]

SessionsOn(src) == {id \in Present(ui) : source[id] = src}
\* The tabs of a Cluster's dock.
Tabs(c) == {id \in Present(ui) : ClusterOf(id) = c}
OnScreen == UNION {Tabs(c) : c \in clusters}

\* startLogs: selects the tab already following the source, or starts it, replacing one that failed.
StartLogs(src, replaces, closes) ==
  \/ \E id \in SessionsOn(src) :
       /\ ui.shown[id] # "error"
       /\ UNCHANGED ui
       /\ IF closes = {} THEN UNCHANGED call ELSE Send(StopCall(closes))
  \/ /\ \A id \in SessionsOn(src) : ui.shown[id] = "error"
     /\ \E existing \in IF SessionsOn(src) = {} THEN {None} ELSE SessionsOn(src) :
          Send(StartCall(src, IF replaces # None THEN replaces ELSE existing,
                         closes \cup ({existing} \ {None})))
     /\ UNCHANGED ui

UserStartsLogs(src) ==
  /\ Acts
  /\ src.kind = "log" /\ src.cluster \in clusters
  /\ StartLogs(src, None, {})
  /\ UNCHANGED <<service, events, asked, snapshots>>

\* The toolbar's container choice: another source takes this tab's place.
UserPicksContainer(id, src) ==
  /\ Acts
  /\ id \in OnScreen /\ KindOf(id) = "log"
  /\ src.kind = "log" /\ src.cluster = ClusterOf(id) /\ src # source[id]
  /\ StartLogs(src, id, {id})
  /\ UNCHANGED <<service, events, asked, snapshots>>

\* useStartShell: a container that has a live shell gets its tab selected; else, and for every
\* Terminal, a session is started.  An ended one opened again is closed once the new one is open.
StartSession(src, closes) ==
  LET open == {id \in SessionsOn(src) : src.kind = "shell" /\ ~Ended(ui, id)}
  IN  \/ \E id \in open :
           /\ ui' = CloseAll(ui, closes)
           /\ UNCHANGED call
      \/ open = {} /\ Send(StartCall(src, None, closes)) /\ UNCHANGED ui

UserOpensSession(src) ==
  /\ Acts
  /\ src.kind # "log" /\ src.cluster \in clusters
  /\ StartSession(src, {})
  /\ UNCHANGED <<service, events, asked, snapshots>>

UserOpensAgain(id) ==
  /\ Acts
  /\ id \in OnScreen /\ KindOf(id) # "log" /\ Ended(ui, id)
  /\ StartSession(source[id], {id})
  /\ UNCHANGED <<service, events, asked, snapshots>>

\* A log tab leaves when its stream is stopped, a shell or a Terminal at once.
UserCloses(id) ==
  /\ Acts
  /\ id \in OnScreen
  /\ IF KindOf(id) = "log" THEN UNCHANGED ui ELSE ui' = CloseSession(ui, id)
  /\ IF KindOf(id) # "log" /\ Ended(ui, id) THEN UNCHANGED call ELSE Send(StopCall({id}))
  /\ UNCHANGED <<service, events, asked, snapshots>>

UserRemovesCluster(c) ==
  /\ Acts
  /\ c \in clusters
  /\ \A k \in Slots : call[k].op # "delete"
  /\ Send([Idle EXCEPT !.op = "delete", !.cluster = c])
  /\ UNCHANGED <<service, events, asked, snapshots, ui>>

(* Mutant of AskedOnLoad: only the streams are asked for. *)
StreamsAsked == {"log"}

\* A kind of which nothing was ever started has none to tell, so asking for it is left out.
AskedOnLoad == {source[id].kind : id \in 1..started}
               \cup {call[k].src.kind : k \in {j \in Slots : call[j].op = "start"}}

\* A reloaded window has an empty store and asks for every session; the service goes on.
Reload ==
  /\ Acts
  /\ ui' = EmptyStore
  /\ call' = [k \in Slots |-> [call[k] EXCEPT !.kept = FALSE]]
  /\ events' = <<>> /\ asked' = AskedOnLoad /\ snapshots' = {}
  /\ UNCHANGED service

-----------------------------------------------------------------------------
(* The service: Start, Stop and DeleteCluster, each call in its steps. *)

Done(k) == call' = [call EXCEPT ![k] = Idle]
Answer(k, phase) == call' = [call EXCEPT ![k].phase = phase]

\* clusterClient finds the Cluster in the config, or the call fails.
StartChecks(k) ==
  /\ call[k].op = "start" /\ call[k].phase = "sent"
  /\ Answer(k, IF call[k].cluster \in clusters THEN "checked" ELSE "failed")
  /\ UNCHANGED <<service, events, asked, snapshots, ui, acts>>

\* The session is registered and its goroutine started; only a Terminal is announced before the answer.
StartRegisters(k) ==
  /\ call[k].op = "start" /\ call[k].phase = "checked" /\ started < MaxSessions
  /\ LET id == started + 1
         terminal == call[k].src.kind = "terminal"
     IN  /\ started' = id
         /\ source' = [source EXCEPT ![id] = call[k].src]
         /\ registered' = registered \cup {id}
         /\ run' = [run EXCEPT ![id] = IF terminal THEN "running" ELSE "starting"]
         /\ call' = [call EXCEPT ![k].phase = "answered", ![k].id = id]
         /\ IF terminal THEN Emit(id, "live") ELSE UNCHANGED events
  /\ UNCHANGED <<clusters, cancelled, asked, snapshots, ui, acts>>

\* The goroutine's first transition.
Connecting(id) ==
  /\ run[id] = "starting"
  /\ run' = [run EXCEPT ![id] = "running"]
  /\ Emit(id, "live")
  /\ UNCHANGED <<clusters, source, started, registered, cancelled, call, asked, snapshots, ui, acts>>

\* It ends on its own: a stream whose pod is gone, or whose previous run was read, stays registered.
Exits(id) ==
  /\ run[id] = "running" /\ id \notin cancelled
  /\ \E st \in Statuses \ {"live"} :
       /\ CASE KindOf(id) = "log" -> st \in {"error", "idle"}
            [] KindOf(id) = "shell" -> st \in {"error", "stopped"}
            [] OTHER -> st = "stopped"
       /\ Emit(id, st)
       /\ run' = [run EXCEPT ![id] = IF KindOf(id) # "log" THEN "done"
                                     ELSE IF st = "error" THEN "failed" ELSE "read"]
  /\ registered' = IF KindOf(id) = "log" THEN registered ELSE registered \ {id}
  /\ UNCHANGED <<clusters, source, started, cancelled, call, asked, snapshots, ui, acts>>

\* It ends because it was stopped.  What a shell's exec still writes may mark it connected once more.
EndsStopped(id) ==
  /\ run[id] = "running" /\ id \in cancelled
  /\ run' = [run EXCEPT ![id] = IF KindOf(id) = "shell" THEN "draining" ELSE "done"]
  /\ registered' = registered \ {id}
  /\ Emit(id, "stopped")
  /\ UNCHANGED <<clusters, source, started, cancelled, call, asked, snapshots, ui, acts>>

LateOutput(id) ==
  /\ run[id] = "draining"
  /\ run' = [run EXCEPT ![id] = "done"]
  /\ Emit(id, "live")
  /\ UNCHANGED <<clusters, source, started, registered, cancelled, call, asked, snapshots, ui, acts>>

\* DeleteCluster lists the sessions to stop under the lock.
DeleteLists(k) ==
  /\ call[k].op = "delete" /\ call[k].phase = "sent"
  /\ call' = [call EXCEPT ![k].phase = "stopping",
                          ![k].todo = {id \in registered : ClusterOf(id) = call[k].cluster}]
  /\ UNCHANGED <<service, events, asked, snapshots, ui, acts>>

\* StopLogs, StopShell, StopTerminal: a session not registered is a no-op; a stream and a shell are forgotten
\* first, a Terminal as it ends.
StopBegins(k, id) ==
  /\ call[k].op \in {"stop", "delete"} /\ call[k].phase = "stopping"
  /\ call[k].id = None /\ id \in call[k].todo
  /\ IF id \in registered
     THEN /\ registered' = IF KindOf(id) = "terminal" THEN registered ELSE registered \ {id}
          /\ cancelled' = cancelled \cup {id}
          /\ call' = [call EXCEPT ![k].id = id]
     ELSE /\ call' = [call EXCEPT ![k].todo = @ \ {id}]
          /\ UNCHANGED <<registered, cancelled>>
  /\ UNCHANGED <<clusters, source, started, run, events, asked, snapshots, ui, acts>>

\* It waits for the goroutine; a stream that had ended on its own is marked stopped here.
StopEnds(k) ==
  LET id == call[k].id
  IN  /\ call[k].op \in {"stop", "delete"} /\ id # None
      /\ run[id] \in {"failed", "read", "draining", "done"}
      /\ IF run[id] \in {"failed", "read"} THEN Emit(id, "stopped") /\ run' = [run EXCEPT ![id] = "done"]
         ELSE UNCHANGED <<events, run>>
      /\ call' = [call EXCEPT ![k].id = None, ![k].todo = @ \ {id}]
      /\ UNCHANGED <<clusters, source, started, registered, cancelled, asked, snapshots, ui, acts>>

\* The last one stopped: a Stop is answered (to no one who acts on it), a Delete forgets the Cluster.
StopReturns(k) ==
  /\ call[k].op \in {"stop", "delete"} /\ call[k].phase = "stopping"
  /\ call[k].id = None /\ call[k].todo = {}
  /\ IF call[k].op = "stop" THEN Done(k) /\ UNCHANGED clusters
     ELSE clusters' = clusters \ {call[k].cluster} /\ Answer(k, "answered")
  /\ UNCHANGED <<source, started, registered, run, cancelled, events, asked, snapshots, ui, acts>>

(* Mutant of StatusOf: a session is told with the service's own step. *)
StepOf(id) == [id |-> id, st |-> run[id]]

\* Statuses() of one kind, for a window that just loaded.
StatusOf(id) ==
  [id |-> id, st |-> CASE run[id] = "failed" -> "error" [] run[id] = "read" -> "idle" [] OTHER -> "live"]

\* An answer is sorted by the sessions' IDs, which are random.
Sorted(S) == {q \in [1..Cardinality(S) -> S] : Elements(q) = S}

StatusesRead(kind) ==
  /\ kind \in asked
  /\ asked' = asked \ {kind}
  /\ \E listed \in Sorted({id \in registered : KindOf(id) = kind}) :
       LET answer == [i \in DOMAIN listed |-> StatusOf(listed[i])]
       IN  snapshots' = snapshots \cup ({answer} \ {<<>>})
  /\ UNCHANGED <<service, call, events, ui, acts>>

-----------------------------------------------------------------------------
(* The window handles an event, a snapshot or an answer. *)

EventArrives ==
  /\ events # <<>>
  /\ ui' = SetStatus(ui, Head(events).id, Head(events).st)
  /\ events' = Tail(events)
  /\ UNCHANGED <<service, call, asked, snapshots, acts>>

SetAll(u, answer) ==
  LET after[i \in 0..Len(answer)] ==
        IF i = 0 THEN u ELSE SetStatus(after[i - 1], answer[i].id, answer[i].st)
  IN  after[Len(answer)]

SnapshotArrives(answer) ==
  /\ answer \in snapshots
  /\ snapshots' = snapshots \ {answer}
  /\ ui' = SetAll(ui, answer)
  /\ UNCHANGED <<service, call, events, asked, acts>>

\* The session that was started is its Cluster's tab at once, whether or not its first event came first.
StartAnswered(k) ==
  /\ call[k].op = "start" /\ call[k].kept /\ call[k].phase = "answered"
  /\ LET id == call[k].id
         src == call[k].src
         placed == IF ui.shown[id] = "none" THEN SetSessionStatus(ui, id, "live") ELSE ui
     IN  IF src.kind = "log"
         THEN /\ ui' = OpenLogTab(ui, id, call[k].replaces)
              /\ call' = [call EXCEPT ![k] = IF call[k].closes = {} THEN Idle
                                             ELSE StopCall(call[k].closes)]
         ELSE /\ ui' = CloseAll(placed, call[k].closes)
              /\ Done(k)
  /\ UNCHANGED <<service, events, asked, snapshots, acts>>

\* The removed Cluster's shells and Terminals leave the store; its streams left as they were stopped.
DeleteAnswered(k) ==
  /\ call[k].op = "delete" /\ call[k].kept /\ call[k].phase = "answered"
  /\ LET gone == {id \in Present(ui) : KindOf(id) # "log" /\ ClusterOf(id) = call[k].cluster}
     IN  ui' = [ui EXCEPT !.shown = [id \in Ids |-> IF id \in gone THEN "none" ELSE @[id]],
                          !.order = Without(@, gone),
                          !.closed = @ \cup gone]
  /\ Done(k)
  /\ UNCHANGED <<service, events, asked, snapshots, acts>>

\* A refused call, or an answer whose window was reloaded: nothing acts on it.
AnswerDropped(k) ==
  /\ call[k].op \in {"start", "delete"}
  /\ call[k].phase = "failed" \/ (call[k].phase = "answered" /\ ~call[k].kept)
  /\ Done(k)
  /\ UNCHANGED <<service, events, asked, snapshots, ui, acts>>

-----------------------------------------------------------------------------

Init ==
  /\ clusters = Clusters
  /\ source = [id \in Ids |-> NoSource] /\ started = 0
  /\ registered = {} /\ run = [id \in Ids |-> "none"] /\ cancelled = {}
  /\ call = [k \in Slots |-> Idle]
  /\ events = <<>> /\ asked = {} /\ snapshots = {}
  /\ ui = EmptyStore
  /\ acts = 0

User ==
  \/ \E src \in Sources : UserStartsLogs(src) \/ UserOpensSession(src)
  \/ \E id \in Ids : UserOpensAgain(id) \/ UserCloses(id)
  \/ \E id \in Ids, src \in Sources : UserPicksContainer(id, src)
  \/ \E c \in Clusters : UserRemovesCluster(c)
  \/ Reload

Service ==
  \/ \E k \in Slots : StartChecks(k) \/ StartRegisters(k) \/ DeleteLists(k) \/ StopEnds(k) \/ StopReturns(k)
  \/ \E k \in Slots, id \in Ids : StopBegins(k, id)
  \/ \E id \in Ids : Connecting(id) \/ Exits(id) \/ EndsStopped(id) \/ LateOutput(id)
  \/ \E kind \in Kinds : StatusesRead(kind)

Window ==
  \/ EventArrives
  \/ \E answer \in snapshots : SnapshotArrives(answer)
  \/ \E k \in Slots : StartAnswered(k) \/ DeleteAnswered(k) \/ AnswerDropped(k)

Next == User \/ Service \/ Window

Spec == Init /\ [][Next]_vars

-----------------------------------------------------------------------------
(* Properties. *)

TypeOK ==
  /\ clusters \subseteq Clusters /\ started \in Nat /\ started <= MaxSessions
  /\ source \in [Ids -> Sources \cup {NoSource}] /\ \A id \in Ids : id <= started => source[id] \in Sources
  /\ registered \subseteq 1..started /\ cancelled \subseteq 1..started
  /\ run \in [Ids -> RunStates]
  /\ call \in [Slots -> Call]
  /\ events \in Seq(EventType) /\ asked \subseteq Kinds
  /\ ui.shown \in [Ids -> Statuses \cup {"none"}] /\ ui.closed \subseteq Ids

\* Every session in the store has exactly one tab of the dock, and every tab has a session: whichever of
\* the first event, the answer of Start and a snapshot comes first, in place of another tab or not.
OneTabEach ==
  /\ Elements(ui.order) = Present(ui)
  /\ \A i, j \in DOMAIN ui.order : ui.order[i] = ui.order[j] => i = j

\* A shell or Terminal the user closed stays closed, whatever transitions of it are still on their way.
ClosedStaysClosed == \A id \in ui.closed : ui.shown[id] = "none"

\* A session is never hidden from the window: while one runs on a Cluster of the config it has a tab, or
\* the user closed it, or an event, an answer or a snapshot that will show it is on its way.
Coming(id) ==
  \/ run[id] = "starting"
  \/ \E i \in DOMAIN events : events[i].id = id
  \/ \E k \in Slots : call[k].op = "start" /\ call[k].id = id /\ call[k].kept
  \/ KindOf(id) \in asked
  \/ \E answer \in snapshots : \E i \in DOMAIN answer : answer[i].id = id
NoHiddenSession ==
  \A id \in registered : id \notin cancelled => ui.shown[id] # "none" \/ id \in ui.closed \/ Coming(id)

\* A shell or Terminal shown as live runs, or its end is on its way to the window.  A shell that was hung up
\* is left out: its late output may announce it once more to a window loaded meanwhile (LateOutput).
Ending(id) ==
  \E i \in DOMAIN events : events[i].id = id /\ events[i].st \in {"stopped", "error"}
NoGhostSession ==
  \A id \in Present(ui) :
     KindOf(id) # "log" /\ ui.shown[id] = "live" /\ ~(KindOf(id) = "shell" /\ id \in cancelled)
     => run[id] \in {"starting", "running", "draining"} \/ Ending(id)

\* A removed Cluster leaves no session behind.  (The code does not keep it: a Start that found the Cluster
\* registers after the sessions were listed.)
DeletedHasNone == \A id \in registered : ClusterOf(id) \in clusters
=============================================================================
