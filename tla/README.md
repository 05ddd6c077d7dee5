# A TLA+ model of Kubereach

Kubereach is a desktop client for Kubernetes clusters that may only be reachable over a chain of SSH servers. A Go
service (`src/internal/service`) owns all state; a React interface (`src/frontend/src`) calls it through bindings and
follows it through events. The service keeps many goroutines per object, two kinds of locks (`s.mu` for the registries
and the config file, `rc.mu`, `fc.mu`, ... for one object), and emits most events after unlocking. Nearly everything
that can go wrong is a matter of which of these goroutines gets there first.

Run `tlc -config X.cfg M` for the runs and `tlapm M.tla` for the proofs listed below, in this directory.

## 1. Inventory

| Component | State it keeps | Operations | Talks to |
|---|---|---|---|
| Route (`route.go`) | `s.routes[id]`: one `routeConn` per connected Route with its goroutine `runRoute`; status, pending host key, clients, `closed` channel; `known_hosts` | `ConnectRoute`, `StopRoute`, `AnswerHostKey`, `DeleteRoute`, `checkLink`, dialing, keepalive, retry | forwards and clusters dial through it; resets their watches; emits `route:state`, `route:hostkey` |
| Forward (`forward.go`) | `s.forwards[id]`: a `forwardConn` with listener, pod connection, users, idle timer, status | `SaveForward`, `SetForwardEnabled`, `BindForwards`, `DeleteForward`, accept, dial, release, drop, fail | dials through the Cluster's client; calls `checkLink`; emits `forward:state` |
| Watch cache (`watch.go`) | informers per kind, forbidden keys, why the Cluster is down, pending announcements | `list`, `reset`, `forbid`, `setDown`, `changed`, `stop` | reset by the Route, released with the Cluster's client; emits `cluster:changed` |
| Cluster clients (`cluster.go`) | `s.kubes[id]`: client, transport, watch cache, stamp of the kubeconfig | `clusterClient`, `DeleteCluster`, reads | reads remote kubeconfigs over the Route; every other component asks it for a client |
| Remote kubeconfig (`remote.go`) | per `routeConn`: kubeconfigs read, reads in progress | `readKubeconfig`, sudo, embedding of files | Route's last SSH client |
| Log streams (`logs.go`) | `s.logs[id]`: followers per pod, open bodies, terminating pods, status, batches | `StartLogs`, `StopLogs`, join, leave, follow, reconnect | emits `logs:state`, `logs:lines` |
| Event streams (`events.go`) | `s.events[id]` | `StartEvents`, `StopEvents` | emits `events:state`, `events:batch` |
| Shells (`shell.go`), Terminals (`terminal.go`, `terminalproxy.go`) | `s.shells`, `s.terminals`: process or exec session, resize queue, tail of the output, a local proxy | start, write, resize, stop | emit output and state |
| Config (`config.go`, `service.go`, `transfer.go`, `sshconfig.go`) | one JSON file, rewritten under `s.mu` | save and delete Clusters, Routes, Forwards; import, export | every component loads it |
| Lifecycle (`lifecycle.go`) | none | `Shutdown` | stops everything registered |
| Writes (`yaml.go`, `actions.go`) | none; the objects of the Cluster | `EditYAML`, `DiffYAML`, `ApplyYAML`, restart, scale, roll back, run now, suspend, cordon, delete | the API server |
| Window: events and store (`main.tsx`, `store.ts`, `queries.ts`) | statuses by id, host key prompts, tabs, the place, query cache | event handlers, reads, snapshots at start | service calls and events |
| Routes page, sidebar (`routes.tsx`, `sidebar.tsx`) | the request to connect, the credential dialog, forms, the importer | connect, save, delete, import | `ConnectRoute`, `SaveRoute`, `ImportRemoteCluster` |
| Overview (`cluster-overview.tsx`, `targets.tsx`) | lists as they landed, filter, kind, folds | pick a scope, filter, fold | the lists, `SetNamespaces` |
| Details (`yaml-view.tsx`, `actions.tsx`, the details) | the detail's read, the editor with its draft and diff, confirmations | edit, review, apply, act | the writes |
| Dock (`shell.tsx`, `terminal.tsx`, `logs.tsx`) | tabs per Cluster, terminals with their output and keys waiting | open, close, type, restore after a reload | streams, shells, Terminals |
| Forwards tab (`forwards.tsx`) | rows, the dialog that adds, failures of mutations | switch, save, delete, add | `SaveForward`, `SetForwardEnabled`, `DeleteForward` |
| Navigation (`history.ts`, `commands.ts`, `key-owner.ts`, `palette.tsx`, `inspector.tsx`) | places, the walk over rows, the palette's choice | back, forward, walk, run a Command | the store |
| Read-only views (`diagnose.go`, `nodes.go`, `rollout.go`, ...) | none | rows from API objects | watch cache |

What makes each of them correct:

- Route: one run at a time; no SSH connection leaked or handed out incomplete; the answer to a host key never blocks
  the lock; a check of an old connection never ends a new one; stopping always ends; the interface shows the last state
  and asks exactly the questions that are open; a Route in use is not deleted.
- Forward: no pod connection leaked or doubled; the user count is exact, so that the idle timer closes what nobody uses
  and nothing else; goroutines of an earlier bind or an earlier pod connection never disturb the present one; switching
  off ends everything.
- Watch: a stopped informer announces nothing; a change is always announced in the end; a dead Cluster never shows its
  last state; a forbidden kind is not started again.
- Clients: a deleted Cluster has no client, session or forward left; a changed kubeconfig is not served by an old client.
- Config: no dangling reference; a target's port is forwarded once.
- Writes: nothing another writer did is replaced unseen, and the user's own last write is what is shown.
- Sessions: each has one tab, none is hidden from the window, a closed one stays closed; output is drawn whole and in
  order, keys arrive as typed.
- Routes page: a password typed for one server is never sent for another; what is added is what was picked.
- Overview: the rows are of one scope, nothing is out of reach, and an empty list has a reason.
- Navigation: the place the user is at is what is shown, one back undoes a walk, and a key has one taker.
- Lifecycle: after `Shutdown` nothing runs.

## 2. Plan

| Order | Module | Abstract specification, composition | State |
|---|---|---|---|
| 1 | `Route`, `Forward` | the core, each with the part of the interface that follows it | checked, safety and liveness; proved |
| 2 | `Watch` | the watch cache composed with the reads of the interface | checked, safety and liveness; proved |
| 3 | `Dock` | the registries of sessions composed with the window's tabs | checked; proved |
| 4 | `Editor` | implements `Guarded` | checked; the refinement proved |
| 5 | `Overview` | lists, scope and rows | checked; proved |
| 6 | `Connect` | the Routes page, `ConnectRoute`, the import | checked; proved |
| 7 | `Nav` over `Keys` | the store, the history and the keys | checked; proved |
| 8 | `Ports` | `SaveForward` and its relatives with the tab that calls them | checked; proved |
| 9 | `Screen` | output and input of one session with its terminal | checked; proved |

What is left out of the plan, and why, is in section 7.

## 3. The modules

`Route.tla` models one Route. A *run* is a `routeConn` with its goroutine; the state keeps all runs that were ever
started because earlier ones may still act. `pc[r]` is the step of `runRoute`; an action is a critical section, a
channel operation or an emit, in the code's order, so whatever the code leaves between an unlock and an emit is
left between two actions. `Callers` are goroutines serving API calls: `ConnectRoute` and
`DeleteRoute` are split at the points where they give up `s.mu`, and a `DeleteRoute` whose save fails has already
deleted the entry of `s.routes`: a run it took out alive is remembered in `forgotten`. `Checkers` are `checkLink` calls;
`fresh` and `held` record of each whether the channel and the clients it took are still the run's. `shown`, `prompts`,
`busy`, `answer` and `awaited` are the interface: `main.tsx` on `route:state` and `route:hostkey`, and `HostKeyDialog`,
which may be closed (a rejection) while an answer is in flight. The state shown has two writers, the events and the
snapshot of `Statuses()` each window asks for while it loads; `snap` says how far that snapshot is and whether an event
of a later state came before it was put.

| Code | Actions |
|---|---|
| `runRoute` start, `dialRoute`, its failures | `RunStarts`, `DialServer`, `DialFails`, `DialedButStopped` |
| the chain is up: `rc.closed`, `setClients`, `setRouteState` | `OpenLink`, `Publish`, `Connected` |
| `runRoute` select while connected | `LinkBreaks`, `Unpublish`, `CloseClients` |
| unknown host key | `AskHostKey`, `UserAnswers`, `AnswerHostKey`, `HostKeyAnswered`, `AnswerSettles` |
| waiting and retrying, `close(rc.done)` | `StopWaiting`, `Redial`, `RunEnds` |
| `setRouteState` | `SetRouteState` and then `EmitState` |
| a window that loads, `RouteService.Statuses()` | `Reload`, `SnapshotRead`, `SnapshotLands` |
| `checkLink` | `CheckStarts`, `CheckAnswered`, `CheckFoundDead` |
| `ConnectRoute`, `StopRoute`, `DeleteRoute`, `Shutdown`, `SetClusterRoute` | `ConnectRoute`, `ConnectRefused`, `RegisterRun`; `StopRoute`, `StopReturns`; `DeleteRoute`, `DeleteStops`, `DeleteFinishes`; `Shutdown`, `ShutdownStops`, `ShutdownReturns`; `SetClusterRoute` |

Abstracted: a dial is a success or one of the failures `runRoute` tells apart; the channel `closed` of capacity three is
one bit (`broken`: a reason is waiting); credentials and the backoff's length are left out. The two locks
`AnswerHostKey` takes one after the other are one action: a run replaced in between has ended, and then its `pending`
has no effect. `Shutdown` starts when no other call is in progress and none starts afterwards, as it is called from
`OnShutdown` once the windows are gone (`main.go:61`).

`Forward.tla` models one Saved Forward. A *bind* is a `forwardConn`, a *local* an inbound TCP connection with its
`serveForward` goroutine, a *link* a SPDY connection to a pod. `pc[l]` is the step of `serveForward`, `watch[c]` of the
goroutine waiting on the link's `CloseChan`, `fired[b]` counts idle timers whose function has started and not run
(`Stop` cannot recall it). `due[x]` is a status copied under `fc.mu` and not yet emitted.

| Code | Actions |
|---|---|
| `bindForward`, `unbindForward` | `BindForward`, `UnbindForward` |
| `acceptForward`, `forwardConnection` | `AcceptForward`, `JoinConnection`, `StartDial`, `DialFails`, `DialSucceeds`, `DiscardConnection`, `PublishConnection`, `ReportConnected` |
| `serveForward`, `failForward`, `releaseForward` | `ServeEnds`, `FailForward`, `CloseFailed`, `ReleaseForward` |
| the idle timer | `IdleFires`, `IdleRuns` |
| `dropForward` | `LinkEnds`, `DropForward`, `ReportIdle`, `EmitIdle` |
| `updateForward` | `UpdateForward` in the caller's action and then `EmitLocal` or `EmitIdle` |

`Watch.tla` composes the watch cache of one Cluster with the queries that read through it. A *key* is a list with its
announced kind; an *informer* is a `watchedKind` with its reflector, of which `step[i]` says whether it is listing,
opening a watch, watching, or about to call `changed`. `fetch[q]` is where the interface's read of q is: asked (the call
has not reached the cache), polling an informer, refused and about to `forbid`, listing without a watch, answered, or
idle with a result on screen (`shown[q]`). An announcement travels from `saying` (between `setDown`'s unlock and its
`changed`) over `pending` (the timer runs) and `sent` (emitted) to a new read. The contents of a list are a version
number, so stale data is a version other than the Cluster's.

| Code | Actions |
|---|---|
| `list` | `Joins`, `Starts`, `OtherStarts`, `ListsDown`, `ListsForbidden`, `Polls` |
| `start`: the reflector and its callbacks | `Lists`, `Replaces`, `Opens`, `Delivers`, `WatchEnds` |
| `changed` and its timer, `cluster:changed` in `main.tsx` | `Tells`, `Coalesced`, `EventArrives` |
| `keepAlive`, `setDown` | `Probe`, `ProbeUnanswered`, `ProbeAnswered`, `ProbeRefused`, `Says` |
| `forbid`, the rest of `ListNamespaces` | `Forbid`, `PlainList` |
| `setRouteState` with `reset`, `route:state` in `main.tsx` | `RouteChanges`, `RouteResets`, `RouteEmits` |
| `SetNamespaces`, `clusterClient`, `stop`, the mutation's `onSettled` | `EditCluster`, `Release`, `EditSettles` |
| `RenameCluster` or a rewritten kubeconfig | `Redefine`, only in `RedefiningSpec` |
| `CheckReachability` | `CheckReachability`, `ReachAnswered` |
| the query cache | `Refetch`, `RouteIsDown`, `Shows` |

Abstracted: client-go's reflector lists and watches, retries either after an error, and tells its handlers of every
change after the first list; one reflector stands for those of all namespaces of a key; the last poll and the read of
the stores are one step. TanStack Query's `invalidateQueries` gives up the read in progress and starts another only for a
query that has data. One that has none, because this is its first read or every read failed, joins the read in progress
(`FirstReads`), whose answer then counts as the new one. `loaded` holds the queries with data, `missed` those whose last
read was joined too late to be of the time after the announcement. A cancelled informer does nothing that anybody sees and is put back to
its initial state, to be used again once no read polls it. Whether a Cluster has a Route is fixed within a behaviour.
`Redefine` is kept out of `Next` because the code does not keep `ShownIsWatched` under it (section 6, item 10).

`Dock.tla` has the sessions of the service (log streams, shells, Terminals) and their tabs. A call of the window is a
record in a slot: sent, served in as many steps as it takes `s.mu`, answered. Answers overtake each other and the
events; events keep their order. A reload empties the store and asks the service for its sessions.

| Code | Actions |
|---|---|
| start (`StartShell`, `StartLogs`, `StartTerminal`) and its callers | `UserStartsLogs`, `UserPicksContainer`, `UserOpensSession`, `UserOpensAgain`; `StartChecks`, `StartRegisters`; `StartAnswered` |
| the session's goroutine | `Connecting`, `Exits`, `EndsStopped`, `LateOutput` |
| stop, `DeleteCluster` | `UserCloses`, `UserRemovesCluster`; `DeleteLists`, `StopBegins`, `StopEnds`, `StopReturns`; `DeleteAnswered`, `AnswerDropped` |
| events, `Statuses()` at start | `EventArrives`; `Reload`, `StatusesRead`, `SnapshotArrives` |

`Screen.tla` follows one such session further: what it writes is kept in its tail and emitted chunk by chunk (`Keeps`,
`EmitsChunk`), drawn (`HandlesEvent`), and after a reload drawn again from the tail with live output waiting
(`HandlesStatuses`, `ShellTail`, `RestoreSession`). Keys are sent by calls that the service serves in any order
(`UserTypes`, `WriteShell`, `WriteEnds`). Events emitted while a window loads are lost. A Terminal behaves as a Shell here.

`Editor.tla` has one object of a Cluster, its detail, the YAML editor and the write actions. A handler that makes two
requests is two actions (`ReviewReads` and `ReviewDryRuns`, `ApplyReads` and `ApplyUpdates`, `RollbackReads` and
`RollbackPatches`), with others' writes, status changes and rollouts in between (`OthersWrite`, `StatusMoves`, `Rolls`),
and an answer may be lost (`Lost`). The object's `ed` counts what the code can tell apart by uid, generation and
annotations; `rv` is the resourceVersion, which a status change moves too. A draft has a line with its resourceVersion,
which the user may take out (0) or replace by the object's own; `EditedObject` sends that line, or the live object's
resourceVersion when only the status changed since the text was loaded. At most one call of each kind is in flight. The
detail's read is invalidated as in `Watch`: its first read is joined (`loaded` and `missed` of `fetch`).

`Guarded.tla` is what that promises: each write after a confirmation of its own, a guarded one only while the object is
the edition it is based on. A rollback is guarded, and so is the Apply of a text that carries the resourceVersion it was
loaded with; the Apply of one that does not is `Override`, confirmed as well but not guarded. `NeverOverwrites` is the
refinement `G!Spec`; `basis` and `waiting` are the mapping.

`Overview.tla` has the lists the Overview is drawn from, each asked, read and landed on its own (`Asks`, `Reads`, `Lands`,
`ConfigLands`), the scope with its saves in their order (`UserPicksScope`, `SaveStarts`, `SetNamespaces`, `SaveSettles`,
`SaveEnds`) and the rows, worked out by `Rows` with filters, kinds, children and folds. `Render` is part of each step.
The scope can be changed before the lists are there: a list whose first read is under way when a save settles is joined
(`JoinedReads`), and what it then shows is marked `joined`.

`Connect.tla` has the Routes page, the connector that runs every Connect and asks for missing secrets, the form, the ways
a Cluster gets its Route and the dialog that adds a Cluster from a server. A password is called as its server is, so a
wrong one is one of another server. Only `Servers` that take a password ask; one that signs in with the agent is one
whose password is known. Host keys and the dial itself are in `Route`.

| Code | Actions |
|---|---|
| `RouteConnector`, `ConnectRoute`, `StopRoute` | `UserConnects`, `UserDisconnects`, `RunsRequest`, `LoadsRoute`, `StartsDial`, `StopsRoute`, `Answered`, `Dials`, `LinkDrops` |
| the credential dialog | `UserTypes`, `UserSubmits`, `UserClosesCredential` |
| the form | `UserOpensForm`, `UserClosesForm`, `UserSaves`, `UserDeletes`, `SaveRoute`, `DeleteChecks`, `DeleteStops`, `DeleteRemoves`, `JobFails`, `JobDone` |
| `SetClusterRoute` and its callers | `UserSetsRoute`, `SetClusterRoute`, `RouteIsSet` |
| `RemoteImportDialog`, `ImportRemoteCluster` | `UserOpensImporter`, `UserPicksRoute`, `UserRetries`, `KubeconfigRead`, `UserOnSudo`, `UserPicks`, `UserAdds`, `ImportReads`, `ImportSaves`, `AddAnswered`, `UserClosesImporter` |
| the config's query | `ConfigReads`, `ConfigLands` |

`Keys.tla` says who gets a key: the catalog of Commands with their keys on either platform, the element that has the
focus, and `Claims`, the Commands that would take a key at a spot. `Nav.tla` runs them: the store's Cluster, view and
detail, the history with its walk, the palette, the tray and the removal of a Cluster. Digits 1 and 9 stand for 1 to 9.
Commands handled by Wails, Base UI or one element are left out, but their keys are reserved as in the code.

`Ports.tla` has the Saved Forwards, the ports that are bound or taken by other programs, the tab's rows and its dialog.
A mutation whose callback returns the refetch's promise is pending until that has landed; a refetch that is asked for
again starts over, since the tab is drawn once the config is there, and whoever awaited the first awaits the second. Equal calls at once are one. Whether a bound port works is in
`Forward`; reads of the config succeed.

| Code | Actions |
|---|---|
| `SaveForward`, `SetForwardEnabled`, `DeleteForward` | `Served` with the operator of that name |
| the row's mutations | `UserSwitches`, `UserEdits`, `UserSavesPort`, `UserTakesFree`, `UserOpensDelete`, `UserDeletes`, `UserKeeps`; `Answered` with `Switched`, `PortSaved`, `Removed` |
| `AddForward` | `UserOpensAdd`, `UserPicksTarget`, `UserTicks`, `UserTypes`, `UserTakesOther`, `UserAdds`, `UserClosesAdd`; `Answered` with `Added` |
| the config, other programs | `ConfigReads`, `ConfigLands`, `OtherProgram` |

The `MC` modules add symmetry, the instances of `Dock` and `Overview`, and the scenes of `Route_safety` and `Watch`: a
scene is chosen at the start of a behaviour and leaves out what the other scenes are about. An operator whose comment begins
with "Mutant of" is a plausible bug of the operator it names; no specification uses it.

## 4. The runs

| Run | Instance | Checks | Shows |
|---|---|---|---|
| `Forward` | 2 locals, 2 links, 2 binds, fair | `NoOrphanLink`, `OneOpenLink`, `LiveLinkIsKept`, `IdleLinkCloses`, `OffEndsAll` | pod connections are neither leaked nor doubled nor taken from their users; off ends everything |
| `Route_safety` | 2 callers, 1 checker, 2 answers, 2 SSH servers, 2 runs, 3 windows, in 3 scenes | `OneRun`, `ClientsAreHeld`, `ConnectedMeansClients`, `ShownIsCurrent`, `PromptIsLive`, `CheckOwnLink` | the safety of a Route |
| `Route_live` | 2 callers, 1 answer, 1 SSH server, 1 run, fair | `CallsReturn` | stopping, deleting and shutting down always return |
| `Watch` | 1 key that may be read without a watch, 2 informers, 3 versions, in 2 scenes | `RunningIsRegistered`, `ShownIsWatched`, `ReachableIsNotDown` | whatever is on screen is somebody's to replace; no informer leaks |
| `Watch_live` | 1 key, 1 informer, 2 versions, direct, fair | `EndsCurrent` | a Cluster that answers for good ends up shown as it is |
| `Dock` | 1 Cluster, 2 streams, a shell, a Terminal; 2 sessions, 2 calls, 3 acts | `OneTabEach`, `ClosedStaysClosed`, `NoHiddenSession` | a session has one tab and none is lost, whatever overtakes what |
| `Screen` | 3 chunks, 3 keys, 2 windows | `OutputInOrder`, `OutputIsWhole`, `TerminalGoes`, `KeysInOrder` | output survives a reload, keys keep their order |
| `Editor` | 2 templates, 2 settings, 5 acts | `OwnWriteShown`, `NeverOverwrites` | no unseen change is replaced; the own write is shown |
| `Overview` | a CronJob, its Job and pod, a Secret in another namespace; 3 acts | `NothingLost`, `EmptySaysWhy`, `RowsOfOneScope` | rows are of one scope and complete |
| `Connect` | 2 Routes of 1 or 2 servers, 1 Cluster, 5 acts | `TypeOK`, `TypedForTarget`, `ClusterRouteExists`, `PickKept` | what is typed for a server is sent in a call for that server, no Cluster loses its Route, a pick is not carried over |
| `Nav` | 2 Clusters, 2 pods and a node, 3 places, 7 acts, macOS | `TypeOK`, `PlaceShown`, `WalkUndone`, `OneTaker` | history and keys |
| `Ports` | 2 targets of 2 ports, 3 forwards, 3 local ports, 4 acts | `TypeOK`, `OneForwardEach`, `RowsAreSaved`, `RetryAddsRest` | one forward per port, rows that agree, a retry that adds the rest |

The type invariants of `Forward`, `Route`, `Watch`, `Editor`, `Dock` and `Overview` are proved, so their runs do not list them.

Bounds. Two locals let one dial while another waits, and one fail on a link while another redials; two links are an old
one and its successor; two binds are an old one whose goroutines are still running and its successor. In Route, two
SSH servers have a first hop that must be closed when the second fails, and two different unknown keys; two runs are a
stopped one and its successor; two callers are enough for every race between two calls. Three scenes keep it small: in
`chain` calls come one after another and there is one window, in `calls` two of them overlap and nobody answers a host
key, in `window` it loads up to twice more, calls come one after another and there is no link check. In Watch, two
informers are a cancelled one that a read still polls and its successor, and three versions are what the first read
brought, what it missed and what comes later; the check of reachability has a scene of its own, of a direct Cluster with
one informer at a time and lists that do not change, because no step of a list looks at what it says. Keys meet only in
the sets `pending`, `sent`, `saying` and `downKinds`, and the proofs cover any number of them. The bounds `MaxBinds`,
`Links`, `MaxRuns` and `MaxVersion` only limit how often something new begins; the proofs below have no bounds.

In the modules of the window `MaxActs` bounds what the user and the outside do; what the program does about it is not
bounded. Three acts of `Dock` are a start, its replacement or close, and a reload; two sessions are the one that is
replaced and its successor. Three of `Overview` are two picks of a scope with a filter, a kind, a fold or a change of the
Cluster; its Job runs at first. Five acts of `Editor` are the edit, its review and its Apply or the two steps of an action,
with one or two changes by others between. Five of `Connect` are two Connects with a password typed in between, or a form, its
Save or Delete, and an attachment. Seven of `Nav` are a walk of two rows, a removal and two steps back; `MaxPlaces`, 50
in the code, is small so that places are dropped; `OneTaker` looks at the Commands of both platforms at once. Four of `Ports` are
a choice, an Add that fails half way, a change and a retry; the third local port is the one handed out when two
are used. The second window of `Screen` is a reload, three chunks are one before, one during and one after it.
Deadlock is not checked: with the bounded numbers used up, or a user who does nothing, the system legitimately rests.

Fairness. A goroutine that can run does; dials end (10 s per SSH server, `forwardDialTimeout` per pod); timers fire.
Taking `fc.dial` is strongly fair, since Go hands a mutex over in order once a waiter starves. In Watch the
reflectors, the timers, the keepalive and the reads run, and `Release` happens because reads in progress and the
repeating metrics query call `clusterClient`. Nothing is assumed of the user, of new calls, of inbound connections, or of
the network ending or keeping a connection; `EndsCurrent` is about Clusters that in the end answer steadily. The
other modules state safety only and need none.

## 5. The proofs

All theorems are for arbitrary constants under the named assumptions (`RouteAssumption`: finitely many callers, at least
one SSH Server, at least one run; `ForwardAssumption`: finitely many locals, locals and links distinct, at least one
bind; `ConnectAssumption`: a Route and a server, and the values that stand for none are neither; `PortsAssumption`: ids
1 to some number, finitely many ports of a target; `DockAssumption`: the shape of the sources, and bounds that are
numbers; `OverviewAssumption`: only pods, Jobs and autoscalers have owners, in their own namespace, a Job a CronJob and an
autoscaler a Deployment, as `targets.tsx:205-255` builds them; `NavAssumption`: objects are numbered, and at least two
places are kept). Each invariant was first checked by TLC on the instance of its run.

A component has its theorems in a module of its own, but `ClusterProofs` holds those of Watch and Overview (what is read
of a Cluster and what is drawn of it) and `WindowProofs` those of Screen and Nav (what the window draws of a session, and
where its user is). Names of theirs that would clash say whose they are: `OverviewSpec`, `NavSpec`.

`ForwardProofs` proves `Spec => []IndInv`. The safety invariants are not inductive alone: a local that has dialed must
still be the only one to hold its link (`Hands`), a link that a bind uses or that is watched must belong to it (`Conns`,
`Owners`), at most one local of a bind is inside `fc.dial` (`OneDial`) and while it is dialing no link of the bind is
open elsewhere (`DialsAlone`), a status waiting to be emitted belongs to a step that emits (`DueStates`), and a bind not
yet made is in its initial state (`FreshBinds`). From it: `NoLeakedLink`, `OneLinkAtATime`, `ActiveIsCount`,
`StoppedStays`, `ErrorHasNoLink`, and the action properties `IdleTimerSparesUsers` and `LiveLinkStays`. Counting users
rests on the library's facts about `Cardinality` (`CountUp`, `CountDown`).

`RouteProofs` proves `Spec => []IndInv` with `Chain(r)`, which ties the step of a run to its connections, its published
clients and its recorded state, `Prompted(r)`, which ties `pending`, the answer channel and the SSH Server asked about,
`Checked(k)`, which ties what a check took to the run's connection, `SnapIsCurrent`, which says of a snapshot on its way
that it holds the state shown last unless an event overtook it, and `FreshRuns`. The lemma `RunMovesLemma` says once how any step moves a run, which most of the other parts use. From
it: `OneRunAtATime`, `AnswerNeverBlocks`, `NoLeakedConnection`, `ConnectedHasClients`, `InterfaceIsCurrent`,
`DialogIsLive`, `NoDanglingRoute`, `EventClearsAnswered`, `ChecksKeepToTheirLink`. Two of them name what they except:
`OneRunAtATime` a run that a `DeleteRoute` forgot, `InterfaceIsCurrent` such a run and a snapshot that came after a later
event (section 6, items 3 and 4).

`ClusterProofs` proves `Spec => []IndInv` of Watch for any keys, informers and versions (`WatchAssumption`: "reachability" is no
key, `NoInformer` no informer, at least one version). `ShownIsWatched` is not inductive: it needs the same of an answer
on its way (`AnswerIsWatched`), a new read for who polls a cancelled informer (`CancelledIsTold`), that a poll is of an
informer of its own key or a cancelled one (`PollsItsOwn`), that only a forbidden key is read without a watch
(`PlainIsForbidden`), and that once an edit settled no read knows the outdated client (`OutdatedIsTold`). The argument
is in `ToldStays` and `StandsStays`: whoever was about to be told, and whatever result stood, still is after any step,
unless a new read begins or the announcement was joined (`Renewed`). What was joined stays exempt for no longer than its
answer is on screen: `MissedLasts` follows it until a read begins that the announcement did not find under way. From it: `NoLeak`, `StaysStopped`, `ScreenIsWatched`, `DeadIsNotReachable`.

Of the Overview it proves three invariants for any objects, words and scopes. `RowsAreOfOneScope` is inductive with
`FetchInv`: a list that landed, or was read, is of the saved scope, unless a save was written that will have every list
asked for again; what is due then is not idle, and a first read that this joins is marked. So when all lists have landed and no save is left, they agree, and that is
when `Render` takes them. `NothingIsLost` and `EmptyAlwaysSaysWhy` are about the rows alone, whatever the lists hold.
The first follows whom an object is under: an owner that is listed runs (`OwnersRun`, which needs that only pods finish
with their owner), there are two above an object at most (`UpIsOpen`), and of these the topmost one that is folded is a
row (`FoldedBehindARow`).

`EditorProofs` proves `Spec => []IndInv` for any templates and settings, and from it `OwnWriteIsShown` and
`EditorImplementsGuarded`. That no write replaces what its writer did not see rests on a resourceVersion naming one
edition: whoever holds the object's own resourceVersion holds its last edition (`Old`, `ApplyHolds`, `RollbackHolds`), and
a text that keeps the line it was loaded with (`Keeps`) sends no other. That the user's own write is shown rests on the
query in flight having read it too, unless it is a first read that was past the Cluster (`FetchIsNew`). The refinement is
step by step (`StepRefines`): each action of Editor is a step of Guarded or leaves `spec`, `edition`, `basis`, `waiting`
and `outside` alone.

`WindowProofs` proves four invariants of Screen for any number of chunks, keys and windows. `NoLateTerminal` rests on every event
saying something (`EventsSay`): a status always names a state, so no event takes a session from the store without its
terminal. `KeysArriveInOrder` rests on one write of a window being in flight (`OneWriteEach`): all of what was received
comes before the keys of a write not yet served (`WriteInOrder`), and those before what waits for its answer
(`WaitInOrder`). `OutputIsInOrder` and `AllOutputIsDrawn` rest on `OutputInv`: the chunks on their way to the window are
consecutive and end with the last one produced (`Flows`), a window that still loads or asks for the tail has it coming
(`Tells`, `Asks`), and what a terminal has drawn is some chunks from before, the tail, and then the chunks from the next
one due on (`DrawnInOrder`, `NothingMissed`). Sequences are joined by the lemmas `OrderedConcat`, `BeforeConcat` and
`ConcatBefore`.

Of Nav it proves `NavSpec => []NavInv` for any Clusters, objects and number of places. `PlaceShown` is not inductive: going
back needs every place kept to be a sound one (`SoundPlaces`: its detail is of its Cluster and in its view), and the
history to point into itself (`HistoryOK`), which `VisitedIs` shows of the code's slice that drops the oldest place.
`WalkUndone` needs that the first row of a walk is a place of its own behind the one it was begun at, though the row may
be beside the list already: `OpenIsShown` says that what is beside the list is what the store has (`RendersIs`), so the
next row differs from it. Each way to move the store has one lemma (`GoesMoves`, `GoesByMoves`, `GoingMoves`,
`WalkMoves`), whoever moves it: key, mouse, palette, tray or a removal. The proof needs two places: with one
(`MaxPlaces = 1`) the place a walk was begun at is dropped by its first row, and TLC finds `WalkUndone` violated; the code
keeps 50. From it: `NavTypeCorrect`, `PlaceIsShown`, `OneBackUndoesAWalk`. `KeyHasOneTaker` (`OneTaker`) needs no
invariant, since it holds whichever Commands are there: it is proved of the catalog. `Owns` says what each Command may
take on a platform, inside the panel or outside it; `CommandsOwn` shows of each of the 29 that it owns its keys,
`TakerOwns` that the Ctrl+Shift keys off macOS add none that is another's, and `OwnerIsOne` that only the two Commands
of Escape own a key together.

`ConnectProofs` proves five theorems for any Routes, Clusters and servers. The types are inductive once a Save carries a
chain and a missing secret has a server (`TypeInv`: `SavesAChain`, `MissesAServer`). `SecretsStayHome` and
`RoutesOfClustersExist` are inductive with these: the first because the dialog is emptied whenever its server changes,
the second because a Delete looks at the Clusters again in the critical section that removes the Route, and an
attachment or an import at the Routes in the one that saves it. `PicksAreKept` is a step property: of all that changes
the importer's Route, only the Save of the Route it creates leaves a pick behind. With a Route on screen at all times
(`Populated`) the importer creates none, and what is added is what was picked (`AddedAsPickedWithRoutes`).

`PortsProofs` proves four theorems for any forwards, targets and ports. `ForwardsAreDistinct` is inductive with the
types alone, since `SaveForward` looks for a twin in the same critical section. `RowsComeTrue` needs that whenever rows
or a read differ from what is saved, a call is in flight that will have the config read again (`RowsFollow`,
`ReadIsOwed`), and that a saved row is on exactly where a port is bound or failed to be (`OnIsBound`).
`RetriesAddTheRest` needs that ids not given out are nobody's (`Known`), that the dialog and a confirmation exclude each
other (`DialogInv`), that no call in flight can take away what the dialog has added (`AddedIsSafe`), and that the rows
show it before the next Add (`AddedIsRead`).

`DockProofs` proves `Spec => []DockInv` for any number of sessions, calls and acts: the types, that calls, events and
snapshots tell only of sessions that were started (`CallSound`, `Announced`, `Answer1`), that a stream is told as
stopped only once it was cancelled, that the store is `Sound`, and `NoHiddenSession`. Each operation of the store has a
lemma saying that it keeps the store sound and hides no session (`ShowSound`, `RemoveSound`, `CloseSound`,
`SetStatusSound`, `SetAllSound`, `OpenLogTabSound`, `ForgetSound`); `StepKeeps` and `ServiceKeeps` say once what a step
has to show beyond that. A reload empties the store, and the session is then `Coming` because its kind is asked for.
From it: `TypeCorrect`, `TabsAreOne`, `ClosedIsClosed`, `NothingIsHidden`.

Two lemmas replace induction over numbers where a proof needs it: `LeastExists` (`LeastOf` in `WindowProofs`), a set of
naturals has a least element (from the library's `WFMin`), and `FoldExists` over it, that a fold over `1..n` exists. The recursive functions of Dock,
`Without` and `SetAll`, are unfolded with them: the least place at which the claim fails contradicts the step.

Only model-checked: liveness (`IdleLinkCloses`, `OffEndsAll`, `CallsReturn`, `EndsCurrent`) and `ENABLED`, which are out
of the prover's reach. Every other property of a run is stated by a theorem.

## 6. Limits of the code met while modelling

Each of these is a state the model reaches because the code does; the property that says so is defined in the
module named, with the words it is taken from, and no run lists it. Adding it to the cfg shows the trace. Three need more
than the cfg has: item 10 the module Watch itself with `RedefiningSpec`, the second prompt of item 5 the module Route with
`Spec` (the scene `window` shows the reload), and item 15 more acts.

1. A row can say connected without a pod connection (`forward.go:600`; `RowTellsLink` of Forward): publishing the
   connection and recording "connected" are two critical sections, and a connection that dies in between is dropped
   first. `forward.go:62-63` says connected "while a pod connection is up".
2. A forward that was switched off can come back to the list (`forward.go:694`; `OffLeavesList` of Forward): statuses are
   emitted after the lock, so an older one can follow "stopped". `store.ts:153` says it "leaves the list".
3. `Shutdown` can miss a Route (`route.go:202`; `ShutdownStopsAll` of Route): a `ConnectRoute` overlapping a
   `DeleteRoute` leaves a run whose entry is deleted. When the save after that fails (`route.go:204`) the Route is still in
   the config and can be connected again, with the first run still there. `lifecycle.go:8` says `Shutdown` returns "once
   all of them are down". `OneRun` says that there is no other way to two runs.
4. The window can show an old state of a Route (`main.tsx:92`; `SnapshotIsCurrent` of Route): the snapshot it asked for
   while it loaded is put after an event of a later state, until the next event. `route.go:323` says `RouteStatuses`
   "returns the current state".
5. A host key question can vanish (`routes.tsx:699`; `WaitingIsAsked` of Route): settling the answer to the first prompt
   removes the second too, and a window that loads anew has none of the prompts. `route.go:62` says the event "asks the UI
   to approve".
6. What was read first can outlive an announcement (`main.tsx:60`; `AnnouncedIsRead` and `NeverAsItLastWas`
   of Watch): a list or a check of reachability without data joins the read in progress instead of starting another. A list
   then stays as it was before the change until the next one, and a first check that was answered before the Cluster went
   down says reachable while it is down. `watch.go` says of the check (`setDown`) that "it never shows a Cluster as it last
   was".
7. For the same reason the detail can show the object from before the user's own write (`actions.tsx:66`; `WriteShown` of
   Editor), when a verb of a row is used while its detail is read for the first time; and rows can be of the scope before
   a save though its spinner is gone (`cluster-overview.tsx:1024`; `FetchedAgain` of Overview), when the scope is picked
   before the lists are there. `cluster-overview.tsx:1016-1017` says a save is pending "until the lists have been fetched again".
8. An Apply can overwrite a change somebody made meanwhile (`yaml.go:133`, `yaml.go:170`; `NeverOverwritten` of Editor): the
   resourceVersion that is sent is the one in the text, and a text without that line is applied without a condition.
   `yaml-view.tsx:126` says such a change is "a conflict, never overwritten".
9. An error on the namespaces can outlast the outage (`cluster.go:279`; `OutageEnds` of Watch): for a role that may list
   but not watch them, the read during the outage neither runs an informer nor reaches `downKinds`. `cluster.go:268-269`
   says of namespaces that "a failure and its recovery, are announced".
10. After a rename the lists on screen can go stale (`cluster.go:458`; `ChangesAreTold` of Watch, under `RedefiningSpec`):
    the next read of anything replaces the client and stops the informers, and only the config is read again.
    `watch.go:21` says `cluster:changed` is emitted "once the watched objects of a Cluster change".
11. A session can outlive its Cluster (`cluster.go:182`; `DeletedHasNone` of Dock): a start that found the Cluster in the
    config registers after `DeleteCluster` has listed the sessions to stop.
12. An ended session can be shown as live after a reload (`main.tsx:97`; `NoGhostSession` of Dock): the snapshot is read
    before its end and handled after the event that told it.
13. What is applied need not be what was reviewed (`yaml-view.tsx:157`; `AppliedAsReviewed` of Editor): typing does not
    cancel a review in flight, whose diff then opens over the changed text. `yaml-view.tsx:125` says nothing is applied
    "before the Cluster's dry run of the change is shown as a diff and confirmed".
14. A request to connect can be dropped (`routes.tsx:145`; `RequestsRun` of Connect): the importer asks for the Route it
    has just created before the window has the config that names it. `routes.tsx:118` says the connector "runs every
    Connect the window asks for".
15. What is added need not be what was picked (`sidebar.tsx:310`; `AddedAsPicked` of Connect): choosing another Route
    drops the pick (`sidebar.tsx:246`), the Save of a Route created in the importer does not. It takes
    ten acts, more than the run has: the form of the Routes page is closed while its Save is in flight, the importer opens
    without a Route and opens its own form, the first Save shows its Route, the importer's Save is sent and its form
    closed, a context is picked on the first Route, and the answer moves the importer to the second. `PickKept` is what
    holds in general.

Smaller ones, which the models contain and no comment of the code rules out. A status change between the read and the
update of an Apply is reported as a conflict; a rollback goes to the revision before the one it read; Run now, retried after
its answer was lost, makes two Jobs (Editor). Any Route's success closes the credential dialog of another (Connect). The
palette opened again before it has closed keeps what was chosen, and a removal answered after the tray selected another
Cluster deselects that one (Nav). Saving a port sends the whole row as drawn, so a switch flipped meanwhile is
undone and a deleted forward comes back; an Add left behind closes a dialog opened since (Ports). A chunk emitted between
the status and the tail is drawn twice, as the code notes at `terminal.tsx:198`, and a session that ends between the two
loses its output (Screen).

## 7. Not modelled

- Event streams (`events.go`): a registry of one stream per Cluster, like those of Dock; two `StartEvents` at once leave
  two streams until the Cluster is removed.
- The followers and batches of a log stream (`logs.go`), the shared read of a remote kubeconfig (`remote.go`): each is a
  sequence of critical sections on one object. The stream and the import around them are in Dock and Connect.
- The proxy of a Terminal, the exec protocol, the pseudo-terminal, sizes of terminals: two Resize calls may overtake each
  other and leave an old size; the next change of the window corrects it.
- The config file, import and export, `ssh_config`, rollout status, diagnosis and the other read-only views: loads and
  saves are single steps under `s.mu`, the rest are functions of data without state of their own.
- Wording, layout, columns, the updater, themes, generated bindings, packaging.
- In Route: the backoff's length, the capacity of the `closed` channel, credentials (the ones of a session are in
  Connect), `TestServer`. In Forward: which pod a target resolves to, `BindForwards` at start. In Watch: which kinds a key
  announces beside its own (pods announce nodes too), the metrics, and a role that may list but not watch
  anything but namespaces, whose list fails and is announced again on every backoff.
- In Overview: an autoscaler whose target is a Job that has succeeded (`OverviewAssumption` has it scale what runs on), and
  the save of `NamespacePrompt`, which does not wait for those of the scope picker. In Editor: revealing a Secret. In Connect:
  more than one save, attachment or import at a time, chains of more than two servers. In Screen: output beyond the 256 KiB of the tail.
