-------------------------------- MODULE Route --------------------------------
(***************************************************************************)
(* One Route (internal/service/route.go): the chain of SSH connections     *)
(* runRoute keeps up, the API calls that start, stop, delete and answer    *)
(* it, the link checks that may end a connection early, and the            *)
(* interface's view of it (main.tsx, store.ts, routes.tsx).                *)
(*                                                                         *)
(* A "run" is one routeConn with its runRoute goroutine.  s.routes holds   *)
(* at most one run for the Route, `registered`; earlier ones may still be  *)
(* in the state.  A caller is a goroutine serving one API call at a time,  *)
(* a checker one that runs checkLink.  A critical section is one action.   *)
(***************************************************************************)
EXTENDS Integers, Sequences, FiniteSets

CONSTANTS
    Callers,    \* goroutines that serve API calls
    Checkers,   \* goroutines that may call checkLink
    Answers,    \* calls of AnswerHostKey the interface may have in flight
    Hops,       \* number of SSH Servers of the Route
    MaxRuns,    \* how many runs are started (a bound of the model)
    MaxLoads    \* how often the window loads anew (a bound of the model)

ASSUME RouteAssumption ==
    /\ IsFiniteSet(Callers)
    /\ Hops \in Nat \ {0}
    /\ MaxRuns \in Nat \ {0}
    /\ MaxLoads \in Nat

Runs    == 1..MaxRuns
Servers == 1..Hops

(***************************************************************************)
(* Where runRoute is:                                                      *)
(*   none       not started                                                *)
(*   starting   about to report "connecting"                               *)
(*   emitting   has set its status, about to emit it and go on             *)
(*   dialing    in dialRoute, hops[r] SSH Servers are connected            *)
(*   dialed     all of them are                                            *)
(*   linked     rc.closed is the new connection's channel                  *)
(*   serving    rc.clients is the new connection, about to say so          *)
(*   up         waits for the connection to end                            *)
(*   dropping, hanging  took the clients away, after a drop or a Stop,     *)
(*              and is about to close them                                 *)
(*   asking     an unknown host key is pending, about to be announced      *)
(*   waiting    waits for the answer                                       *)
(*   backoff    waits before dialing again                                 *)
(*   closing    about to close rc.done                                     *)
(*   done       rc.done is closed                                          *)
(***************************************************************************)
RunSteps == {"none", "starting", "emitting", "dialing", "dialed", "linked", "serving",
             "up", "dropping", "hanging", "asking", "waiting", "backoff", "closing", "done"}

CallSteps == {"idle", "resolving", "stopping", "deleting", "finishing", "shutting", "ending", "down"}

States == {"idle", "connecting", "connected", "reconnecting", "stopped", "error"}

(***************************************************************************)
(* The snapshot of states a window asks for while it loads:                *)
(*   asked      the call has not reached the service                       *)
(*   read       its value is on the way to the window                      *)
(*   overtaken  so it is, and an event of a later state came first         *)
(*   landed     it is in the store, or an event of a later state is        *)
(*   behind     it replaced the state of a later event                     *)
(***************************************************************************)
Snapshots == [stage : {"asked", "read", "overtaken", "landed", "behind"},
              value : States \cup {"none"}]

VARIABLES
    inConfig,   \* the Route is in the config
    used,       \* a Cluster of the config references it
    known,      \* the SSH Servers whose key is in known_hosts
    registered, \* the run in s.routes, 0 for none
    started,    \* how many runs have been started
    forgotten,  \* history: the runs DeleteRoute took out of s.routes alive
    pc,         \* pc[r]: step of runRoute
    state,      \* rc.status.State
    cancelled,  \* the run's context is cancelled
    pending,    \* rc.pending
    asked,      \* the SSH Server whose host key was unknown last, 0 before
    hostKey,    \* the answer in the channel rc.hostKey, "none" when empty
    hops,       \* SSH connections the run holds open
    published,  \* rc.clients is not empty
    broken,     \* a reason waits in rc.closed, which ends the connection
    call,       \* call[k]: step of caller k
    target,     \* target[k]: the run k waits for
    check,      \* check[k]: the run checker k is checking, 0 for none
    fresh,      \* fresh[k]: the channel k took from rc is still the one rc has
    held,       \* history, held[k]: so are the clients
    shown,      \* the Route's state in the interface
    loads,      \* how often the window has loaded anew
    snap,       \* RouteService.Statuses() of the window
    prompts,    \* host key prompts in the interface: their SSH Servers
    busy,       \* the dialog's isPending
    answer,     \* answer[n]: "accept", "reject" in flight, "returned", or "none"
    awaited     \* awaited[n]: the window that sent n is still there

configVars == <<inConfig, used, known>>
regVars    == <<registered, started, forgotten>>
runVars    == <<pc, state, cancelled, pending, asked, hostKey, hops, published, broken>>
callVars   == <<call, target>>
checkVars  == <<check, fresh, held>>
dialogVars == <<busy, answer, awaited>>
uiVars     == <<shown, loads, snap, prompts, dialogVars>>
vars == <<configVars, regVars, runVars, callVars, checkVars, uiVars>>

Alive(r) == pc[r] \notin {"none", "done"}

Init ==
    /\ inConfig = TRUE
    /\ used = FALSE
    /\ known \in SUBSET Servers
    /\ registered = 0
    /\ started = 0
    /\ forgotten = {}
    /\ pc = [r \in Runs |-> "none"]
    /\ state = [r \in Runs |-> "idle"]
    /\ cancelled = [r \in Runs |-> FALSE]
    /\ pending = [r \in Runs |-> FALSE]
    /\ asked = [r \in Runs |-> 0]
    /\ hostKey = [r \in Runs |-> "none"]
    /\ hops = [r \in Runs |-> 0]
    /\ published = [r \in Runs |-> FALSE]
    /\ broken = [r \in Runs |-> FALSE]
    /\ call = [k \in Callers |-> "idle"]
    /\ target = [k \in Callers |-> 0]
    /\ check = [k \in Checkers |-> 0]
    /\ fresh = [k \in Checkers |-> FALSE]
    /\ held = [k \in Checkers |-> FALSE]
    /\ shown = "idle"
    /\ loads = 0
    /\ snap = [stage |-> "asked", value |-> "none"]
    /\ prompts = <<>>
    /\ busy = FALSE
    /\ answer = [n \in Answers |-> "none"]
    /\ awaited = [n \in Answers |-> FALSE]

-----------------------------------------------------------------------------
(* runRoute *)

(* setRouteState up to its Emit: record the status, reset the watches of the   *)
(* Route's Clusters.                                                           *)
SetRouteState(r, s) ==
    /\ state' = [state EXCEPT ![r] = s]
    /\ pc' = [pc EXCEPT ![r] = "emitting"]

(* Where the run goes on once it has emitted its state. *)
After(s) == CASE s = "connecting" -> "dialing"
              [] s = "connected" -> "up"
              [] s = "reconnecting" -> "backoff"
              [] s \in {"stopped", "error"} -> "closing"

(* Mutant of ClearPrompts: removeHostKeyPrompt keeps the Route's prompts. *)
KeepPrompts == UNCHANGED <<prompts, busy>>

(* removeHostKeyPrompt, which takes the dialog away with its mutation. *)
ClearPrompts == prompts' = <<>> /\ busy' = FALSE

(* What an event of state s makes of a snapshot that has not landed, or is behind. *)
Overtakes(s) ==
    snap' = CASE snap.stage = "read" /\ s # snap.value ->
                   [stage |-> "overtaken", value |-> snap.value]
              [] snap.stage = "behind" -> [stage |-> "landed", value |-> "none"]
              [] OTHER -> snap

(* Emit of route:state, and what main.tsx does with it. *)
EmitState(r) ==
    /\ pc[r] = "emitting"
    /\ pc' = [pc EXCEPT ![r] = After(state[r])]
    /\ shown' = state[r]
    /\ Overtakes(state[r])
    /\ ClearPrompts
    /\ UNCHANGED <<configVars, regVars, state, cancelled, pending, asked, hostKey,
                   hops, published, broken, callVars, checkVars, loads, answer, awaited>>

RunStarts(r) ==
    /\ pc[r] = "starting"
    /\ SetRouteState(r, "connecting")
    /\ UNCHANGED <<configVars, regVars, cancelled, pending, asked, hostKey,
                   hops, published, broken, callVars, checkVars, uiVars>>

(* Mutant of LastHop: off by one. *)
PastLastHop(r) == hops[r] = Hops

LastHop(r) == hops[r] + 1 = Hops

(* dialServer succeeds: the next SSH Server's key is known and it let the user in. *)
DialServer(r) ==
    /\ pc[r] = "dialing"
    /\ hops[r] + 1 \in known
    /\ hops' = [hops EXCEPT ![r] = @ + 1]
    /\ pc' = [pc EXCEPT ![r] = IF LastHop(r) THEN "dialed" ELSE "dialing"]
    /\ UNCHANGED <<configVars, regVars, state, cancelled, pending, asked, hostKey,
                   published, broken, callVars, checkVars, uiVars>>

(* Mutant of CloseAll: the clients are dropped without being closed. *)
CloseNone(r) == UNCHANGED hops

(* routeClients.Close *)
CloseAll(r) == hops' = [hops EXCEPT ![r] = 0]

(* dialServer fails: dialRoute closes what it had opened.  A cancelled run     *)
(* stops; an unknown host key is asked about; a refused credential or a        *)
(* changed key is fatal; anything else is retried after the backoff.           *)
DialFails(r) ==
    /\ pc[r] = "dialing"
    /\ CloseAll(r)
    /\ \/ /\ cancelled[r]
          /\ SetRouteState(r, "stopped")
          /\ UNCHANGED <<pending, asked>>
       \/ /\ ~cancelled[r]
          /\ hops[r] + 1 \notin known
          /\ pending' = [pending EXCEPT ![r] = TRUE]
          /\ asked' = [asked EXCEPT ![r] = hops[r] + 1]
          /\ pc' = [pc EXCEPT ![r] = "asking"]
          /\ UNCHANGED state
       \/ /\ ~cancelled[r]
          /\ SetRouteState(r, "error")
          /\ UNCHANGED <<pending, asked>>
       \/ /\ ~cancelled[r]
          /\ SetRouteState(r, "reconnecting")
          /\ UNCHANGED <<pending, asked>>
    /\ UNCHANGED <<configVars, regVars, cancelled, hostKey,
                   published, broken, callVars, checkVars, uiVars>>

(* Stop came while the last dial was finishing. *)
DialedButStopped(r) ==
    /\ pc[r] = "dialed"
    /\ cancelled[r]
    /\ CloseAll(r)
    /\ SetRouteState(r, "stopped")
    /\ UNCHANGED <<configVars, regVars, cancelled, pending, asked, hostKey,
                   published, broken, callVars, checkVars, uiVars>>

(* Mutant of NewChannel: one `closed` channel for all connections of the run. *)
SameOldChannel(r) == UNCHANGED <<broken, fresh>>

(* What is checked over an earlier connection keeps that connection's channel. *)
NewChannel(r) ==
    /\ broken' = [broken EXCEPT ![r] = FALSE]
    /\ fresh' = [k \in Checkers |-> IF check[k] = r THEN FALSE ELSE fresh[k]]

(* The chain is up and nobody has stopped the run: rc.closed is made anew. *)
OpenLink(r) ==
    /\ pc[r] = "dialed"
    /\ ~cancelled[r]
    /\ pc' = [pc EXCEPT ![r] = "linked"]
    /\ NewChannel(r)
    /\ UNCHANGED <<configVars, regVars, state, cancelled, pending, asked, hostKey,
                   hops, published, callVars, check, held, uiVars>>

(* setClients(clients): from here on the chain is used, whatever the state says. *)
Publish(r) ==
    /\ pc[r] = "linked"
    /\ pc' = [pc EXCEPT ![r] = "serving"]
    /\ published' = [published EXCEPT ![r] = TRUE]
    /\ UNCHANGED <<configVars, regVars, state, cancelled, pending, asked, hostKey,
                   hops, broken, callVars, checkVars, uiVars>>

Connected(r) ==
    /\ pc[r] = "serving"
    /\ SetRouteState(r, "connected")
    /\ UNCHANGED <<configVars, regVars, cancelled, pending, asked, hostKey,
                   hops, published, broken, callVars, checkVars, uiVars>>

(* Wait or keepAlive of a connected Route ends: the link is gone. *)
LinkBreaks(r) ==
    /\ pc[r] = "up"
    /\ broken' = [broken EXCEPT ![r] = TRUE]
    /\ UNCHANGED <<configVars, regVars, pc, state, cancelled, pending, asked, hostKey,
                   hops, published, callVars, checkVars, uiVars>>

(* Mutant of ForgetClients: no setClients(nil). *)
KeepClients(r) == UNCHANGED published

(* setClients(nil) *)
ForgetClients(r) == published' = [published EXCEPT ![r] = FALSE]

(* The select of a connected Route: either branch when both are ready.  Nobody *)
(* reads the connection's `closed` channel from here on.                       *)
Unpublish(r) ==
    /\ pc[r] = "up"
    /\ \/ cancelled[r] /\ pc' = [pc EXCEPT ![r] = "hanging"]
       \/ broken[r] /\ pc' = [pc EXCEPT ![r] = "dropping"]
    /\ ForgetClients(r)
    /\ held' = [k \in Checkers |-> IF check[k] = r THEN FALSE ELSE held[k]]
    /\ UNCHANGED <<configVars, regVars, state, cancelled, pending, asked, hostKey,
                   hops, broken, callVars, check, fresh, uiVars>>

CloseClients(r) ==
    /\ pc[r] \in {"hanging", "dropping"}
    /\ CloseAll(r)
    /\ IF pc[r] = "hanging"
       THEN SetRouteState(r, "stopped")
       ELSE SetRouteState(r, "reconnecting")
    /\ UNCHANGED <<configVars, regVars, cancelled, pending, asked, hostKey,
                   published, broken, callVars, checkVars, uiVars>>

(* Emit of route:hostkey, which main.tsx appends to the prompts. *)
AskHostKey(r) ==
    /\ pc[r] = "asking"
    /\ pc' = [pc EXCEPT ![r] = "waiting"]
    /\ prompts' = Append(prompts, asked[r])
    /\ UNCHANGED <<configVars, regVars, state, cancelled, pending, asked, hostKey,
                   hops, published, broken, callVars, checkVars, shown, loads, snap, dialogVars>>

(* The answer arrives.  Accepting appends the key to known_hosts and dials     *)
(* again at once; a file that cannot be written is retried after the backoff;  *)
(* rejecting is fatal.                                                         *)
HostKeyAnswered(r) ==
    /\ pc[r] = "waiting"
    /\ hostKey[r] # "none"
    /\ hostKey' = [hostKey EXCEPT ![r] = "none"]
    /\ asked' = [asked EXCEPT ![r] = 0]
    /\ \/ /\ hostKey[r] = "accept"
          /\ known' = known \cup {asked[r]}
          /\ pc' = [pc EXCEPT ![r] = "dialing"]
          /\ UNCHANGED state
       \/ /\ hostKey[r] = "accept"
          /\ SetRouteState(r, "reconnecting")
          /\ UNCHANGED known
       \/ /\ hostKey[r] = "reject"
          /\ SetRouteState(r, "error")
          /\ UNCHANGED known
    /\ UNCHANGED <<inConfig, used, regVars, cancelled, pending,
                   hops, published, broken, callVars, checkVars, uiVars>>

(* Mutant of Stoppable: the wait for a host key does not look at the context. *)
StoppableInBackoff(r) == pc[r] = "backoff"

Stoppable(r) == pc[r] \in {"waiting", "backoff"}

(* Stop ends a run that waits for an answer or for its backoff. *)
StopWaiting(r) ==
    /\ Stoppable(r)
    /\ cancelled[r]
    /\ SetRouteState(r, "stopped")
    /\ UNCHANGED <<configVars, regVars, cancelled, pending, asked, hostKey,
                   hops, published, broken, callVars, checkVars, uiVars>>

Redial(r) ==
    /\ pc[r] = "backoff"
    /\ pc' = [pc EXCEPT ![r] = "dialing"]
    /\ UNCHANGED <<configVars, regVars, state, cancelled, pending, asked, hostKey,
                   hops, published, broken, callVars, checkVars, uiVars>>

(* Mutant of RunEnds: rc.done is closed before the last state is emitted. *)
RunEndsEarly(r) ==
    /\ pc[r] = "closing" \/ (pc[r] = "emitting" /\ state[r] \in {"stopped", "error"})
    /\ pc' = [pc EXCEPT ![r] = "done"]
    /\ UNCHANGED <<configVars, regVars, state, cancelled, pending, asked, hostKey,
                   hops, published, broken, callVars, checkVars, uiVars>>

(* The deferred close(rc.done). *)
RunEnds(r) ==
    /\ pc[r] = "closing"
    /\ pc' = [pc EXCEPT ![r] = "done"]
    /\ UNCHANGED <<configVars, regVars, state, cancelled, pending, asked, hostKey,
                   hops, published, broken, callVars, checkVars, uiVars>>

-----------------------------------------------------------------------------
(* checkLink, called by a forward whose stream goes unanswered. *)

(* Takes rc.clients and rc.closed in one critical section; no clients, no check. *)
CheckStarts(k, r) ==
    /\ check[k] = 0
    /\ published[r]
    /\ check' = [check EXCEPT ![k] = r]
    /\ fresh' = [fresh EXCEPT ![k] = TRUE]
    /\ held' = [held EXCEPT ![k] = TRUE]
    /\ UNCHANGED <<configVars, regVars, runVars, callVars, uiVars>>

(* The server answered, or sent something lately. *)
CheckAnswered(k) ==
    /\ check[k] # 0
    /\ check' = [check EXCEPT ![k] = 0]
    /\ fresh' = [fresh EXCEPT ![k] = FALSE]
    /\ held' = [held EXCEPT ![k] = FALSE]
    /\ UNCHANGED <<configVars, regVars, runVars, callVars, uiVars>>

(* Mutant of SameChannel: checkLink reads rc.closed again at the end. *)
AnyChannel(k) == TRUE

SameChannel(k) == fresh[k]

(* Nothing came back within quiet: the connection taken at the start is given  *)
(* its reason, unless its channel is full.                                     *)
CheckFoundDead(k) ==
    LET r == check[k] IN
    /\ r # 0
    /\ broken' = IF SameChannel(k) THEN [broken EXCEPT ![r] = TRUE] ELSE broken
    /\ check' = [check EXCEPT ![k] = 0]
    /\ fresh' = [fresh EXCEPT ![k] = FALSE]
    /\ held' = [held EXCEPT ![k] = FALSE]
    /\ UNCHANGED <<configVars, regVars, pc, state, cancelled, pending, asked, hostKey,
                   hops, published, callVars, uiVars>>

-----------------------------------------------------------------------------
(* API calls.  Shutdown comes when the interface is gone: no other call is in  *)
(* progress then, and none begins afterwards.                                  *)
Goes(k, from, to) ==
    /\ call[k] = from
    /\ call' = [call EXCEPT ![k] = to]

ShuttingDown == \E k \in Callers : call[k] \in {"shutting", "ending", "down"}

(* Mutant of IsDone: a run that is cancelled counts as ended. *)
IsDoneOrCancelled(r) == r # 0 => pc[r] = "done" \/ cancelled[r]

IsDone(r) == r # 0 => pc[r] = "done"

(* The s.mu section and the cancel of StopRoute: the caller goes on to wait     *)
(* for the run it found.                                                        *)
CancelRegistered(k) ==
    /\ target' = [target EXCEPT ![k] = registered]
    /\ cancelled' = IF registered = 0 THEN cancelled ELSE [cancelled EXCEPT ![registered] = TRUE]
    /\ UNCHANGED <<configVars, regVars, pc, state, pending, asked, hostKey,
                   hops, published, broken, checkVars, uiVars>>

OnlyCall == UNCHANGED <<configVars, regVars, runVars, target, checkVars, uiVars>>

(* <-rc.done of the run the caller found. *)
Returns(k, from, to) ==
    /\ IsDone(target[k])
    /\ Goes(k, from, to)
    /\ target' = [target EXCEPT ![k] = 0]
    /\ UNCHANGED <<configVars, regVars, runVars, checkVars, uiVars>>

(* ConnectRoute loads the Route, then resolves its credentials without a lock. *)
ConnectRoute(k) ==
    /\ inConfig
    /\ ~ShuttingDown
    /\ Goes(k, "idle", "resolving")
    /\ OnlyCall

(* A credential is missing or wrong, or a run that has not ended is registered. *)
ConnectRefused(k) ==
    /\ Goes(k, "resolving", "idle")
    /\ OnlyCall

RegisterRun(k) ==
    /\ Goes(k, "resolving", "idle")
    /\ IsDone(registered)
    /\ started < MaxRuns
    /\ started' = started + 1
    /\ registered' = started + 1
    /\ pc' = [pc EXCEPT ![started + 1] = "starting"]
    /\ UNCHANGED <<configVars, forgotten, state, cancelled, pending, asked, hostKey,
                   hops, published, broken, target, checkVars, uiVars>>

StopRoute(k) ==
    /\ ~ShuttingDown
    /\ Goes(k, "idle", "stopping")
    /\ CancelRegistered(k)

StopReturns(k) == Returns(k, "stopping", "idle")

(* DeleteRoute: a first check, StopRoute, and the deletion after a second one. *)
DeleteRoute(k) ==
    /\ inConfig /\ ~used
    /\ ~ShuttingDown
    /\ Goes(k, "idle", "deleting")
    /\ OnlyCall

DeleteStops(k) ==
    /\ Goes(k, "deleting", "finishing")
    /\ CancelRegistered(k)

(* Mutant of StillUnused: the second check only looks the Route up. *)
StillThere == inConfig

StillUnused == inConfig /\ ~used

(* delete(s.routes, routeID), whatever run is there by now. *)
Unregister ==
    /\ registered' = 0
    /\ forgotten' = IF IsDone(registered) THEN forgotten ELSE forgotten \cup {registered}

(* The entry goes first.  The save after it may fail, and the Route is then     *)
(* still in the config; a config that cannot be read leaves both as they were.  *)
DeleteFinishes(k) ==
    /\ Goes(k, "finishing", "idle")
    /\ IsDone(target[k])
    /\ \/ StillUnused /\ Unregister /\ inConfig' \in BOOLEAN
       \/ UNCHANGED <<registered, forgotten, inConfig>>
    /\ target' = [target EXCEPT ![k] = 0]
    /\ UNCHANGED <<used, known, started, runVars, checkVars, uiVars>>

(* SetClusterRoute attaches the Route to a Cluster, or detaches it. *)
SetClusterRoute ==
    /\ inConfig
    /\ used' = ~used
    /\ UNCHANGED <<inConfig, known, regVars, runVars, callVars, checkVars, uiVars>>

(* Shutdown lists the registered Routes, then stops each by its ID. *)
Shutdown(k) ==
    /\ \A j \in Callers : call[j] = "idle"
    /\ \A n \in Answers : answer[n] = "none"
    /\ Goes(k, "idle", IF registered = 0 THEN "down" ELSE "shutting")
    /\ OnlyCall

ShutdownStops(k) ==
    /\ Goes(k, "shutting", "ending")
    /\ CancelRegistered(k)

ShutdownReturns(k) == Returns(k, "ending", "down")

-----------------------------------------------------------------------------
(* The host key dialog shows the first prompt.  Its buttons are disabled while *)
(* an answer is in flight; closing it rejects all the same.                    *)
UserAnswers(n, a) ==
    /\ prompts # <<>>
    /\ a = "accept" => ~busy
    /\ answer[n] = "none"
    /\ ~ShuttingDown
    /\ answer' = [answer EXCEPT ![n] = a]
    /\ awaited' = [awaited EXCEPT ![n] = TRUE]
    /\ busy' = TRUE
    /\ UNCHANGED <<configVars, regVars, runVars, callVars, checkVars, shown, loads, snap, prompts>>

(* Mutant of TakePending: the prompt stays pending. *)
LeavePending(r) == UNCHANGED pending

TakePending(r) == pending' = [pending EXCEPT ![r] = FALSE]

(* AnswerHostKey: refused unless a registered run has a prompt pending.  The    *)
(* send is inside rc.mu: it waits, with the lock, while the channel is full.    *)
AnswerHostKey(n) ==
    /\ answer[n] \in {"accept", "reject"}
    /\ answer' = [answer EXCEPT ![n] = IF awaited[n] THEN "returned" ELSE "none"]
    /\ IF registered # 0 /\ pending[registered]
       THEN /\ hostKey[registered] = "none"
            /\ TakePending(registered)
            /\ hostKey' = [hostKey EXCEPT ![registered] = answer[n]]
       ELSE UNCHANGED <<pending, hostKey>>
    /\ UNCHANGED <<configVars, regVars, pc, state, cancelled, asked, hops, published, broken,
                   callVars, checkVars, shown, loads, snap, prompts, busy, awaited>>

(* onSettled: the Route's prompts are removed, whichever they are. *)
AnswerSettles(n) ==
    /\ answer[n] = "returned"
    /\ answer' = [answer EXCEPT ![n] = "none"]
    /\ awaited' = [awaited EXCEPT ![n] = FALSE]
    /\ ClearPrompts
    /\ UNCHANGED <<configVars, regVars, runVars, callVars, checkVars, shown, loads, snap>>

-----------------------------------------------------------------------------
(* The window loads: its store is empty, nobody there awaits what the last one *)
(* sent, and the states are asked for once the events are listened to.         *)
Reload ==
    /\ ~ShuttingDown
    /\ loads < MaxLoads
    /\ loads' = loads + 1
    /\ shown' = "idle"
    /\ snap' = [stage |-> "asked", value |-> "none"]
    /\ prompts' = <<>>
    /\ busy' = FALSE
    /\ answer' = [n \in Answers |-> IF answer[n] = "returned" THEN "none" ELSE answer[n]]
    /\ awaited' = [n \in Answers |-> FALSE]
    /\ UNCHANGED <<configVars, regVars, runVars, callVars, checkVars>>

(* RouteStatuses: the state of the registered run, none without one. *)
SnapshotRead ==
    /\ snap.stage = "asked"
    /\ snap' = [stage |-> "read",
                value |-> IF registered = 0 THEN "none" ELSE state[registered]]
    /\ UNCHANGED <<configVars, regVars, runVars, callVars, checkVars, shown, loads, prompts, dialogVars>>

(* setRouteStatus of what the snapshot lists, whatever an event has said since. *)
SnapshotLands ==
    /\ snap.stage \in {"read", "overtaken"}
    /\ shown' = IF snap.value = "none" THEN shown ELSE snap.value
    /\ snap' = [stage |-> IF snap.stage = "overtaken" /\ snap.value # "none"
                         THEN "behind" ELSE "landed",
                value |-> "none"]
    /\ UNCHANGED <<configVars, regVars, runVars, callVars, checkVars, loads, prompts, dialogVars>>

-----------------------------------------------------------------------------
RunStep(r) ==
    \/ RunStarts(r) \/ EmitState(r)
    \/ DialServer(r) \/ DialFails(r) \/ DialedButStopped(r)
    \/ OpenLink(r) \/ Publish(r) \/ Connected(r)
    \/ Unpublish(r) \/ CloseClients(r)
    \/ AskHostKey(r) \/ HostKeyAnswered(r)
    \/ StopWaiting(r) \/ Redial(r) \/ RunEnds(r)

CallStep(k) ==
    \/ ConnectRoute(k) \/ ConnectRefused(k) \/ RegisterRun(k)
    \/ StopRoute(k) \/ StopReturns(k)
    \/ DeleteRoute(k) \/ DeleteStops(k) \/ DeleteFinishes(k)
    \/ Shutdown(k) \/ ShutdownStops(k) \/ ShutdownReturns(k)

CheckStep(k) == CheckAnswered(k) \/ CheckFoundDead(k) \/ \E r \in Runs : CheckStarts(k, r)

UIStep ==
    \/ Reload \/ SnapshotRead \/ SnapshotLands
    \/ \E n \in Answers :
         \/ AnswerHostKey(n) \/ AnswerSettles(n)
         \/ \E a \in {"accept", "reject"} : UserAnswers(n, a)

Next ==
    \/ \E r \in Runs : RunStep(r) \/ LinkBreaks(r)
    \/ \E k \in Callers : CallStep(k)
    \/ \E k \in Checkers : CheckStep(k)
    \/ SetClusterRoute
    \/ UIStep

Spec == Init /\ [][Next]_vars

(***************************************************************************)
(* Fairness.  Every goroutine that can run does: dialServer is bounded by  *)
(* 10 s and by the context, the backoff by 30 s, and a call in progress is *)
(* served.  Nothing is assumed of the user, of the network keeping a       *)
(* connection up or breaking it, of a window, or of new calls and checks.  *)
(***************************************************************************)
Fairness ==
    /\ \A r \in Runs : WF_vars(RunStep(r))
    /\ \A k \in Callers :
         /\ WF_vars(ConnectRefused(k) \/ RegisterRun(k))
         /\ WF_vars(StopReturns(k) \/ DeleteStops(k) \/ DeleteFinishes(k))
         /\ WF_vars(ShutdownStops(k) \/ ShutdownReturns(k))
    /\ \A n \in Answers : WF_vars(AnswerHostKey(n))

FairSpec == Spec /\ Fairness

-----------------------------------------------------------------------------
(* Type correctness of the config, the runs, the calls and the interface. *)
TypeOK ==
    /\ inConfig \in BOOLEAN
    /\ used \in BOOLEAN
    /\ known \in SUBSET Servers
    /\ started \in 0..MaxRuns
    /\ registered \in 0..started
    /\ forgotten \in SUBSET Runs
    /\ pc \in [Runs -> RunSteps]
    /\ state \in [Runs -> States]
    /\ cancelled \in [Runs -> BOOLEAN]
    /\ pending \in [Runs -> BOOLEAN]
    /\ asked \in [Runs -> 0..Hops]
    /\ hostKey \in [Runs -> {"none", "accept", "reject"}]
    /\ hops \in [Runs -> 0..Hops]
    /\ published \in [Runs -> BOOLEAN]
    /\ broken \in [Runs -> BOOLEAN]
    /\ call \in [Callers -> CallSteps]
    /\ target \in [Callers -> 0..MaxRuns]
    /\ check \in [Checkers -> 0..MaxRuns]
    /\ fresh \in [Checkers -> BOOLEAN]
    /\ held \in [Checkers -> BOOLEAN]
    /\ shown \in States
    /\ loads \in 0..MaxLoads
    /\ snap \in Snapshots
    /\ prompts \in Seq(Servers)
    /\ busy \in BOOLEAN
    /\ answer \in [Answers -> {"none", "accept", "reject", "returned"}]
    /\ awaited \in [Answers -> BOOLEAN]

(* A Route is never connected twice at once (ConnectRoute returns while the old   *)
(* run has not ended): every run that has not ended is the registered one, which  *)
(* Stop and Shutdown find, or one that a DeleteRoute took out of s.routes before  *)
(* it ended.  That is the only way to have two, see ShutdownStopsAll.             *)
OneRun == \A r \in Runs : Alive(r) => r = registered \/ r \in forgotten

(* AnswerHostKey sends while it holds rc.mu, which setRouteState, checkLink and   *)
(* every dial through the Route also take: it must never wait there.  While a     *)
(* prompt is pending the channel is empty, so the send has room, and no answer    *)
(* is left for a prompt the user has not seen.                                    *)
AnswerHasRoom == \A r \in Runs : pending[r] => hostKey[r] = "none"

(* SSH connections are never leaked, and never handed out closed: rc.clients is   *)
(* the complete chain, and a run that asks, backs off or ended holds none.        *)
ClientsAreHeld ==
    \A r \in Runs :
        /\ published[r] => hops[r] = Hops
        /\ hops[r] > 0 => \/ pc[r] \in {"dialing", "dialed", "linked", "serving", "up",
                                        "dropping", "hanging"}
                          \/ pc[r] = "emitting" /\ state[r] = "connected"

(* Clusters are served through rc.clients: they are there exactly while the run   *)
(* is "connected", apart from the steps in which it changes its mind.             *)
ConnectedMeansClients ==
    \A r \in Runs :
        /\ published[r] => state[r] = "connected" \/ pc[r] = "serving"
        /\ state[r] = "connected" => published[r] \/ pc[r] \in {"dropping", "hanging"}

(* The run in s.routes is the only one there is, and has emitted its state. *)
Told ==
    /\ forgotten = {}
    /\ registered # 0 /\ pc[registered] \notin {"starting", "emitting"}

(* The interface ends up showing the last transition of the last run, in every    *)
(* window that has its snapshot: events of an earlier run never arrive after      *)
(* those of its successor.  A snapshot that lands after a later event is the      *)
(* exception (main.tsx puts it all the same), until the next event; so is a run   *)
(* DeleteRoute has forgotten, whose events go on.                                 *)
ShownIsCurrent == Told /\ snap.stage = "landed" => shown = state[registered]

(* A host key dialog never stays on screen over a Route that is connected, backs  *)
(* off or ended: a run is dialing, waits for it or is about to emit a state that  *)
(* clears it.  (A late answer may have settled the prompt behind the dialog.)     *)
PromptIsLive ==
    prompts # <<>> =>
        \E r \in Runs : pc[r] \in {"dialing", "dialed", "linked", "serving",
                              "asking", "waiting", "emitting"}

(* "Any state change after a host key prompt means the prompt was answered or the *)
(* Route was stopped" (main.tsx): no route:state event removes a prompt that the  *)
(* Route still waits for.                                                         *)
StateClearsAnswered ==
    [][\A r \in Runs :
         pc[r] = "emitting" /\ pc'[r] # "emitting" /\ prompts # <<>>
            /\ forgotten = {}
            => ~\E q \in Runs : pc[q] = "waiting" /\ pending[q] /\ ~cancelled[q]]_vars

(* A link check speaks of the connection it was made over: while a connection is  *)
(* in use, what a check has to say reaches its `closed` channel exactly when the  *)
(* clients it took are still the ones in use.  So a check of an earlier           *)
(* connection never ends the next one, and one of this connection can end it.     *)
CheckOwnLink ==
    \A k \in Checkers :
        check[k] # 0 /\ published[check[k]] => (held[k] <=> fresh[k])

(* DeleteRoute "refuses ... while a Cluster still references it": however its two *)
(* checks interleave with SetClusterRoute, no Cluster is left without its Route.  *)
UsedIsInConfig == used => inConfig

(* StopRoute, DeleteRoute and Shutdown always return.                             *)
CallsReturn ==
    \A k \in Callers : /\ call[k] \in {"stopping", "deleting", "finishing"} ~> call[k] = "idle"
                       /\ call[k] \in {"shutting", "ending"} ~> call[k] = "down"

-----------------------------------------------------------------------------
(* What comments say and the code does not keep. *)

(* "Shutdown stops every ... Route, returning once all of them are down"          *)
(* (lifecycle.go).                                                                *)
ShutdownStopsAll ==
    (\E k \in Callers : call[k] = "down") => \A r \in Runs : ~Alive(r)

(* EventHostKey "asks the UI to approve an SSH Server whose host key is not in    *)
(* known_hosts" (route.go): a run that waits for an answer nobody has given has   *)
(* its dialog on screen.                                                          *)
WaitingIsAsked ==
    \A r \in Runs :
        /\ forgotten = {} /\ snap.stage = "landed"
        /\ pc[r] = "waiting" /\ pending[r] /\ ~cancelled[r]
        /\ \A n \in Answers : answer[n] = "none"
        => prompts # <<>>

(* "RouteStatuses returns the current state of every Route" (route.go): a window    *)
(* that has put its snapshot shows the Route as it is.                            *)
SnapshotIsCurrent ==
    Told /\ snap.stage \in {"landed", "behind"} => shown = state[registered]

=============================================================================
