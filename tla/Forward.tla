------------------------------- MODULE Forward -------------------------------
(***************************************************************************)
(* One Saved Forward (internal/service/forward.go): its loopback listener, *)
(* the pod connection that is dialed on the first inbound connection and   *)
(* shared by the next ones, the idle timer that closes it, and the         *)
(* forward:state events that tell the interface about every transition.    *)
(*                                                                         *)
(* Each time the forward is switched on a fresh forwardConn is made: a     *)
(* "bind".  The goroutines of an old bind may outlive it, so all binds of  *)
(* the forward are in the state at once.  A "local" is one inbound TCP     *)
(* connection with the serveForward goroutine that carries it, a "link" is *)
(* one SPDY connection to a pod.                                           *)
(*                                                                         *)
(* A critical section of fc.mu is one action.  Everything the code does    *)
(* after unlocking (closing a connection, emitting a status it copied      *)
(* under the lock) is an action of its own.                                *)
(***************************************************************************)
EXTENDS Integers, FiniteSets

CONSTANTS
    Locals,     \* inbound local connections, each accepted at most once
    Links,      \* pod connections, each dialed at most once
    MaxBinds,   \* how often the forward is switched on (a bound of the model)
    NoLink      \* the nil httpstream.Connection

ASSUME ForwardAssumption ==
    /\ IsFiniteSet(Locals)
    /\ Locals \cap Links = {}
    /\ MaxBinds \in Nat \ {0}
    /\ NoLink \notin Links

Binds == 1..MaxBinds

(* The states of a ForwardStatus; "gone" is a row the interface does not list. *)
States == {"idle", "connected", "error", "stopped"}

(***************************************************************************)
(* Where a serveForward goroutine is:                                      *)
(*   new        not accepted yet                                           *)
(*   queued     accepted, waiting for fc.dial                              *)
(*   dialing    holds fc.dial, resolving and dialing a pod                 *)
(*   refused    the dial failed, its status is about to be emitted         *)
(*   dialed     holds a fresh link, about to publish it in fc.conn         *)
(*   published  fc.conn is set, "connected" not recorded yet               *)
(*   reporting  "connected" is recorded, about to be emitted               *)
(*   serving    copies bytes over the link                                 *)
(*   failing    failForward has left its lock, about to close the link     *)
(*   erroring   has closed it, about to emit the error                     *)
(*   ending     about to call releaseForward                               *)
(*   done       returned                                                   *)
(***************************************************************************)
Steps == {"new", "queued", "dialing", "refused", "dialed", "published",
          "reporting", "serving", "failing", "erroring", "ending", "done"}

VARIABLES
    born,      \* how many binds have been made
    bound,     \* the bind registered in s.forwards, 0 for none
    listening, \* listening[b]: fc.ln is set and open
    closed,    \* fc.closed
    state,     \* fc.status.State
    conn,      \* fc.conn
    active,    \* fc.active
    idle,      \* idle[b]: the timer in fc.idle is armed
    fired,     \* fired[b]: idle timers that fired and whose function has not run
    pc,        \* pc[l]: step of the goroutine serving l
    home,      \* home[l]: the bind l was accepted on, 0 before
    via,       \* via[l]: the link l dialed or attached to
    link,      \* link[c]: "none", "open" or "closed", as CloseChan tells
    owner,     \* owner[c]: the bind c was dialed for, 0 before
    watch,     \* watch[c]: step of the goroutine waiting on CloseChan of c
    due,       \* due[x]: the status local or link watcher x has yet to emit
    shown      \* the forward's state in the interface, "gone" when unlisted

fcVars    == <<listening, closed, state, conn, active, idle, fired>>
localVars == <<pc, home, via>>
linkVars  == <<link, owner, watch>>
vars == <<born, bound, fcVars, localVars, linkVars, due, shown>>

Nothing == "nothing"

(* Mutant of Listed: store.ts keeps the row of a stopped forward. *)
ListedAlways(s) == s

(* What the interface lists once it has received a status. *)
Listed(s) == IF s = "stopped" THEN "gone" ELSE s

(* fc.dial is held from the moment a local starts to dial until forwardConnection returns. *)
Dialing(l) == pc[l] \in {"dialing", "refused", "dialed", "published", "reporting"}
(* Mutant of DialFree: forwardConnection without fc.dial. *)
DialUnlocked(b) == TRUE

DialFree(b) == \A l \in Locals : home[l] = b => ~Dialing(l)

(* Counted in fc.active: attached and not released. *)
Attached(l) == pc[l] \in {"published", "reporting", "serving", "failing", "erroring", "ending"}

Init ==
    /\ born = 0
    /\ bound = 0
    /\ listening = [b \in Binds |-> FALSE]
    /\ closed = [b \in Binds |-> FALSE]
    /\ state = [b \in Binds |-> "idle"]
    /\ conn = [b \in Binds |-> NoLink]
    /\ active = [b \in Binds |-> 0]
    /\ idle = [b \in Binds |-> FALSE]
    /\ fired = [b \in Binds |-> 0]
    /\ pc = [l \in Locals |-> "new"]
    /\ home = [l \in Locals |-> 0]
    /\ via = [l \in Locals |-> NoLink]
    /\ link = [c \in Links |-> "none"]
    /\ owner = [c \in Links |-> 0]
    /\ watch = [c \in Links |-> "none"]
    /\ due = [x \in Locals \cup Links |-> Nothing]
    /\ shown = "gone"

-----------------------------------------------------------------------------
(* The user's side: SaveForward, SetForwardEnabled, BindForwards, DeleteForward *)
(* reach these two through applyForward, with s.mu held.                        *)

(* bindForward: a port that cannot be bound leaves the forward registered in    *)
(* error.  A goroutine of the new bind cannot touch its status before the emit: *)
(* dialing needs s.mu.                                                          *)
BindForward ==
    /\ bound = 0
    /\ born < MaxBinds
    /\ born' = born + 1
    /\ bound' = born + 1
    /\ \E ok \in BOOLEAN :
         /\ listening' = [listening EXCEPT ![born + 1] = ok]
         /\ state' = [state EXCEPT ![born + 1] = IF ok THEN "idle" ELSE "error"]
         /\ shown' = IF ok THEN "idle" ELSE "error"
    /\ UNCHANGED <<closed, conn, active, idle, fired, localVars, linkVars, due>>

(* Mutant of CloseLinkOf: unbindForward forgets the pod connection without closing it. *)
LeaveLinkOf(b) == UNCHANGED link

CloseLinkOf(b) ==
    link' = IF conn[b] = NoLink THEN link ELSE [link EXCEPT ![conn[b]] = "closed"]

(* unbindForward: closes the listener and the pod connection, stops the timer,  *)
(* cancels the context.  Its emit follows fc.mu but is still inside s.mu, and   *)
(* nothing can change the status of a closed bind in between.                   *)
UnbindForward ==
    /\ bound # 0
    /\ bound' = 0
    /\ listening' = [listening EXCEPT ![bound] = FALSE]
    /\ idle' = [idle EXCEPT ![bound] = FALSE]
    /\ CloseLinkOf(bound)
    /\ conn' = [conn EXCEPT ![bound] = NoLink]
    /\ state' = [state EXCEPT ![bound] = "stopped"]
    /\ closed' = [closed EXCEPT ![bound] = TRUE]
    /\ shown' = Listed("stopped")
    /\ UNCHANGED <<born, active, fired, localVars, owner, watch, due>>

-----------------------------------------------------------------------------
(* serveForward, one goroutine per inbound connection. *)

AcceptForward(l) ==
    /\ pc[l] = "new"
    /\ bound # 0
    /\ listening[bound]
    /\ pc' = [pc EXCEPT ![l] = "queued"]
    /\ home' = [home EXCEPT ![l] = bound]
    /\ UNCHANGED <<born, bound, fcVars, via, linkVars, due, shown>>

(* Mutant of Attach: a caller that shares the connection is not counted. *)
AttachUncounted(b) ==
    /\ idle' = [idle EXCEPT ![b] = FALSE]
    /\ UNCHANGED active

(* forwardConnection's attach: stops the idle timer and counts the caller. *)
Attach(b) ==
    /\ idle' = [idle EXCEPT ![b] = FALSE]
    /\ active' = [active EXCEPT ![b] = @ + 1]

HasOpenConn(b) == conn[b] # NoLink /\ link[conn[b]] = "open"

(* forwardConnection with a pod connection whose CloseChan is open: share it. *)
JoinConnection(l) ==
    LET b == home[l] IN
    /\ pc[l] = "queued"
    /\ DialFree(b)
    /\ HasOpenConn(b)
    /\ Attach(b)
    /\ pc' = [pc EXCEPT ![l] = "serving"]
    /\ via' = [via EXCEPT ![l] = conn[b]]
    /\ UNCHANGED <<born, bound, listening, closed, state, conn, fired, home, linkVars, due, shown>>

(* forwardConnection without one: keep fc.dial and dial. *)
StartDial(l) ==
    LET b == home[l] IN
    /\ pc[l] = "queued"
    /\ DialFree(b)
    /\ ~HasOpenConn(b)
    /\ pc' = [pc EXCEPT ![l] = "dialing"]
    /\ UNCHANGED <<born, bound, fcVars, home, via, linkVars, due, shown>>

(* Mutant of UpdateForward: no look at fc.closed. *)
UpdateAlways(x, b, s) ==
    /\ state' = [state EXCEPT ![b] = s]
    /\ due' = [due EXCEPT ![x] = s]

(* updateForward: a bind that was unbound keeps its status and emits nothing;  *)
(* otherwise caller x has the new status to emit.                              *)
UpdateForward(x, b, s) ==
    IF closed[b]
    THEN UNCHANGED <<state, due>>
    ELSE /\ state' = [state EXCEPT ![b] = s]
         /\ due' = [due EXCEPT ![x] = s]

(* dialForwardBounded returns an error: no client, no ready pod, a refused or  *)
(* timed out upgrade, a cancelled context.                                     *)
DialFails(l) ==
    /\ pc[l] = "dialing"
    /\ UpdateForward(l, home[l], "error")
    /\ pc' = [pc EXCEPT ![l] = IF closed[home[l]] THEN "done" ELSE "refused"]
    /\ UNCHANGED <<born, bound, listening, closed, conn, active, idle, fired, home, via, linkVars, shown>>

DialSucceeds(l, c) ==
    /\ pc[l] = "dialing"
    /\ link[c] = "none"
    /\ link' = [link EXCEPT ![c] = "open"]
    /\ owner' = [owner EXCEPT ![c] = home[l]]
    /\ via' = [via EXCEPT ![l] = c]
    /\ pc' = [pc EXCEPT ![l] = "dialed"]
    /\ UNCHANGED <<born, bound, fcVars, home, watch, due, shown>>

(* Mutant of DiscardConnection: the new link is left open. *)
LeakConnection(l) ==
    /\ pc[l] = "dialed"
    /\ closed[home[l]]
    /\ pc' = [pc EXCEPT ![l] = "done"]
    /\ UNCHANGED <<born, bound, fcVars, home, via, linkVars, due, shown>>

(* The bind was switched off while the dial ran: the new link is closed again. *)
DiscardConnection(l) ==
    /\ pc[l] = "dialed"
    /\ closed[home[l]]
    /\ link' = [link EXCEPT ![via[l]] = "closed"]
    /\ pc' = [pc EXCEPT ![l] = "done"]
    /\ UNCHANGED <<born, bound, fcVars, home, via, owner, watch, due, shown>>

(* fc.conn is set, the caller attached, and a goroutine waits on CloseChan. *)
PublishConnection(l) ==
    LET b == home[l] IN
    /\ pc[l] = "dialed"
    /\ ~closed[b]
    /\ conn' = [conn EXCEPT ![b] = via[l]]
    /\ Attach(b)
    /\ watch' = [watch EXCEPT ![via[l]] = "waiting"]
    /\ pc' = [pc EXCEPT ![l] = "published"]
    /\ UNCHANGED <<born, bound, listening, closed, state, fired, home, via, link, owner, due, shown>>

(* The update to "connected", a critical section of its own. *)
ReportConnected(l) ==
    /\ pc[l] = "published"
    /\ UpdateForward(l, home[l], "connected")
    /\ pc' = [pc EXCEPT ![l] = IF closed[home[l]] THEN "serving" ELSE "reporting"]
    /\ UNCHANGED <<born, bound, listening, closed, conn, active, idle, fired, home, via, linkVars, shown>>

(* The stream ended without a word from the pod, could not be created because  *)
(* the link had already closed, or the context was cancelled.                  *)
ServeEnds(l) ==
    /\ pc[l] = "serving"
    /\ pc' = [pc EXCEPT ![l] = "ending"]
    /\ UNCHANGED <<born, bound, fcVars, home, via, linkVars, due, shown>>

(* A failure counts only on the link the bind uses now. *)
Drops(l) == conn[home[l]] = via[l] /\ ~closed[home[l]]

(* Mutant of FailForward: the error is recorded for a replaced link too. *)
FailLoudly(l) ==
    /\ pc[l] = "serving"
    /\ conn' = IF Drops(l) THEN [conn EXCEPT ![home[l]] = NoLink] ELSE conn
    /\ UpdateForward(l, home[l], "error")
    /\ pc' = [pc EXCEPT ![l] = "failing"]
    /\ UNCHANGED <<born, bound, listening, closed, active, idle, fired, home, via, linkVars, shown>>

(* failForward, under its lock: the pod reported an error on the error stream, *)
(* or a stream could not be opened.  A link already replaced stays quiet.      *)
FailForward(l) ==
    /\ pc[l] = "serving"
    /\ IF Drops(l)
       THEN /\ conn' = [conn EXCEPT ![home[l]] = NoLink]
            /\ state' = [state EXCEPT ![home[l]] = "error"]
            /\ due' = [due EXCEPT ![l] = "error"]
       ELSE UNCHANGED <<conn, state, due>>
    /\ pc' = [pc EXCEPT ![l] = "failing"]
    /\ UNCHANGED <<born, bound, listening, closed, active, idle, fired, home, via, linkVars, shown>>

(* failForward, after its lock: conn.Close, and the emit is next if it dropped. *)
CloseFailed(l) ==
    /\ pc[l] = "failing"
    /\ link' = [link EXCEPT ![via[l]] = "closed"]
    /\ pc' = [pc EXCEPT ![l] = IF due[l] = Nothing THEN "ending" ELSE "erroring"]
    /\ UNCHANGED <<born, bound, fcVars, home, via, owner, watch, due, shown>>

(* The emit at the end of updateForward or failForward. *)
EmitLocal(l) ==
    /\ pc[l] \in {"refused", "reporting", "erroring"}
    /\ shown' = Listed(due[l])
    /\ due' = [due EXCEPT ![l] = Nothing]
    /\ pc' = [pc EXCEPT ![l] = IF @ = "refused" THEN "done"
                                ELSE IF @ = "reporting" THEN "serving" ELSE "ending"]
    /\ UNCHANGED <<born, bound, fcVars, home, via, linkVars>>

(* Mutant of LastUser: the count is tested before it is taken down. *)
NoUser(b) == active[b] = 0

LastUser(b) == active[b] = 1

(* releaseForward: the last local connection arms the idle timer. *)
ReleaseForward(l) ==
    LET b == home[l] IN
    /\ pc[l] = "ending"
    /\ active' = [active EXCEPT ![b] = @ - 1]
    /\ idle' = IF LastUser(b) THEN [idle EXCEPT ![b] = TRUE] ELSE idle
    /\ pc' = [pc EXCEPT ![l] = "done"]
    /\ UNCHANGED <<born, bound, listening, closed, state, conn, fired, home, via, linkVars, due, shown>>

-----------------------------------------------------------------------------
(* The idle timer: ForwardIdle passes, then its function runs.  Stop does not   *)
(* recall a function that has already been started.                             *)

IdleFires(b) ==
    /\ idle[b]
    /\ idle' = [idle EXCEPT ![b] = FALSE]
    /\ fired' = [fired EXCEPT ![b] = @ + 1]
    /\ UNCHANGED <<born, bound, listening, closed, state, conn, active, localVars, linkVars, due, shown>>

(* Mutant of Unused: the timer's function does not look at fc.active again. *)
Unwatched(b) == conn[b] # NoLink

Unused(b) == active[b] = 0 /\ conn[b] # NoLink

IdleRuns(b) ==
    /\ fired[b] > 0
    /\ fired' = [fired EXCEPT ![b] = @ - 1]
    /\ link' = IF Unused(b) THEN [link EXCEPT ![conn[b]] = "closed"] ELSE link
    /\ UNCHANGED <<born, bound, listening, closed, state, conn, active, idle, localVars, owner, watch, due, shown>>

-----------------------------------------------------------------------------
(* The pod, the API server or the Route ends a link. *)
LinkEnds(c) ==
    /\ link[c] = "open"
    /\ link' = [link EXCEPT ![c] = "closed"]
    /\ UNCHANGED <<born, bound, fcVars, localVars, owner, watch, due, shown>>

(* Mutant of InUse: whatever link the bind has is forgotten. *)
InUseOrNot(c) == TRUE

InUse(c) == conn[owner[c]] = c

(* dropForward, first critical section: forget the link unless it was replaced. *)
DropForward(c) ==
    /\ watch[c] = "waiting"
    /\ link[c] = "closed"
    /\ conn' = IF InUse(c) THEN [conn EXCEPT ![owner[c]] = NoLink] ELSE conn
    /\ watch' = [watch EXCEPT ![c] = IF InUse(c) THEN "dropped" ELSE "done"]
    /\ UNCHANGED <<born, bound, listening, closed, state, active, idle, fired, localVars, link, owner, due, shown>>

(* dropForward, second: the update to "idle". *)
ReportIdle(c) ==
    /\ watch[c] = "dropped"
    /\ UpdateForward(c, owner[c], "idle")
    /\ watch' = [watch EXCEPT ![c] = IF closed[owner[c]] THEN "done" ELSE "reporting"]
    /\ UNCHANGED <<born, bound, listening, closed, conn, active, idle, fired, localVars, link, owner, shown>>

EmitIdle(c) ==
    /\ watch[c] = "reporting"
    /\ shown' = Listed(due[c])
    /\ due' = [due EXCEPT ![c] = Nothing]
    /\ watch' = [watch EXCEPT ![c] = "done"]
    /\ UNCHANGED <<born, bound, fcVars, localVars, link, owner>>

-----------------------------------------------------------------------------
LocalStep(l) ==
    \/ AcceptForward(l)
    \/ JoinConnection(l) \/ StartDial(l)
    \/ DialFails(l) \/ \E c \in Links : DialSucceeds(l, c)
    \/ DiscardConnection(l) \/ PublishConnection(l) \/ ReportConnected(l)
    \/ ServeEnds(l) \/ FailForward(l) \/ CloseFailed(l)
    \/ EmitLocal(l) \/ ReleaseForward(l)

LinkStep(c) == LinkEnds(c) \/ DropForward(c) \/ ReportIdle(c) \/ EmitIdle(c)

TimerStep(b) == IdleFires(b) \/ IdleRuns(b)

Next ==
    \/ BindForward \/ UnbindForward
    \/ \E l \in Locals : LocalStep(l)
    \/ \E c \in Links : LinkStep(c)
    \/ \E b \in Binds : TimerStep(b)

Spec == Init /\ [][Next]_vars

(***************************************************************************)
(* Fairness.  A goroutine that can run does: dials are bounded by          *)
(* forwardDialTimeout, Go's mutexes hand over in arrival order once a      *)
(* waiter starves (hence strong fairness for taking fc.dial), timers fire. *)
(* A stream over a closed link, or of a bind that was switched off, ends.  *)
(* Nothing is assumed of the user, of new connections, or of a healthy     *)
(* stream and its link.                                                    *)
(***************************************************************************)
MustEnd(l) == link[via[l]] = "closed" \/ closed[home[l]]

LocalFairness(l) ==
    /\ SF_vars(JoinConnection(l) \/ StartDial(l))
    /\ WF_vars(DialFails(l) \/ \E c \in Links : DialSucceeds(l, c))
    /\ WF_vars(DiscardConnection(l) \/ PublishConnection(l))
    /\ WF_vars(ReportConnected(l))
    /\ WF_vars(ServeEnds(l) /\ MustEnd(l))
    /\ WF_vars(CloseFailed(l))
    /\ WF_vars(EmitLocal(l))
    /\ WF_vars(ReleaseForward(l))

Fairness ==
    /\ \A l \in Locals : LocalFairness(l)
    /\ \A c \in Links : WF_vars(DropForward(c) \/ ReportIdle(c) \/ EmitIdle(c))
    /\ \A b \in Binds : WF_vars(IdleFires(b)) /\ WF_vars(IdleRuns(b))

FairSpec == Spec /\ Fairness

-----------------------------------------------------------------------------
(* Type correctness of the forwardConns, the goroutines and the interface's row. *)
TypeOK ==
    /\ born \in 0..MaxBinds
    /\ bound \in 0..born
    /\ listening \in [Binds -> BOOLEAN]
    /\ closed \in [Binds -> BOOLEAN]
    /\ state \in [Binds -> States]
    /\ conn \in [Binds -> Links \cup {NoLink}]
    /\ active \in [Binds -> Int]
    /\ idle \in [Binds -> BOOLEAN]
    /\ fired \in [Binds -> Nat]
    /\ pc \in [Locals -> Steps]
    /\ home \in [Locals -> 0..MaxBinds]
    /\ via \in [Locals -> Links \cup {NoLink}]
    /\ link \in [Links -> {"none", "open", "closed"}]
    /\ owner \in [Links -> 0..MaxBinds]
    /\ watch \in [Links -> {"none", "waiting", "dropped", "reporting", "done"}]
    /\ due \in [Locals \cup Links -> States \cup {Nothing}]
    /\ shown \in (States \ {"stopped"}) \cup {"gone"}

(* The local that still has link c in hand and is bound to close it or publish it. *)
InHand(c) == \E l \in Locals : via[l] = c /\ pc[l] \in {"dialed", "failing"}

(* No pod connection is ever left open with nobody to close it: whatever races   *)
(* between a dial, a failure, the idle timer and switching the forward off, an   *)
(* open link is fc.conn of a bind that is still on (unbindForward and the idle   *)
(* timer will find it there), or the local that dialed or failed it closes it.   *)
NoOrphanLink ==
    \A c \in Links : link[c] = "open" =>
        InHand(c) \/ (conn[owner[c]] = c /\ ~closed[owner[c]])

(* A bind never works over two pod connections at once: fc.dial lets no dial run *)
(* while fc.conn is open, so apart from links about to be closed by failForward  *)
(* a bind owns at most one open link.                                            *)
OneOpenLink ==
    \A c, d \in Links :
        /\ c # d
        /\ link[c] = "open" /\ link[d] = "open"
        /\ owner[c] = owner[d]
        => \E l \in Locals : via[l] \in {c, d} /\ pc[l] = "failing"

(* fc.active counts exactly the locals that attached and have not released, over *)
(* every order of attaching, failing, redialing and unbinding.                   *)
ActiveCountsUsers ==
    \A b \in Binds : active[b] = Cardinality({l \in Locals : home[l] = b /\ Attached(l)})

(* "A forward that was unbound stays stopped whatever its goroutines report      *)
(* late" (updateForward): a closed bind holds no link and says stopped, and only *)
(* a closed one does.                                                            *)
StoppedForGood ==
    \A b \in Binds :
        /\ closed[b] <=> state[b] = "stopped"
        /\ closed[b] => conn[b] = NoLink /\ ~listening[b]

(* "Error when ... the last dial failed" (ForwardStatus): a row in error has no  *)
(* usable pod connection, except between publishing one and recording it.  A     *)
(* failure on a link that was replaced must not overwrite the new one's state.   *)
ErrorMeansNoLink ==
    \A b \in Binds :
        state[b] = "error" /\ HasOpenConn(b)
            => \E l \in Locals : home[l] = b /\ pc[l] = "published"

(* The idle timer "drops the connection once no local connection has used it":   *)
(* its function never closes a link some local connection is using.              *)
IdleSparesUsers ==
    [][\A b \in Binds, c \in Links :
         fired'[b] < fired[b] /\ link[c] = "open" /\ link'[c] = "closed"
            => ~\E l \in Locals : via[l] = c /\ pc[l] \in {"published", "reporting", "serving"}]_vars

(* "Forgets a closed pod connection": fc.conn is taken away only when that very  *)
(* link has closed, when a local on it failed it, or when the bind is switched   *)
(* off; the late drop of an earlier link never takes its successor away.         *)
LiveLinkIsKept ==
    [][\A b \in Binds :
         HasOpenConn(b) /\ conn'[b] # conn[b]
            => \/ closed'[b]
               \/ \E l \in Locals : via[l] = conn[b] /\ pc[l] = "serving" /\ pc'[l] = "failing"]_vars

(* A pod connection nobody uses is closed in the end, or used again.              *)
IdleLinkCloses ==
    \A b \in Binds : (HasOpenConn(b) /\ active[b] = 0) ~> (~HasOpenConn(b) \/ active[b] > 0)

(* Switching a forward off ends everything it started: all its links close, a    *)
(* dial in flight included, and all its local connections return.                *)
OffEndsAll ==
    \A b \in Binds : closed[b] ~>
        /\ \A c \in Links : owner[c] = b => link[c] = "closed"
        /\ \A l \in Locals : home[l] = b => pc[l] = "done"

-----------------------------------------------------------------------------
(* What comments say and the code does not keep, even of a bind whose goroutines *)
(* have all had their say: no dial runs, no drop is being recorded, nothing is   *)
(* left to emit.                                                                 *)
Settled(b) ==
    /\ DialFree(b)
    /\ \A c \in Links : owner[c] = b => watch[c] \notin {"dropped", "reporting"}
    /\ \A x \in Locals \cup Links : due[x] = Nothing

(* "Idle until the first inbound connection, connected while a pod connection is *)
(* up" (ForwardStatus): the row says connected only with a link, and does not    *)
(* say idle over a usable one.                                                   *)
RowTellsLink ==
    \A b \in Binds : Settled(b) =>
        /\ state[b] = "connected" => conn[b] # NoLink
        /\ state[b] = "idle" => ~HasOpenConn(b)

(* "A forward that is switched off is forgotten by the backend, so it leaves the *)
(* list" (store.ts): with no bind registered the interface lists no row.         *)
OffLeavesList ==
    bound = 0 /\ (\A b \in Binds : Settled(b)) => shown = "gone"

=============================================================================
