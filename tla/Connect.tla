--------------------------------- MODULE Connect ---------------------------------
(***************************************************************************)
(* Routes as the window manages them: the connector that runs every        *)
(* Connect and asks for the secrets one is missing, the form that saves    *)
(* and deletes Routes, the ways a Cluster gets its Route, and the dialog   *)
(* that adds a Cluster from an SSH server (routes.tsx, sidebar.tsx,        *)
(* shell.tsx over route.go and remote.go).                                 *)
(*                                                                         *)
(* A call of the window is sent, served and answered in steps of their     *)
(* own.  The events of route:state are handled as they are emitted, and    *)
(* the dial is one step: Route models both.                                *)
(***************************************************************************)
EXTENDS Naturals, Sequences, FiniteSets

CONSTANTS Routes, Clusters,
          Servers,  \* SSH servers that take a password, which is called as its server is
          None,     \* no Route, no secret; of a Cluster: reached directly
          Absent,   \* of a Cluster: not in the config
          MaxActs   \* bound: what the user does and the network

ASSUME ConnectAssumption ==
  /\ Routes # {} /\ Servers # {}
  /\ None \notin Routes \cup Servers
  /\ Absent \notin Routes \cup {None}
  /\ MaxActs \in Nat

VARIABLES
  config,     \* the saved one: each Route's chain, the Cluster's Route, the Clusters read from their Route's server
  shown,      \* the window's copy
  fetch,      \* the window's read of it
  born,       \* the Route ids given out so far
  conn,       \* per Route, the connection, and the chain it was started with
  secrets,    \* per server, the password remembered for the session; its own for one that signs in with the agent
  calls,      \* Connect and Stop in flight; the same call made twice at once is one
  request,    \* store.connectRequest
  credential, \* the dialog that asks for a password, and what is typed in it
  errors,     \* store.connectErrors
  form,       \* the Route's dialog
  job,        \* its Save or Delete; one at a time
  attach,     \* a SetClusterRoute in flight; one at a time
  importer,   \* the dialog that adds a Cluster from an SSH server
  add,        \* its ImportRemote
  acts

vars == <<config, shown, fetch, born, conn, secrets, calls, request, credential, errors, form, job,
          attach, importer, add, acts>>

(* Bound: a chain has one server or two. *)
Chains == {<<s>> : s \in Servers} \cup {p \in Servers \X Servers : p[1] # p[2]}
NoChain == <<>>
States == {"stopped", "connecting", "connected", "error"}
Openers == {"page", "banner", "importer"}

NoDialog == [on |-> FALSE, route |-> None, target |-> None, typed |-> None, typedFor |-> None]
NoForm == [on |-> FALSE, route |-> None, from |-> "page", cluster |-> None]
NoJob == [op |-> "none", stage |-> "idle", route |-> None, chain |-> NoChain, from |-> "page", cluster |-> None]
NoAttach == [stage |-> "idle", cluster |-> None, route |-> None]
NoImporter == [on |-> FALSE, route |-> None, asking |-> FALSE, found |-> "none", picked |-> None]
NoAdd == [stage |-> "idle", route |-> None, picked |-> None]
Down == [state |-> "stopped", chain |-> NoChain]

Saved(c) == {r \in Routes : c.chain[r] # NoChain}

Init ==
  /\ config \in {[chain |-> f, via |-> v, remote |-> {}] :
                   f \in [Routes -> Chains \cup {NoChain}], v \in [Clusters -> {None, Absent}]}
  /\ shown = config
  /\ fetch = [stage |-> "idle", got |-> config]
  /\ born = Saved(config)
  /\ conn = [r \in Routes |-> Down]
  /\ secrets \in {f \in [Servers -> Servers \cup {None}] : \A s \in Servers : f[s] \in {s, None}}
  /\ calls = {} /\ request = None /\ credential = NoDialog /\ errors = {}
  /\ form = NoForm /\ job = NoJob /\ attach = NoAttach
  /\ importer = NoImporter /\ add = NoAdd
  /\ acts = 0

Act == acts < MaxActs /\ acts' = acts + 1

--------------------------------------------------------------------------------
(* The config as the window has it. *)

Invalidate == fetch' = [fetch EXCEPT !.stage = "sent"]

ConfigReads ==
  /\ fetch.stage = "sent"
  /\ fetch' = [stage |-> "answered", got |-> config]
  /\ UNCHANGED <<config, shown, born, conn, secrets, calls, request, credential, errors, form, job, attach,
                 importer, add, acts>>

(* The Save of an importer that is gone no longer reaches one. *)
Forsaken(j) == IF j.from = "importer" THEN [j EXCEPT !.from = "gone"] ELSE j

(* What waited for the config closes: a form, by what opened it, and the     *)
(* importer, with the form on it.                                            *)
ConfigLands ==
  /\ fetch.stage = "answered"
  /\ shown' = fetch.got
  /\ fetch' = [fetch EXCEPT !.stage = "idle"]
  /\ job' = IF job.stage = "closing" THEN NoJob ELSE IF add.stage = "closing" THEN Forsaken(job) ELSE job
  /\ form' = IF \/ job.stage = "closing" /\ form.from = job.from
                \/ add.stage = "closing" /\ form.from = "importer"
             THEN NoForm ELSE form
  /\ IF add.stage = "closing"
     THEN add' = NoAdd /\ importer' = NoImporter
     ELSE UNCHANGED <<add, importer>>
  /\ UNCHANGED <<config, born, conn, secrets, calls, request, credential, errors, attach, acts>>

--------------------------------------------------------------------------------
(* Connect and Stop. *)

IsUp(r) == conn[r].state \in {"connecting", "connected"}
Pending(r) == \E c \in calls : c.route = r
Behind == ~credential.on /\ ~form.on /\ ~importer.on
Requested(r) == request' = r

(* A banner's button, unlike the others, is there while a call is pending. *)
UserConnects(r) ==
  /\ Act
  /\ Behind /\ request = None
  /\ r \in Saved(shown) /\ ~IsUp(r)
  /\ Pending(r) => \E c \in Clusters : shown.via[c] = r
  /\ Requested(r)
  /\ UNCHANGED <<config, shown, fetch, born, conn, secrets, calls, credential, errors, form, job, attach, importer, add>>

Call(op, r, secret, asked) ==
  [op |-> op, route |-> r, secret |-> secret, asked |-> asked, typedFor |-> credential.typedFor, chain |-> NoChain,
   stage |-> "sent", result |-> "none", missing |-> None]

UserDisconnects(r) ==
  /\ Act
  /\ Behind
  /\ r \in Saved(shown) /\ IsUp(r) /\ ~Pending(r)
  /\ calls' = calls \cup {Call("stop", r, None, None)}
  /\ UNCHANGED <<config, shown, fetch, born, conn, secrets, request, credential, errors, form, job, attach, importer, add>>

(* The effect of RouteConnector: a Route the window does not know is dropped. *)
RunsRequest ==
  /\ request # None
  /\ request' = None
  /\ IF request \in Saved(shown)
     THEN /\ calls' = calls \cup {Call("connect", request, None, None)}
          /\ errors' = errors \ {request}
     ELSE UNCHANGED <<calls, errors>>
  /\ UNCHANGED <<config, shown, fetch, born, conn, secrets, credential, form, job, attach, importer, add, acts>>

Moves(c, d) == calls' = (calls \ {c}) \cup {d}
Refused(c) == [c EXCEPT !.stage = "answered", !.result = "failed"]

(* ConnectRoute: the config is read, ... *)
LoadsRoute(c) ==
  /\ c.op = "connect" /\ c.stage = "sent"
  /\ Moves(c, IF c.route \in Saved(config)
              THEN [c EXCEPT !.stage = "loaded", !.chain = config.chain[c.route]] ELSE Refused(c))
  /\ UNCHANGED <<config, shown, fetch, born, conn, secrets, request, credential, errors, form, job, attach, importer,
                 add, acts>>

(* ... the secret fills the first missing password, the next is reported,    *)
(* and without one the dial starts unless it has.                            *)
Unfilled(chain, known) == {i \in DOMAIN chain : known[chain[i]] = None}
First(S) == CHOOSE i \in S : \A j \in S : i <= j
Filled(c) ==
  LET open == Unfilled(c.chain, secrets)
  IN IF c.secret = None \/ open = {} THEN secrets ELSE [secrets EXCEPT ![c.chain[First(open)]] = c.secret]

StartsDial(c) ==
  /\ c.op = "connect" /\ c.stage = "loaded"
  /\ secrets' = Filled(c)
  /\ LET open == Unfilled(c.chain, secrets')
     IN IF open # {}
        THEN /\ Moves(c, [c EXCEPT !.stage = "answered", !.result = "missing", !.missing = c.chain[First(open)]])
             /\ UNCHANGED conn
        ELSE /\ Moves(c, [c EXCEPT !.stage = "answered", !.result = "ok"])
             /\ conn' = IF IsUp(c.route) THEN conn
                        ELSE [conn EXCEPT ![c.route] = [state |-> "connecting", chain |-> c.chain]]
  /\ UNCHANGED <<config, shown, fetch, born, request, credential, errors, form, job, attach, importer, add, acts>>

StopsRoute(c) ==
  /\ c.op = "stop" /\ c.stage = "sent"
  /\ Moves(c, [c EXCEPT !.stage = "answered", !.result = "ok"])
  /\ conn' = [conn EXCEPT ![c.route] = Down]
  /\ UNCHANGED <<config, shown, fetch, born, secrets, request, credential, errors, form, job, attach, importer,
                 add, acts>>

(* Mutant of Asks: one dialog for every target, which keeps what is typed. *)
AsksOnce(r, s) == [credential EXCEPT !.on = TRUE, !.route = r, !.target = s]

(* The dialog is made anew for each target. *)
Asks(r, s) == IF credential.on /\ credential.target = s THEN [credential EXCEPT !.route = r]
              ELSE [NoDialog EXCEPT !.on = TRUE, !.route = r, !.target = s]

(* Mutant of Answered: whatever a Connect fails with opens the dialog. *)
AnsweredAsking(c) ==
  /\ c.stage = "answered"
  /\ calls' = calls \ {c}
  /\ credential' = IF c.op = "connect" /\ c.result = "ok" THEN NoDialog
                   ELSE IF c.op = "connect" THEN Asks(c.route, c.missing) ELSE credential
  /\ UNCHANGED <<config, shown, fetch, born, conn, secrets, request, errors, form, job, attach, importer, add, acts>>

(* A missing secret opens the dialog or turns it to another target; any      *)
(* success closes it, whichever Route it is of.                              *)
Answered(c) ==
  /\ c.stage = "answered"
  /\ calls' = calls \ {c}
  /\ credential' = IF c.op = "connect" /\ c.result = "ok" THEN NoDialog
                   ELSE IF c.result = "missing" THEN Asks(c.route, c.missing) ELSE credential
  /\ errors' = IF c.result = "failed" THEN errors \cup {c.route} ELSE errors
  /\ UNCHANGED <<config, shown, fetch, born, conn, secrets, request, form, job, attach, importer, add, acts>>

UserTypes ==
  /\ Act
  /\ credential.on
  /\ \E s \in Servers \ {credential.typed} :
       credential' = [credential EXCEPT !.typed = s, !.typedFor = credential.target]
  /\ UNCHANGED <<config, shown, fetch, born, conn, secrets, calls, request, errors, form, job, attach, importer, add>>

UserSubmits ==
  /\ Act
  /\ credential.on /\ credential.typed # None /\ ~Pending(credential.route)
  /\ calls' = calls \cup {Call("connect", credential.route, credential.typed, credential.target)}
  /\ errors' = errors \ {credential.route}
  /\ UNCHANGED <<config, shown, fetch, born, conn, secrets, request, credential, form, job, attach, importer, add>>

UserClosesCredential ==
  /\ Act
  /\ credential.on
  /\ credential' = NoDialog
  /\ UNCHANGED <<config, shown, fetch, born, conn, secrets, calls, request, errors, form, job, attach, importer, add>>

(* The dial of the whole chain: the first password that is not its server's  *)
(* is refused and forgotten.                                                 *)
Dials(r) ==
  /\ conn[r].state = "connecting"
  /\ LET refused == {i \in DOMAIN conn[r].chain : secrets[conn[r].chain[i]] # conn[r].chain[i]}
     IN IF refused = {}
        THEN conn' = [conn EXCEPT ![r].state = "connected"] /\ UNCHANGED secrets
        ELSE /\ conn' = [conn EXCEPT ![r].state = "error"]
             /\ secrets' = [secrets EXCEPT ![conn[r].chain[First(refused)]] = None]
  /\ UNCHANGED <<config, shown, fetch, born, calls, request, credential, errors, form, job, attach, importer, add, acts>>

LinkDrops(r) ==
  /\ Act
  /\ conn[r].state = "connected"
  /\ conn' = [conn EXCEPT ![r].state = "connecting"]
  /\ UNCHANGED <<config, shown, fetch, born, secrets, calls, request, credential, errors, form, job, attach, importer, add>>

--------------------------------------------------------------------------------
(* The form of a Route: its Save and its Delete. *)

Users(c, r) == {k \in Clusters : c.via[k] = r}

UserOpensForm ==
  /\ Act
  /\ ~credential.on /\ ~form.on
  /\ \/ /\ ~importer.on
        /\ \E r \in Saved(shown) \cup {None} : form' = [NoForm EXCEPT !.on = TRUE, !.route = r]
     \/ /\ ~importer.on
        /\ \E k \in Users(shown, None) : form' = [NoForm EXCEPT !.on = TRUE, !.from = "banner", !.cluster = k]
     \/ /\ importer.on /\ Saved(shown) = {}
        /\ form' = [NoForm EXCEPT !.on = TRUE, !.from = "importer"]
  /\ UNCHANGED <<config, shown, fetch, born, conn, secrets, calls, request, credential, errors, job, attach, importer, add>>

UserClosesForm ==
  /\ Act
  /\ form.on /\ ~(job.op = "delete" /\ job.from = form.from)
  /\ form' = NoForm
  /\ UNCHANGED <<config, shown, fetch, born, conn, secrets, calls, request, credential, errors, job, attach, importer, add>>

Job(op, chain) == [op |-> op, stage |-> "sent", route |-> form.route, chain |-> chain, from |-> form.from,
                   cluster |-> form.cluster]

UserSaves ==
  /\ Act
  /\ form.on /\ job = NoJob
  /\ form.route = None => born # Routes
  /\ \E chain \in Chains : job' = Job("save", chain)
  /\ UNCHANGED <<config, shown, fetch, born, conn, secrets, calls, request, credential, errors, form, attach, importer, add>>

(* The Delete of a Route that a Cluster is shown to use is disabled. *)
UserDeletes ==
  /\ Act
  /\ form.on /\ form.route # None /\ job = NoJob
  /\ Users(shown, form.route) = {}
  /\ job' = Job("delete", NoChain)
  /\ UNCHANGED <<config, shown, fetch, born, conn, secrets, calls, request, credential, errors, form, attach, importer, add>>

Fails == [job EXCEPT !.stage = "failed"]

SaveRoute ==
  /\ job.op = "save" /\ job.stage = "sent"
  /\ \E r \in IF job.route = None THEN Routes \ born ELSE {job.route} :
       IF job.route = None \/ r \in Saved(config)
       THEN /\ config' = [config EXCEPT !.chain[r] = job.chain]
            /\ born' = born \cup {r}
            /\ job' = [job EXCEPT !.stage = "done", !.route = r]
       ELSE job' = Fails /\ UNCHANGED <<config, born>>
  /\ UNCHANGED <<shown, fetch, conn, secrets, calls, request, credential, errors, form, attach, importer, add, acts>>

(* DeleteRoute looks whether the Route is used, disconnects it, ... *)
Deletable(r) == r \in Saved(config) /\ Users(config, r) = {}

DeleteChecks ==
  /\ job.op = "delete" /\ job.stage = "sent"
  /\ job' = IF Deletable(job.route) THEN [job EXCEPT !.stage = "checked"] ELSE Fails
  /\ UNCHANGED <<config, shown, fetch, born, conn, secrets, calls, request, credential, errors, form, attach,
                 importer, add, acts>>

DeleteStops ==
  /\ job.op = "delete" /\ job.stage = "checked"
  /\ conn' = [conn EXCEPT ![job.route] = Down]
  /\ job' = [job EXCEPT !.stage = "stopped"]
  /\ UNCHANGED <<config, shown, fetch, born, secrets, calls, request, credential, errors, form, attach,
                 importer, add, acts>>

(* Mutant of DeleteRemoves: it does not look again. *)
DeleteRemovesAnyway ==
  /\ job.op = "delete" /\ job.stage = "stopped"
  /\ config' = [config EXCEPT !.chain[job.route] = NoChain]
  /\ job' = [job EXCEPT !.stage = "done"]
  /\ UNCHANGED <<shown, fetch, born, conn, secrets, calls, request, credential, errors, form, attach,
                 importer, add, acts>>

(* ... and looks again before it removes it. *)
DeleteRemoves ==
  /\ job.op = "delete" /\ job.stage = "stopped"
  /\ IF Deletable(job.route)
     THEN /\ config' = [config EXCEPT !.chain[job.route] = NoChain]
          /\ job' = [job EXCEPT !.stage = "done"]
     ELSE job' = Fails /\ UNCHANGED config
  /\ UNCHANGED <<shown, fetch, born, conn, secrets, calls, request, credential, errors, form, attach,
                 importer, add, acts>>

JobFails ==
  /\ job.stage = "failed"
  /\ job' = NoJob
  /\ UNCHANGED <<config, shown, fetch, born, conn, secrets, calls, request, credential, errors, form, attach,
                 importer, add, acts>>

Attach(k, r) == [stage |-> "sent", cluster |-> k, route |-> r]

(* A Route saved from a banner is given to its Cluster; one saved from the   *)
(* importer becomes the importer's, which asks to connect it.                *)
JobDone ==
  /\ job.stage = "done"
  /\ job' = [job EXCEPT !.stage = "closing"]
  /\ Invalidate
  /\ IF job.op = "save" /\ job.from = "banner"
     THEN attach.stage = "idle" /\ attach' = Attach(job.cluster, job.route)
     ELSE UNCHANGED attach
  /\ IF job.op = "save" /\ job.from = "importer" /\ importer.on
     THEN /\ importer' = [importer EXCEPT !.route = job.route, !.found = "none"]
          /\ IF IsUp(job.route) THEN UNCHANGED request ELSE Requested(job.route)
     ELSE UNCHANGED <<importer, request>>
  /\ UNCHANGED <<config, shown, born, conn, secrets, calls, credential, errors, form, add, acts>>

--------------------------------------------------------------------------------
(* The Route of a Cluster. *)

UserSetsRoute ==
  /\ Act
  /\ Behind /\ attach.stage = "idle"
  /\ \E k \in Clusters \ shown.remote, r \in Saved(shown) \cup {None} :
       /\ shown.via[k] \notin {Absent, r}
       /\ attach' = Attach(k, r)
  /\ UNCHANGED <<config, shown, fetch, born, conn, secrets, calls, request, credential, errors, form, job, importer, add>>

SetClusterRoute ==
  /\ attach.stage = "sent"
  /\ IF /\ config.via[attach.cluster] # Absent
        /\ attach.route \in Saved(config) \cup {None}
        /\ attach.cluster \in config.remote => attach.route = config.via[attach.cluster]
     THEN /\ config' = [config EXCEPT !.via[attach.cluster] = attach.route]
          /\ attach' = [attach EXCEPT !.stage = "done"]
     ELSE attach' = NoAttach /\ UNCHANGED config
  /\ UNCHANGED <<shown, fetch, born, conn, secrets, calls, request, credential, errors, form, job, importer, add, acts>>

RouteIsSet ==
  /\ attach.stage = "done"
  /\ attach' = NoAttach
  /\ Invalidate
  /\ UNCHANGED <<config, shown, born, conn, secrets, calls, request, credential, errors, form, job, importer, add, acts>>

--------------------------------------------------------------------------------
(* Adding a Cluster from an SSH server: the Route is connected, the          *)
(* kubeconfig on its last server read, a context picked.                     *)

ImporterBehind == importer.on /\ ~form.on /\ ~credential.on

(* Mutant of Imports: the pick outlives a change of the Route. *)
ImportsStill(r) == importer' = [NoImporter EXCEPT !.on = TRUE, !.route = r, !.asking = TRUE, !.picked = importer.picked]

Imports(r) == importer' = [NoImporter EXCEPT !.on = TRUE, !.route = r, !.asking = TRUE]

Chooses(r) ==
  /\ Imports(r)
  /\ IF r = None \/ IsUp(r) THEN UNCHANGED request ELSE Requested(r)

UserOpensImporter ==
  /\ Act
  /\ Behind /\ request = None
  /\ IF Saved(shown) = {} THEN Chooses(None) ELSE \E r \in Saved(shown) : Chooses(r)
  /\ UNCHANGED <<config, shown, fetch, born, conn, secrets, calls, credential, errors, form, job, attach, add>>

UserPicksRoute ==
  /\ Act
  /\ ImporterBehind /\ request = None
  /\ \E r \in Saved(shown) \ {importer.route} : Chooses(r)
  /\ UNCHANGED <<config, shown, fetch, born, conn, secrets, calls, credential, errors, form, job, attach, add>>

UserRetries ==
  /\ Act
  /\ ImporterBehind /\ request = None /\ importer.route # None
  /\ importer.route \in errors \/ conn[importer.route].state = "error"
  /\ Requested(importer.route)
  /\ UNCHANGED <<config, shown, fetch, born, conn, secrets, calls, credential, errors, form, job, attach, importer, add>>

Connected(r) == r # None /\ conn[r].state = "connected"

KubeconfigRead ==
  /\ importer.on /\ Connected(importer.route) /\ importer.found = "none"
  /\ \E f \in {"ok", "sudo", "failed"} : importer' = [importer EXCEPT !.found = f]
  /\ UNCHANGED <<config, shown, fetch, born, conn, secrets, calls, request, credential, errors, form, job, attach,
                 add, acts>>

(* The sudo password is set and the kubeconfig read again, or the dialog     *)
(* closed or reopened.                                                       *)
UserOnSudo ==
  /\ Act
  /\ ImporterBehind /\ Connected(importer.route) /\ importer.found = "sudo"
  /\ \/ importer.asking /\ importer' = [importer EXCEPT !.found = "none"]
     \/ importer' = [importer EXCEPT !.asking = ~@]
  /\ UNCHANGED <<config, shown, fetch, born, conn, secrets, calls, request, credential, errors, form, job, attach, add>>

UserPicks ==
  /\ Act
  /\ ImporterBehind /\ Connected(importer.route) /\ importer.found = "ok" /\ importer.picked = None
  /\ importer' = [importer EXCEPT !.picked = importer.route]
  /\ UNCHANGED <<config, shown, fetch, born, conn, secrets, calls, request, credential, errors, form, job, attach, add>>

UserAdds ==
  /\ Act
  /\ ImporterBehind /\ add = NoAdd
  /\ importer.found = "ok" \/ importer.picked # None
  /\ add' = [stage |-> "sent", route |-> importer.route,
             picked |-> IF importer.picked = None THEN importer.route ELSE importer.picked]
  /\ UNCHANGED <<config, shown, fetch, born, conn, secrets, calls, request, credential, errors, form, job, attach, importer>>

(* ImportRemoteCluster reads the kubeconfig, then saves the Cluster. *)
ImportReads ==
  /\ add.stage = "sent"
  /\ add' = IF Connected(add.route) THEN [add EXCEPT !.stage = "read"] ELSE NoAdd
  /\ UNCHANGED <<config, shown, fetch, born, conn, secrets, calls, request, credential, errors, form, job, attach,
                 importer, acts>>

ImportSaves ==
  /\ add.stage = "read"
  /\ \/ /\ add.route \in Saved(config)
        /\ \E k \in Users(config, Absent) :
             config' = [config EXCEPT !.via[k] = add.route, !.remote = @ \cup {k}]
        /\ add' = [add EXCEPT !.stage = "done"]
     \/ add' = NoAdd /\ UNCHANGED config
  /\ UNCHANGED <<shown, fetch, born, conn, secrets, calls, request, credential, errors, form, job, attach,
                 importer, acts>>

AddAnswered ==
  /\ add.stage = "done"
  /\ add' = [add EXCEPT !.stage = "closing"]
  /\ Invalidate
  /\ UNCHANGED <<config, shown, born, conn, secrets, calls, request, credential, errors, form, job, attach,
                 importer, acts>>

(* Closing it leaves its Add to run; it and what it opened are gone. *)
UserClosesImporter ==
  /\ Act
  /\ ImporterBehind
  /\ importer' = NoImporter /\ job' = Forsaken(job)
  /\ UNCHANGED <<config, shown, fetch, born, conn, secrets, calls, request, credential, errors, form, attach, add>>

--------------------------------------------------------------------------------
Config == ConfigReads \/ ConfigLands
Connecting ==
  \/ \E r \in Routes : UserConnects(r) \/ UserDisconnects(r) \/ Dials(r) \/ LinkDrops(r)
  \/ RunsRequest
  \/ \E c \in calls : LoadsRoute(c) \/ StartsDial(c) \/ StopsRoute(c) \/ Answered(c)
  \/ UserTypes \/ UserSubmits \/ UserClosesCredential
Editing == UserOpensForm \/ UserClosesForm \/ UserSaves \/ UserDeletes \/ SaveRoute
           \/ DeleteChecks \/ DeleteStops \/ DeleteRemoves \/ JobFails \/ JobDone
Attaching == UserSetsRoute \/ SetClusterRoute \/ RouteIsSet
Importing == UserOpensImporter \/ UserPicksRoute \/ UserRetries \/ KubeconfigRead \/ UserOnSudo \/ UserPicks
             \/ UserAdds \/ ImportReads \/ ImportSaves \/ AddAnswered \/ UserClosesImporter

Next == Config \/ Connecting \/ Editing \/ Attaching \/ Importing

Spec == Init /\ [][Next]_vars

--------------------------------------------------------------------------------
Configs == [chain : [Routes -> Chains \cup {NoChain}], via : [Clusters -> Routes \cup {None, Absent}],
            remote : SUBSET Clusters]
Calls == [op : {"connect", "stop"}, route : Routes, secret : Servers \cup {None}, asked : Servers \cup {None},
          typedFor : Servers \cup {None}, chain : Chains \cup {NoChain}, stage : {"sent", "loaded", "answered"},
          result : {"none", "ok", "missing", "failed"}, missing : Servers \cup {None}]
Dialogs == [on : BOOLEAN, route : Routes \cup {None}, target : Servers \cup {None},
            typed : Servers \cup {None}, typedFor : Servers \cup {None}]
Forms == [on : BOOLEAN, route : Routes \cup {None}, from : Openers, cluster : Clusters \cup {None}]
Jobs == [op : {"none", "save", "delete"},
         stage : {"idle", "sent", "checked", "stopped", "done", "failed", "closing"},
         route : Routes \cup {None}, chain : Chains \cup {NoChain}, from : Openers \cup {"gone"},
         cluster : Clusters \cup {None}]
Attaches == [stage : {"idle", "sent", "done"}, cluster : Clusters \cup {None}, route : Routes \cup {None}]
Importers == [on : BOOLEAN, route : Routes \cup {None}, asking : BOOLEAN,
              found : {"none", "ok", "sudo", "failed"}, picked : Routes \cup {None}]
Adds == [stage : {"idle", "sent", "read", "done", "closing"}, route : Routes \cup {None}, picked : Routes \cup {None}]

(* Every variable has the type its declaration says, no id is given twice,   *)
(* and a secret that is asked for is a server's.                             *)
TypeOK ==
  /\ config \in Configs /\ shown \in Configs
  /\ fetch \in [stage : {"idle", "sent", "answered"}, got : Configs]
  /\ born \subseteq Routes /\ Saved(config) \subseteq born
  /\ conn \in [Routes -> [state : States, chain : Chains \cup {NoChain}]]
  /\ secrets \in [Servers -> Servers \cup {None}]
  /\ calls \subseteq Calls
  /\ request \in Routes \cup {None}
  /\ credential \in Dialogs /\ (credential.on => credential.route # None /\ credential.target # None)
  /\ errors \subseteq Routes
  /\ form \in Forms /\ job \in Jobs
  /\ attach \in Attaches /\ importer \in Importers /\ add \in Adds
  /\ acts \in Nat

(* What is typed for one server is never sent for another, though one dialog *)
(* serves every Route and is turned to another target while the user types   *)
(* (routes.tsx:129, 154).                                                    *)
TypedForTarget ==
  /\ credential.typed # None => credential.typedFor = credential.target
  /\ \A c \in calls : c.secret # None => c.asked = c.typedFor

(* The Route of every Cluster is in the config, whatever Deletes, Saves,     *)
(* attachments and imports run together (route.go:185).                      *)
ClusterRouteExists == \A k \in Clusters : config.via[k] \in Saved(config) \cup {None, Absent}

(* A context is added from the server it was picked on: the pick never       *)
(* outlives a change of the Route, unless that Route is the one the importer *)
(* has just saved (sidebar.tsx:245, 310).                                    *)
PickIsStale == importer.picked \notin {None, importer.route}
OwnSave == job.stage = "done" /\ job.op = "save" /\ job.from = "importer"
PickGoesStale == PickIsStale' => PickIsStale \/ OwnSave
PickKept == [][PickGoesStale]_vars

(* The Cluster that is added is one of the server whose contexts were shown: *)
(* so only where the importer never saves a Route (sidebar.tsx:310).         *)
AddedAsPicked == add.stage # "idle" => add.picked = add.route

(* RouteConnector runs every Connect the window asks for (routes.tsx:118). *)
RequestRuns == request # None /\ request' = None => \E c \in calls' : c.op = "connect" /\ c.route = request
RequestsRun == [][RequestRuns]_vars
================================================================================
