----------------------------- MODULE ConnectProofs -----------------------------
(***************************************************************************)
(* What Connect keeps for any Routes, Clusters and servers.  The types are *)
(* inductive once a Save carries a chain and a missing secret has a server *)
(* (TypeInv); what the other properties rest on is added to them.          *)
(***************************************************************************)
EXTENDS Connect, TLAPS

USE ConnectAssumption

--------------------------------------------------------------------------------
(* Chains. *)

LEMMA ChainShape ==
  ASSUME NEW c \in Chains
  PROVE  /\ c # NoChain /\ DOMAIN c \subseteq {1, 2}
         /\ \A i \in DOMAIN c : c[i] \in Servers
<1>1. CASE c \in {<<s>> : s \in Servers}
  BY <1>1 DEF NoChain
<1>2. CASE c \in Servers \X Servers
  BY <1>2 DEF NoChain
<1> QED BY <1>1, <1>2 DEF Chains

LEMMA ServersOnChain ==
  ASSUME NEW c \in Chains \cup {NoChain}
  PROVE  /\ DOMAIN c \subseteq {1, 2}
         /\ \A i \in DOMAIN c : c[i] \in Servers
BY ChainShape DEF NoChain

LEMMA FirstIsOne ==
  ASSUME NEW S \in SUBSET {1, 2}, S # {}
  PROVE  First(S) \in S
<1>1. \E i \in S : \A j \in S : i <= j
  <2>1. CASE 1 \in S
    BY <2>1
  <2>2. CASE 1 \notin S
    <3>1. S = {2}
      BY <2>2
    <3> QED BY <3>1
  <2> QED BY <2>1, <2>2
<1> QED BY <1>1 DEF First

--------------------------------------------------------------------------------
(* Types. *)

\* A Save carries the chain it saves; what a Connect misses is the secret of a server.
SavesAChain == job.op = "save" => job.chain \in Chains
MissesAServer == \A c \in calls : c.result = "missing" => c.missing \in Servers
TypeInv == TypeOK /\ SavesAChain /\ MissesAServer

LEMMA NothingOpen ==
  /\ NoDialog \in Dialogs /\ NoForm \in Forms /\ NoJob \in Jobs /\ NoAttach \in Attaches
  /\ NoImporter \in Importers /\ NoAdd \in Adds
BY DEF NoDialog, Dialogs, NoForm, Forms, Openers, NoJob, Jobs, NoAttach, Attaches, NoImporter, Importers, NoAdd, Adds

LEMMA ForsakenJob ==
  ASSUME NEW j \in Jobs
  PROVE  Forsaken(j) \in Jobs /\ Forsaken(j).op = j.op /\ Forsaken(j).chain = j.chain
BY DEF Forsaken, Jobs

\* What changes of a config when a Route's chain or a Cluster's Route does.
LEMMA ChainChanged ==
  ASSUME NEW c \in Configs, NEW r, NEW chain \in Chains \cup {NoChain}
  PROVE  /\ [c EXCEPT !.chain[r] = chain] \in Configs
         /\ [c EXCEPT !.chain[r] = chain].via = c.via
         /\ Saved([c EXCEPT !.chain[r] = chain]) \subseteq Saved(c) \cup {r}
         /\ \A x \in Saved(c) : x # r \/ chain # NoChain => x \in Saved([c EXCEPT !.chain[r] = chain])
BY DEF Configs, Saved

LEMMA TypeInit == Init => TypeInv
<1> SUFFICES ASSUME Init
             PROVE  TypeInv
  OBVIOUS
<1>1. config \in Configs
  BY DEF Init, Configs
<1>2. Saved(config) \subseteq Routes
  BY DEF Saved
<1>3. secrets \in [Servers -> Servers \cup {None}]
  BY DEF Init
<1>4. conn \in [Routes -> [state : States, chain : Chains \cup {NoChain}]]
  BY DEF Init, Down, States
<1>5. ~credential.on /\ job.op # "save"
  BY DEF Init, NoDialog, NoJob
<1> QED BY <1>1, <1>2, <1>3, <1>4, <1>5, NothingOpen DEF Init, TypeInv, TypeOK, SavesAChain, MissesAServer

LEMMA ConfigTypes == TypeInv /\ Config => TypeInv'
<1> SUFFICES ASSUME TypeInv, Config
             PROVE  TypeInv'
  OBVIOUS
<1> USE DEF TypeInv, TypeOK, SavesAChain, MissesAServer
<1>1. CASE ConfigReads
  BY <1>1 DEF ConfigReads
<1>2. CASE ConfigLands
  <2>1. fetch' \in [stage : {"idle", "sent", "answered"}, got : Configs] /\ shown' \in Configs
    BY <1>2 DEF ConfigLands
  <2>2. job' \in Jobs /\ (job'.op = "save" => job'.chain \in Chains)
    BY <1>2, ForsakenJob, NothingOpen DEF ConfigLands, NoJob
  <2>3. form' \in Forms
    BY <1>2, NothingOpen DEF ConfigLands
  <2>4. importer' \in Importers /\ add' \in Adds
    <3>1. CASE add.stage = "closing"
      BY <1>2, <3>1, NothingOpen DEF ConfigLands
    <3>2. CASE add.stage # "closing"
      BY <1>2, <3>2 DEF ConfigLands
    <3> QED BY <3>1, <3>2
  <2>5. UNCHANGED <<config, born, conn, secrets, calls, request, credential, errors, attach, acts>>
    BY <1>2 DEF ConfigLands
  <2> QED BY <2>1, <2>2, <2>3, <2>4, <2>5 DEF Saved
<1> QED BY <1>1, <1>2 DEF Config

\* A call that is sent, and one that is further.
LEMMA CallTypes ==
  ASSUME TypeInv, NEW op \in {"connect", "stop"}, NEW r \in Routes,
         NEW secret \in Servers \cup {None}, NEW asked \in Servers \cup {None}
  PROVE  Call(op, r, secret, asked) \in Calls /\ Call(op, r, secret, asked).result = "none"
BY DEF TypeInv, TypeOK, Dialogs, Call, Calls

LEMMA FilledTypes ==
  ASSUME TypeInv, NEW c \in calls
  PROVE  Filled(c) \in [Servers -> Servers \cup {None}]
<1>1. c.secret \in Servers \cup {None}
  BY DEF TypeInv, TypeOK, Calls
<1> QED BY <1>1 DEF Filled, TypeInv, TypeOK

\* What the first of the secrets that are missing is missing for.
LEMMA FirstServer ==
  ASSUME NEW c \in Chains \cup {NoChain}, NEW S \in SUBSET DOMAIN c, S # {}
  PROVE  c[First(S)] \in Servers
BY ServersOnChain, FirstIsOne

LEMMA ConnectingTypes == TypeInv /\ Connecting => TypeInv'
<1> SUFFICES ASSUME TypeInv, Connecting
             PROVE  TypeInv'
  OBVIOUS
<1> USE DEF TypeInv, TypeOK, SavesAChain, MissesAServer, Saved
<1>1. ASSUME NEW r \in Routes, UserConnects(r) PROVE TypeInv'
  BY <1>1 DEF UserConnects, Act, Requested
<1>2. ASSUME NEW r \in Routes, UserDisconnects(r) PROVE TypeInv'
  BY <1>2, CallTypes DEF UserDisconnects, Act
<1>3. ASSUME NEW r \in Routes, Dials(r) PROVE TypeInv'
  <2>1. conn' \in [Routes -> [state : States, chain : Chains \cup {NoChain}]]
    BY <1>3 DEF Dials, States
  <2>2. secrets' \in [Servers -> Servers \cup {None}]
    BY <1>3 DEF Dials
  <2> QED BY <1>3, <2>1, <2>2 DEF Dials
<1>4. ASSUME NEW r \in Routes, LinkDrops(r) PROVE TypeInv'
  <2>1. conn' \in [Routes -> [state : States, chain : Chains \cup {NoChain}]]
    BY <1>4 DEF LinkDrops, States
  <2> QED BY <1>4, <2>1 DEF LinkDrops, Act
<1>5. CASE RunsRequest
  BY <1>5, CallTypes DEF RunsRequest
<1>6. ASSUME NEW c \in calls, LoadsRoute(c) PROVE TypeInv'
  <2>1. c \in Calls /\ (c.result # "missing" \/ c.missing \in Servers)
    OBVIOUS
  <2> DEFINE d == IF c.route \in Saved(config)
                  THEN [c EXCEPT !.stage = "loaded", !.chain = config.chain[c.route]] ELSE Refused(c)
  <2>2. d \in Calls /\ (d.result = "missing" => d.missing \in Servers)
    <3>1. CASE c.route \in Saved(config)
      <4>1. config.chain[c.route] \in Chains \cup {NoChain}
        BY <2>1, <3>1 DEF Configs
      <4> QED BY <2>1, <3>1, <4>1 DEF Calls
    <3>2. CASE c.route \notin Saved(config)
      BY <2>1, <3>2 DEF Calls, Refused
    <3> QED BY <3>1, <3>2
  <2>3. calls' = (calls \ {c}) \cup {d}
    BY <1>6 DEF LoadsRoute, Moves
  <2> HIDE DEF d
  <2> QED BY <1>6, <2>2, <2>3 DEF LoadsRoute
<1>7. ASSUME NEW c \in calls, StartsDial(c) PROVE TypeInv'
  <2> DEFINE open == Unfilled(c.chain, secrets')
             miss == [c EXCEPT !.stage = "answered", !.result = "missing", !.missing = c.chain[First(open)]]
             ok == [c EXCEPT !.stage = "answered", !.result = "ok"]
  <2>1. c \in Calls /\ c.chain \in Chains \cup {NoChain}
    BY DEF Calls
  <2>2. secrets' \in [Servers -> Servers \cup {None}]
    BY <1>7, FilledTypes DEF StartsDial
  <2>3. open # {} => c.chain[First(open)] \in Servers
    BY <2>1, FirstServer DEF Unfilled
  <2>4. open # {} => miss \in Calls /\ miss.missing \in Servers
    <3> HIDE DEF open
    <3> QED BY <2>1, <2>3 DEF Calls
  <2>5. ok \in Calls /\ ok.result # "missing"
    BY <2>1 DEF Calls
  <2>6. calls' \subseteq Calls /\ MissesAServer'
    <3>1. calls' = (calls \ {c}) \cup {IF open # {} THEN miss ELSE ok}
      BY <1>7 DEF StartsDial, Moves
    <3> HIDE DEF open, miss, ok
    <3> QED BY <3>1, <2>4, <2>5
  <2>7. conn' \in [Routes -> [state : States, chain : Chains \cup {NoChain}]]
    BY <1>7, <2>1 DEF StartsDial, States
  <2> HIDE DEF open, miss, ok
  <2> QED BY <1>7, <2>2, <2>6, <2>7 DEF StartsDial
<1>8. ASSUME NEW c \in calls, StopsRoute(c) PROVE TypeInv'
  <2> DEFINE d == [c EXCEPT !.stage = "answered", !.result = "ok"]
  <2>1. d \in Calls /\ d.result # "missing"
    BY ZenonT(40) DEF Calls
  <2>2. calls' = (calls \ {c}) \cup {d}
    BY <1>8 DEF StopsRoute, Moves
  <2>3. conn' \in [Routes -> [state : States, chain : Chains \cup {NoChain}]]
    BY <1>8 DEF StopsRoute, States, Down
  <2> HIDE DEF d
  <2> QED BY <1>8, <2>1, <2>2, <2>3 DEF StopsRoute
<1>9. ASSUME NEW c \in calls, Answered(c) PROVE TypeInv'
  <2>1. c \in Calls /\ c.route \in Routes /\ (c.result = "missing" => c.missing \in Servers)
    BY DEF Calls
  <2>2. credential' \in Dialogs /\ (credential'.on => credential'.route # None /\ credential'.target # None)
    BY <1>9, <2>1 DEF Answered, Asks, NoDialog, Dialogs
  <2> QED BY <1>9, <2>1, <2>2 DEF Answered
<1>10. CASE UserTypes
  <2>1. credential' \in Dialogs /\ (credential'.on => credential'.route # None /\ credential'.target # None)
    BY <1>10 DEF UserTypes, Dialogs
  <2> QED BY <1>10, <2>1 DEF UserTypes, Act
<1>11. CASE UserSubmits
  <2>1. /\ credential.route \in Routes /\ credential.typed \in Servers \cup {None}
        /\ credential.target \in Servers \cup {None}
    BY <1>11 DEF UserSubmits, Dialogs
  <2> QED BY <1>11, <2>1, CallTypes DEF UserSubmits, Act
<1>12. CASE UserClosesCredential
  BY <1>12, NothingOpen DEF UserClosesCredential, Act, NoDialog
<1> QED BY <1>1, <1>2, <1>3, <1>4, <1>5, <1>6, <1>7, <1>8, <1>9, <1>10, <1>11, <1>12 DEF Connecting

\* A form, opened by any of the three that open one.
LEMMA FormOpens ==
  ASSUME TypeInv, UserOpensForm
  PROVE  TypeInv'
<1>1. \A r \in Routes \cup {None} : [NoForm EXCEPT !.on = TRUE, !.route = r] \in Forms
  BY DEF NoForm, Forms, Openers
<1>2. \A k \in Clusters : [NoForm EXCEPT !.on = TRUE, !.from = "banner", !.cluster = k] \in Forms
  BY DEF NoForm, Forms, Openers
<1>3. [NoForm EXCEPT !.on = TRUE, !.from = "importer"] \in Forms
  BY DEF NoForm, Forms, Openers
<1>4. Saved(shown) \subseteq Routes /\ Users(shown, None) \subseteq Clusters
  BY DEF Saved, Users
<1>5. form' \in Forms
  <2>1. CASE \E r \in Saved(shown) \cup {None} : form' = [NoForm EXCEPT !.on = TRUE, !.route = r]
    BY <1>1, <1>4, <2>1
  <2>2. CASE \E k \in Users(shown, None) : form' = [NoForm EXCEPT !.on = TRUE, !.from = "banner", !.cluster = k]
    BY <1>2, <1>4, <2>2
  <2>3. CASE form' = [NoForm EXCEPT !.on = TRUE, !.from = "importer"]
    BY <1>3, <2>3
  <2> QED BY <2>1, <2>2, <2>3, Zenon DEF UserOpensForm
<1>6. /\ acts < MaxActs /\ acts' = acts + 1
      /\ UNCHANGED <<config, shown, fetch, born, conn, secrets, calls, request, credential, errors, job, attach,
                     importer, add>>
  BY Zenon DEF UserOpensForm, Act
<1> QED BY <1>5, <1>6 DEF TypeInv, TypeOK, SavesAChain, MissesAServer, Saved

\* What a Save leaves of the config: all of it, and the Route's new chain.
LEMMA SaveKeeps ==
  ASSUME TypeInv, SaveRoute
  PROVE  /\ config' \in Configs /\ born' \subseteq Routes /\ job' \in Jobs
         /\ config'.via = config.via /\ job'.op = job.op /\ job'.chain = job.chain
         /\ Saved(config) \subseteq Saved(config') /\ Saved(config') \subseteq born'
<1>1. /\ job.chain \in Chains \cup {NoChain} /\ job.chain # NoChain /\ job \in Jobs /\ config \in Configs
      /\ born \subseteq Routes /\ Saved(config) \subseteq born
  BY ChainShape DEF SaveRoute, TypeInv, TypeOK, SavesAChain
<1>2. PICK r \in IF job.route = None THEN Routes \ born ELSE {job.route} :
        IF job.route = None \/ r \in Saved(config)
        THEN /\ config' = [config EXCEPT !.chain[r] = job.chain]
             /\ born' = born \cup {r}
             /\ job' = [job EXCEPT !.stage = "done", !.route = r]
        ELSE job' = Fails /\ UNCHANGED <<config, born>>
  BY DEF SaveRoute
<1>3. r \in Routes
  BY <1>1, <1>2 DEF Jobs
<1>4. CASE job.route = None \/ r \in Saved(config)
  <2>1. /\ config' = [config EXCEPT !.chain[r] = job.chain] /\ born' = born \cup {r}
        /\ job' = [job EXCEPT !.stage = "done", !.route = r]
    BY <1>2, <1>4
  <2>2. job' \in Jobs /\ job'.op = job.op /\ job'.chain = job.chain
    BY <1>1, <1>3, <2>1 DEF Jobs
  <2> QED BY <1>1, <1>3, <2>1, <2>2, ChainChanged
<1>5. CASE ~(job.route = None \/ r \in Saved(config))
  <2>1. job' = Fails /\ UNCHANGED <<config, born>>
    BY <1>2, <1>5
  <2> QED BY <1>1, <2>1 DEF Fails, Jobs
<1> QED BY <1>4, <1>5

LEMMA RouteSaved ==
  ASSUME TypeInv, SaveRoute
  PROVE  TypeInv'
<1>1. UNCHANGED <<shown, fetch, conn, secrets, calls, request, credential, errors, form, attach, importer, add, acts>>
  BY DEF SaveRoute
<1> QED BY <1>1, SaveKeeps DEF TypeInv, TypeOK, SavesAChain, MissesAServer

LEMMA EditingTypes == TypeInv /\ Editing => TypeInv'
<1> SUFFICES ASSUME TypeInv, Editing
             PROVE  TypeInv'
  OBVIOUS
<1> USE DEF TypeInv, TypeOK, SavesAChain, MissesAServer, Saved
<1>1. CASE UserOpensForm
  BY <1>1, FormOpens
<1>2. CASE UserClosesForm
  BY <1>2, NothingOpen DEF UserClosesForm, Act
<1>3. ASSUME NEW op \in {"save", "delete"}, NEW chain \in Chains \cup {NoChain}
      PROVE  Job(op, chain) \in Jobs /\ Job(op, chain).op = op /\ Job(op, chain).chain = chain
  BY DEF Job, Jobs, Forms
<1>4. CASE UserSaves
  BY <1>4, <1>3 DEF UserSaves, Act
<1>5. CASE UserDeletes
  BY <1>5, <1>3 DEF UserDeletes, Act
<1>6. CASE SaveRoute
  BY <1>6, RouteSaved
<1>7. ASSUME NEW s \in {"checked", "stopped", "done", "failed", "closing"}
      PROVE  /\ [job EXCEPT !.stage = s] \in Jobs
             /\ [job EXCEPT !.stage = s].op = job.op /\ [job EXCEPT !.stage = s].chain = job.chain
  BY DEF Jobs
<1>8. CASE DeleteChecks
  BY <1>8, <1>7 DEF DeleteChecks, Fails
<1>9. CASE DeleteStops
  <2>1. conn' \in [Routes -> [state : States, chain : Chains \cup {NoChain}]]
    BY <1>9 DEF DeleteStops, Down, States
  <2> QED BY <1>9, <1>7, <2>1 DEF DeleteStops
<1>10. CASE DeleteRemoves
  <2>1. config' \in Configs /\ Saved(config)' \subseteq Saved(config)
    BY <1>10, SMTT(30) DEF DeleteRemoves, Configs
  <2> QED BY <1>10, <1>7, <2>1 DEF DeleteRemoves, Fails
<1>11. CASE JobFails
  BY <1>11, NothingOpen DEF JobFails, NoJob
<1>12. CASE JobDone
  <2>1. fetch' \in [stage : {"idle", "sent", "answered"}, got : Configs]
    BY <1>12 DEF JobDone, Invalidate
  <2>2. attach' \in Attaches
    BY <1>12 DEF JobDone, Attach, Attaches, Jobs
  <2>3. importer' \in Importers /\ request' \in Routes \cup {None}
    BY <1>12, ZenonT(40) DEF JobDone, Importers, Jobs, Requested
  <2> QED BY <1>12, <1>7, <2>1, <2>2, <2>3 DEF JobDone
<1> QED BY <1>1, <1>2, <1>4, <1>5, <1>6, <1>8, <1>9, <1>10, <1>11, <1>12 DEF Editing

LEMMA AttachingTypes == TypeInv /\ Attaching => TypeInv'
<1> SUFFICES ASSUME TypeInv, Attaching
             PROVE  TypeInv'
  OBVIOUS
<1> USE DEF TypeInv, TypeOK, SavesAChain, MissesAServer, Saved
<1>1. CASE UserSetsRoute
  <2>1. attach' \in Attaches
    BY <1>1 DEF UserSetsRoute, Attach, Attaches
  <2> QED BY <1>1, <2>1 DEF UserSetsRoute, Act
<1>2. CASE SetClusterRoute
  <2>1. config' \in Configs /\ config'.chain = config.chain
    <3>1. CASE config' = [config EXCEPT !.via[attach.cluster] = attach.route]
      BY <3>1 DEF Configs, Attaches
    <3>2. CASE UNCHANGED config
      BY <3>2
    <3> QED BY <1>2, <3>1, <3>2 DEF SetClusterRoute
  <2>2. attach' \in Attaches
    BY <1>2, NothingOpen DEF SetClusterRoute, Attaches
  <2> QED BY <1>2, <2>1, <2>2 DEF SetClusterRoute
<1>3. CASE RouteIsSet
  <2>1. fetch' \in [stage : {"idle", "sent", "answered"}, got : Configs]
    BY <1>3 DEF RouteIsSet, Invalidate
  <2> QED BY <1>3, <2>1, NothingOpen DEF RouteIsSet
<1> QED BY <1>1, <1>2, <1>3 DEF Attaching

LEMMA ImportingTypes == TypeInv /\ Importing => TypeInv'
<1> SUFFICES ASSUME TypeInv, Importing
             PROVE  TypeInv'
  OBVIOUS
<1> USE DEF TypeInv, TypeOK, SavesAChain, MissesAServer, Saved
<1>1. ASSUME NEW r \in Routes \cup {None}, Chooses(r)
      PROVE  importer' \in Importers /\ request' \in Routes \cup {None}
  BY <1>1 DEF Chooses, Imports, NoImporter, Importers, Requested
<1>2. CASE UserOpensImporter
  <2>1. \E r \in Routes \cup {None} : Chooses(r)
    BY <1>2 DEF UserOpensImporter
  <2> QED BY <1>1, <1>2, <2>1 DEF UserOpensImporter, Act
<1>3. CASE UserPicksRoute
  <2>1. \E r \in Routes \cup {None} : Chooses(r)
    BY <1>3 DEF UserPicksRoute
  <2> QED BY <1>1, <1>3, <2>1 DEF UserPicksRoute, Act
<1>4. CASE UserRetries
  BY <1>4 DEF UserRetries, Act, Requested, Importers
<1>5. CASE KubeconfigRead
  <2>1. importer' \in Importers
    BY <1>5 DEF KubeconfigRead, Importers
  <2> QED BY <1>5, <2>1 DEF KubeconfigRead
<1>6. CASE UserOnSudo
  <2>1. importer' \in Importers
    BY <1>6 DEF UserOnSudo, Importers
  <2> QED BY <1>6, <2>1 DEF UserOnSudo, Act
<1>7. CASE UserPicks
  <2>1. importer' \in Importers
    BY <1>7 DEF UserPicks, Importers
  <2> QED BY <1>7, <2>1 DEF UserPicks, Act
<1>8. CASE UserAdds
  <2>1. add' \in Adds
    BY <1>8 DEF UserAdds, Adds, Importers
  <2> QED BY <1>8, <2>1 DEF UserAdds, Act
<1>9. ASSUME NEW s \in {"read", "done", "closing"}
      PROVE  [add EXCEPT !.stage = s] \in Adds
  BY DEF Adds
<1>10. CASE ImportReads
  BY <1>10, <1>9, NothingOpen DEF ImportReads
<1>11. CASE ImportSaves
  <2>1. config' \in Configs /\ config'.chain = config.chain
    <3>1. ASSUME NEW k \in Clusters,
                 config' = [config EXCEPT !.via[k] = add.route, !.remote = @ \cup {k}]
          PROVE  config' \in Configs /\ config'.chain = config.chain
      BY <3>1 DEF Configs, Adds
    <3>2. CASE UNCHANGED config
      BY <3>2
    <3> QED BY <1>11, <3>1, <3>2 DEF ImportSaves, Users
  <2> QED BY <1>11, <1>9, <2>1, NothingOpen DEF ImportSaves
<1>12. CASE AddAnswered
  <2>1. fetch' \in [stage : {"idle", "sent", "answered"}, got : Configs]
    BY <1>12 DEF AddAnswered, Invalidate
  <2> QED BY <1>12, <1>9, <2>1 DEF AddAnswered
<1>13. CASE UserClosesImporter
  <2>1. job' \in Jobs /\ job'.op = job.op /\ job'.chain = job.chain
    BY <1>13, ForsakenJob DEF UserClosesImporter
  <2> QED BY <1>13, <2>1, NothingOpen DEF UserClosesImporter, Act
<1> QED BY <1>2, <1>3, <1>4, <1>5, <1>6, <1>7, <1>8, <1>10, <1>11, <1>12, <1>13 DEF Importing

LEMMA TypeStep == TypeInv /\ [Next]_vars => TypeInv'
<1>1. ASSUME TypeInv, UNCHANGED vars PROVE TypeInv'
  BY <1>1 DEF vars, TypeInv, TypeOK, SavesAChain, MissesAServer, Saved
<1> QED BY <1>1, ConfigTypes, ConnectingTypes, EditingTypes, AttachingTypes, ImportingTypes DEF Next

(* Every variable keeps its type, whatever the window, the calls it made and the config do next (TypeOK of Connect). *)
THEOREM TypeCorrect == Spec => []TypeOK
<1>1. TypeInv => TypeOK
  BY DEF TypeInv
<1> QED BY TypeInit, TypeStep, <1>1, PTL DEF Spec

--------------------------------------------------------------------------------
(* Secrets. *)

LEMMA SecretStep == TypeInv /\ TypedForTarget /\ [Next]_vars => TypedForTarget'
<1> SUFFICES ASSUME TypeInv, TypedForTarget, [Next]_vars
             PROVE  TypedForTarget'
  OBVIOUS
<1>1. calls \subseteq Calls /\ credential \in Dialogs
  BY DEF TypeInv, TypeOK
<1> USE DEF TypedForTarget
<1>2. CASE UNCHANGED <<credential, calls>>
  BY <1>2
<1>3. CASE Config
  BY <1>3, <1>2 DEF Config, ConfigReads, ConfigLands
<1>4. CASE Editing
  BY <1>4, <1>2 DEF Editing, UserOpensForm, UserClosesForm, UserSaves, UserDeletes, SaveRoute, DeleteChecks,
                    DeleteStops, DeleteRemoves, JobFails, JobDone
<1>5. CASE Attaching
  BY <1>5, <1>2 DEF Attaching, UserSetsRoute, SetClusterRoute, RouteIsSet
<1>6. CASE Importing
  BY <1>6, <1>2 DEF Importing, UserOpensImporter, UserPicksRoute, UserRetries, KubeconfigRead, UserOnSudo,
                    UserPicks, UserAdds, ImportReads, ImportSaves, AddAnswered, UserClosesImporter
<1>7. CASE Connecting
  <2>1. ASSUME NEW c \in calls, NEW d, Moves(c, d), UNCHANGED credential,
               d.secret = c.secret, d.asked = c.asked, d.typedFor = c.typedFor
        PROVE  TypedForTarget'
    BY <2>1 DEF Moves
  <2>2. ASSUME NEW op, NEW r, calls' = calls \cup {Call(op, r, None, None)}, UNCHANGED credential
        PROVE  TypedForTarget'
    BY <2>2 DEF Call
  <2>3. ASSUME NEW r \in Routes, UserConnects(r) \/ UserDisconnects(r) \/ Dials(r) \/ LinkDrops(r)
        PROVE  TypedForTarget'
    BY <2>3, <2>2, <1>2 DEF UserConnects, UserDisconnects, Dials, LinkDrops
  <2>4. CASE RunsRequest
    BY <2>4, <2>2, <1>2 DEF RunsRequest
  <2>5. ASSUME NEW c \in calls, LoadsRoute(c) PROVE TypedForTarget'
    <3>1. c \in Calls
      BY <1>1
    <3>2. CASE c.route \in Saved(config)
      <4>1. Moves(c, [c EXCEPT !.stage = "loaded", !.chain = config.chain[c.route]]) /\ UNCHANGED credential
        BY <2>5, <3>2 DEF LoadsRoute
      <4> QED BY <2>1, <3>1, <4>1 DEF Calls
    <3>3. CASE c.route \notin Saved(config)
      <4>1. Moves(c, [c EXCEPT !.stage = "answered", !.result = "failed"]) /\ UNCHANGED credential
        BY <2>5, <3>3 DEF LoadsRoute, Refused
      <4> QED BY <2>1, <3>1, <4>1 DEF Calls
    <3> QED BY <3>2, <3>3
  <2>6. ASSUME NEW c \in calls, StartsDial(c) PROVE TypedForTarget'
    <3>1. c \in Calls
      BY <1>1
    <3>2. PICK m : \/ Moves(c, [c EXCEPT !.stage = "answered", !.result = "missing", !.missing = m])
                   \/ Moves(c, [c EXCEPT !.stage = "answered", !.result = "ok"])
      BY <2>6 DEF StartsDial
    <3>3. UNCHANGED credential
      BY <2>6 DEF StartsDial
    <3>4. CASE Moves(c, [c EXCEPT !.stage = "answered", !.result = "missing", !.missing = m])
      BY <2>1, <3>1, <3>3, <3>4 DEF Calls
    <3>5. CASE Moves(c, [c EXCEPT !.stage = "answered", !.result = "ok"])
      BY <2>1, <3>1, <3>3, <3>5 DEF Calls
    <3> QED BY <3>2, <3>4, <3>5
  <2>7. ASSUME NEW c \in calls, StopsRoute(c) PROVE TypedForTarget'
    <3>1. c \in Calls
      BY <1>1
    <3>2. Moves(c, [c EXCEPT !.stage = "answered", !.result = "ok"]) /\ UNCHANGED credential
      BY <2>7 DEF StopsRoute
    <3> QED BY <2>1, <3>1, <3>2 DEF Calls
  <2>8. ASSUME NEW c \in calls, Answered(c) PROVE TypedForTarget'
    <3>1. calls' = calls \ {c}
      BY <2>8 DEF Answered
    <3>2. credential'.typed # None => credential'.typedFor = credential'.target
      BY <2>8, <1>1 DEF Answered, Asks, NoDialog, Dialogs
    <3> QED BY <3>1, <3>2
  <2>9. CASE UserTypes
    <3>1. credential'.typedFor = credential'.target /\ UNCHANGED calls
      BY <2>9, <1>1 DEF UserTypes, Dialogs
    <3> QED BY <3>1
  <2>10. CASE UserSubmits
    <3>1. /\ calls' = calls \cup {Call("connect", credential.route, credential.typed, credential.target)}
          /\ UNCHANGED credential
      BY <2>10 DEF UserSubmits
    <3> QED BY <3>1 DEF Call
  <2>11. CASE UserClosesCredential
    BY <2>11 DEF UserClosesCredential, NoDialog
  <2> QED BY <1>7, <2>3, <2>4, <2>5, <2>6, <2>7, <2>8, <2>9, <2>10, <2>11 DEF Connecting
<1>8. CASE UNCHANGED vars
  BY <1>8, <1>2 DEF vars
<1> QED BY <1>3, <1>4, <1>5, <1>6, <1>7, <1>8 DEF Next

(* What is typed for one server is never sent for another, though the dialog serves every Route (routes.tsx:129). *)
THEOREM SecretsStayHome == Spec => []TypedForTarget
<1>1. Init => TypedForTarget
  BY DEF Init, TypedForTarget, NoDialog
<1> QED BY TypeInit, TypeStep, <1>1, SecretStep, PTL DEF Spec

--------------------------------------------------------------------------------
(* The Route of a Cluster. *)

LEMMA RouteExistsStep == TypeInv /\ ClusterRouteExists /\ [Next]_vars => ClusterRouteExists'
<1> SUFFICES ASSUME TypeInv, ClusterRouteExists, [Next]_vars
             PROVE  ClusterRouteExists'
  OBVIOUS
<1>1. config \in Configs /\ \A k \in Clusters : config.via[k] \in Saved(config) \cup {None, Absent}
  BY DEF TypeInv, TypeOK, ClusterRouteExists
<1>2. CASE UNCHANGED config
  BY <1>1, <1>2 DEF ClusterRouteExists, Saved
<1>3. CASE Config
  BY <1>3, <1>2 DEF Config, ConfigReads, ConfigLands
<1>4. CASE Connecting
  BY <1>4, <1>2 DEF Connecting, UserConnects, UserDisconnects, Dials, LinkDrops, RunsRequest, LoadsRoute, StartsDial,
                    StopsRoute, Answered, UserTypes, UserSubmits, UserClosesCredential
<1>5. CASE SaveRoute
  <2>1. Saved(config) \subseteq Saved(config') /\ config'.via = config.via
    BY <1>5, SaveKeeps
  <2> QED BY <1>1, <2>1 DEF ClusterRouteExists, Saved
<1>6. CASE DeleteRemoves
  <2>1. CASE Deletable(job.route)
    <3>1. config' = [config EXCEPT !.chain[job.route] = NoChain]
      BY <1>6, <2>1 DEF DeleteRemoves
    <3>2. \A k \in Clusters : config.via[k] # job.route
      BY <2>1 DEF Deletable, Users
    <3>3. /\ config'.via = config.via
          /\ \A r \in Saved(config) : r # job.route => r \in Saved(config')
      BY <1>1, <3>1, ChainChanged
    <3> QED BY <1>1, <3>2, <3>3 DEF ClusterRouteExists, Saved
  <2>2. CASE ~Deletable(job.route)
    BY <1>2, <1>6, <2>2 DEF DeleteRemoves
  <2> QED BY <2>1, <2>2
<1>7. CASE SetClusterRoute
  <2>1. CASE /\ config' = [config EXCEPT !.via[attach.cluster] = attach.route]
             /\ attach.route \in Saved(config) \cup {None}
    BY <1>1, <2>1 DEF ClusterRouteExists, Saved, Configs
  <2> QED BY <1>7, <1>2, <2>1 DEF SetClusterRoute
<1>8. CASE ImportSaves
  <2>1. ASSUME NEW k \in Clusters, add.route \in Saved(config),
               config' = [config EXCEPT !.via[k] = add.route, !.remote = @ \cup {k}]
        PROVE  ClusterRouteExists'
    BY <1>1, <2>1 DEF ClusterRouteExists, Saved, Configs
  <2> QED BY <1>8, <1>2, <2>1 DEF ImportSaves, Users
<1>9. CASE UserOpensForm \/ UserClosesForm \/ UserSaves \/ UserDeletes \/ DeleteChecks \/ DeleteStops \/ JobFails
           \/ JobDone \/ UserSetsRoute \/ RouteIsSet
  BY <1>9, <1>2 DEF UserOpensForm, UserClosesForm, UserSaves, UserDeletes, DeleteChecks, DeleteStops, JobFails, JobDone,
                    UserSetsRoute, RouteIsSet
<1>10. CASE UserOpensImporter \/ UserPicksRoute \/ UserRetries \/ KubeconfigRead \/ UserOnSudo \/ UserPicks
            \/ UserAdds \/ ImportReads \/ AddAnswered \/ UserClosesImporter
  BY <1>10, <1>2 DEF UserOpensImporter, UserPicksRoute, UserRetries, KubeconfigRead, UserOnSudo, UserPicks, UserAdds,
                     ImportReads, AddAnswered, UserClosesImporter
<1>11. CASE UNCHANGED vars
  BY <1>11, <1>2 DEF vars
<1> QED BY <1>3, <1>4, <1>5, <1>6, <1>7, <1>8, <1>9, <1>10, <1>11 DEF Next, Editing, Attaching, Importing

(* A Cluster's Route is in the config, whatever Saves, Deletes, attachments and imports overlap (route.go:185). *)
THEOREM RoutesOfClustersExist == Spec => []ClusterRouteExists
<1>1. Init => ClusterRouteExists
  BY DEF Init, ClusterRouteExists
<1> QED BY TypeInit, TypeStep, <1>1, RouteExistsStep, PTL DEF Spec

--------------------------------------------------------------------------------
(* The pick of the importer. *)

LEMMA PickStep ==
  ASSUME TypeInv, [Next]_vars
  PROVE  PickGoesStale
<1>1. importer \in Importers
  BY DEF TypeInv, TypeOK
<1> USE DEF PickGoesStale, PickIsStale
<1>2. CASE UNCHANGED importer
  BY <1>2
<1>3. CASE importer'.picked = None
  BY <1>3
<1>4. CASE Config
  BY <1>4, <1>2, <1>3 DEF Config, ConfigReads, ConfigLands, NoImporter
<1>5. CASE Connecting
  BY <1>5, <1>2 DEF Connecting, UserConnects, UserDisconnects, Dials, LinkDrops, RunsRequest, LoadsRoute, StartsDial,
                    StopsRoute, Answered, UserTypes, UserSubmits, UserClosesCredential
<1>6. CASE JobDone
  BY <1>6, <1>2 DEF JobDone, OwnSave
<1>7. CASE UserOpensForm \/ UserClosesForm \/ UserSaves \/ UserDeletes \/ SaveRoute \/ DeleteChecks \/ DeleteStops
           \/ DeleteRemoves \/ JobFails \/ Attaching
  BY <1>7, <1>2 DEF UserOpensForm, UserClosesForm, UserSaves, UserDeletes, SaveRoute, DeleteChecks, DeleteStops,
                    DeleteRemoves, JobFails, Attaching, UserSetsRoute, SetClusterRoute, RouteIsSet
<1>8. CASE UserOpensImporter \/ UserPicksRoute \/ UserClosesImporter
  <2>1. ASSUME NEW r, Chooses(r) PROVE importer'.picked = None
    BY <2>1 DEF Chooses, Imports, NoImporter
  <2>2. CASE \E r : Chooses(r)
    BY <2>1, <2>2, <1>3
  <2>3. CASE UserClosesImporter
    BY <2>3, <1>3 DEF UserClosesImporter, NoImporter
  <2> QED BY <1>8, <2>2, <2>3 DEF UserOpensImporter, UserPicksRoute
<1>9. CASE KubeconfigRead \/ UserOnSudo
  BY <1>9, <1>1 DEF KubeconfigRead, UserOnSudo, Importers
<1>10. CASE UserPicks
  BY <1>10, <1>1 DEF UserPicks, Importers
<1>11. CASE UserRetries \/ UserAdds \/ ImportReads \/ ImportSaves \/ AddAnswered
  BY <1>11, <1>2 DEF UserRetries, UserAdds, ImportReads, ImportSaves, AddAnswered
<1>12. CASE UNCHANGED vars
  BY <1>12, <1>2 DEF vars
<1> QED BY <1>4, <1>5, <1>6, <1>7, <1>8, <1>9, <1>10, <1>11, <1>12 DEF Next, Editing, Importing

(* A context picked from one server's kubeconfig outlives a change of the Route through nothing but the Save of the *)
(* importer's own Route (sidebar.tsx:245, 310).                                                                     *)
THEOREM PicksAreKept == Spec => PickKept
<1>1. TypeInv /\ [Next]_vars => [PickGoesStale]_vars
  BY PickStep
<1> QED BY TypeInit, TypeStep, <1>1, PTL DEF Spec, PickKept

\* The importer makes a Route only where it is shown none.
Populated == Saved(shown) # {}
NotTheImporters == form.from # "importer" /\ job.from # "importer"
PickInv == NotTheImporters /\ ~PickIsStale /\ AddedAsPicked

LEMMA NotTheImportersStep ==
  ASSUME TypeInv, NotTheImporters, Populated, [Next]_vars
  PROVE  NotTheImporters'
<1>1. form \in Forms /\ job \in Jobs
  BY DEF TypeInv, TypeOK
<1> USE DEF NotTheImporters, NoForm, NoJob
<1>2. CASE UNCHANGED <<form, job>>
  BY <1>2
<1>3. CASE Config
  BY <1>3, <1>1 DEF Config, ConfigReads, ConfigLands, Forsaken
<1>4. CASE Connecting
  BY <1>4, <1>2 DEF Connecting, UserConnects, UserDisconnects, Dials, LinkDrops, RunsRequest, LoadsRoute, StartsDial,
                    StopsRoute, Answered, UserTypes, UserSubmits, UserClosesCredential
<1>5. CASE UserOpensForm
  <2>1. UNCHANGED job
    BY <1>5, Zenon DEF UserOpensForm
  <2>2. form'.from # "importer"
    BY <1>5 DEF UserOpensForm, Populated
  <2> QED BY <2>1, <2>2
<1>6. CASE UserSaves \/ UserDeletes
  BY <1>6 DEF UserSaves, UserDeletes, Job
<1>7. CASE SaveRoute
  BY <1>7, <1>1 DEF SaveRoute, Fails, Jobs
<1>8. CASE UserClosesForm \/ DeleteChecks \/ DeleteStops \/ DeleteRemoves \/ JobFails \/ JobDone
  BY <1>8, <1>1 DEF UserClosesForm, DeleteChecks, DeleteStops, DeleteRemoves, JobFails, JobDone, Fails, Jobs
<1>9. CASE Attaching
  BY <1>9, <1>2 DEF Attaching, UserSetsRoute, SetClusterRoute, RouteIsSet
<1>10. CASE UserClosesImporter
  BY <1>10 DEF UserClosesImporter, Forsaken
<1>11. CASE UserOpensImporter \/ UserPicksRoute \/ UserRetries \/ KubeconfigRead \/ UserOnSudo \/ UserPicks
            \/ UserAdds \/ ImportReads \/ ImportSaves \/ AddAnswered
  BY <1>11, <1>2 DEF UserOpensImporter, UserPicksRoute, UserRetries, KubeconfigRead, UserOnSudo, UserPicks, UserAdds,
                     ImportReads, ImportSaves, AddAnswered
<1>12. CASE UNCHANGED vars
  BY <1>12, <1>2 DEF vars
<1> QED BY <1>3, <1>4, <1>5, <1>6, <1>7, <1>8, <1>9, <1>10, <1>11, <1>12 DEF Next, Editing, Importing

LEMMA AddedStep ==
  ASSUME TypeInv, ~PickIsStale, AddedAsPicked, [Next]_vars
  PROVE  AddedAsPicked'
<1>1. add \in Adds
  BY DEF TypeInv, TypeOK
<1> USE DEF AddedAsPicked
<1>2. CASE UNCHANGED add
  BY <1>2
<1>3. CASE add' = NoAdd
  BY <1>3 DEF NoAdd
<1>4. CASE Config
  BY <1>4, <1>2, <1>3 DEF Config, ConfigReads, ConfigLands
<1>5. CASE Connecting
  BY <1>5, <1>2 DEF Connecting, UserConnects, UserDisconnects, Dials, LinkDrops, RunsRequest, LoadsRoute, StartsDial,
                    StopsRoute, Answered, UserTypes, UserSubmits, UserClosesCredential
<1>6. CASE Editing \/ Attaching
  BY <1>6, <1>2 DEF Editing, UserOpensForm, UserClosesForm, UserSaves, UserDeletes, SaveRoute, DeleteChecks,
                    DeleteStops, DeleteRemoves, JobFails, JobDone, Attaching, UserSetsRoute, SetClusterRoute, RouteIsSet
<1>7. CASE UserAdds
  BY <1>7 DEF UserAdds, PickIsStale
<1>8. CASE ImportReads \/ ImportSaves \/ AddAnswered
  BY <1>8, <1>1, <1>3 DEF ImportReads, ImportSaves, AddAnswered, Adds
<1>9. CASE UserOpensImporter \/ UserPicksRoute \/ UserRetries \/ KubeconfigRead \/ UserOnSudo \/ UserPicks
           \/ UserClosesImporter
  BY <1>9, <1>2 DEF UserOpensImporter, UserPicksRoute, UserRetries, KubeconfigRead, UserOnSudo, UserPicks,
                    UserClosesImporter
<1>10. CASE UNCHANGED vars
  BY <1>10, <1>2 DEF vars
<1> QED BY <1>4, <1>5, <1>6, <1>7, <1>8, <1>9, <1>10 DEF Next, Importing

(* While the window shows a Route, what is added is of the server whose contexts were shown: the one exception needs *)
(* an importer that was opened on none (sidebar.tsx:285, 310).                                                       *)
THEOREM AddedAsPickedWithRoutes == Spec /\ []Populated => []AddedAsPicked
<1>1. Init => PickInv
  BY DEF Init, PickInv, NotTheImporters, PickIsStale, AddedAsPicked, NoForm, NoJob, NoImporter, NoAdd
<1>2. TypeInv /\ PickInv /\ Populated /\ [Next]_vars => PickInv'
  <2> SUFFICES ASSUME TypeInv, PickInv, Populated, [Next]_vars
               PROVE  PickInv'
    OBVIOUS
  <2>1. ~PickIsStale'
    BY PickStep DEF PickInv, NotTheImporters, PickGoesStale, OwnSave
  <2> QED BY <2>1, NotTheImportersStep, AddedStep DEF PickInv
<1>3. PickInv => AddedAsPicked
  BY DEF PickInv
<1> QED BY TypeInit, TypeStep, <1>1, <1>2, <1>3, PTL DEF Spec
================================================================================
