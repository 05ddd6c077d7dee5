----------------------------- MODULE RouteProofs -----------------------------
(***************************************************************************)
(* The safety of Route for every number of callers, checkers, SSH Servers  *)
(* and runs.  Most invariants of Route are not inductive as they stand:    *)
(* what keeps them is how a run's step, its state, its clients and its     *)
(* host key prompt fit together (Chain, Prompted), so these are stated and *)
(* kept first.                                                             *)
(***************************************************************************)
EXTENDS Route, TLAPS

(* Runs are numbered in the order they are started. *)
FreshRuns == \A r \in Runs : r > started => pc[r] = "none"

(* The SSH connections of a run, its clients and its state, by its step. *)
Chain(r) ==
    /\ pc[r] = "dialing" => hops[r] < Hops
    /\ pc[r] \in {"dialed", "linked", "serving"} => hops[r] = Hops
    /\ pc[r] = "serving" => published[r]
    /\ pc[r] = "up" => state[r] = "connected"
    /\ pc[r] = "emitting" => state[r] # "idle"
    /\ pc[r] \in {"asking", "waiting"} => asked[r] \in Servers
    /\ published[r] => /\ hops[r] = Hops
                       /\ \/ pc[r] = "serving"
                          \/ state[r] = "connected" /\ pc[r] \in {"emitting", "up"}
    /\ state[r] = "connected" => \/ published[r]
                                 \/ pc[r] \in {"dropping", "hanging"}
    /\ hops[r] > 0 => \/ pc[r] \in {"dialing", "dialed", "linked", "serving", "up",
                                    "dropping", "hanging"}
                      \/ pc[r] = "emitting" /\ state[r] = "connected"

(* A prompt is pending, or its answer unread, only while the run waits for it, *)
(* or once a Stop has ended the run at the prompt.                             *)
Prompted(r) ==
    /\ pending[r] => hostKey[r] = "none"
    /\ pending[r] \/ hostKey[r] # "none" =>
         \/ pc[r] \in {"asking", "waiting"}
         \/ pc[r] \in {"emitting", "closing", "done"} /\ state[r] = "stopped"

Chains == \A r \in Runs : Chain(r)
Prompts == \A r \in Runs : Prompted(r)

(* What a check took is what rc has, or no longer is, by the run's step. *)
Checked(k) ==
    check[k] # 0 =>
        /\ published[check[k]] => (held[k] <=> fresh[k])
        /\ ~published[check[k]] => ~held[k]
        /\ pc[check[k]] = "linked" => ~fresh[k]

Checks == \A k \in Checkers : Checked(k)

(* What a snapshot on its way says is what the window has been told, or will be. *)
SnapIsCurrent ==
    /\ Told /\ snap.stage = "read" => snap.value = state[registered]
    /\ Told /\ snap.stage = "overtaken" => shown = state[registered]

Typed == TypeOK /\ FreshRuns /\ Chains

IndInv ==
    /\ Typed
    /\ Prompts
    /\ OneRun
    /\ SnapIsCurrent
    /\ ShownIsCurrent
    /\ PromptIsLive
    /\ UsedIsInConfig
    /\ Checks

-----------------------------------------------------------------------------
(* What a snapshot is made of. *)
LEMMA SnapshotOf ==
  ASSUME NEW v \in States \cup {"none"},
         NEW a \in {"asked", "read", "overtaken", "landed", "behind"}
  PROVE  [stage |-> a, value |-> v] \in Snapshots
BY DEF Snapshots

LEMMA SnapshotHas ==
  ASSUME NEW x \in Snapshots
  PROVE  /\ x.stage \in {"asked", "read", "overtaken", "landed", "behind"}
         /\ x.value \in States \cup {"none"}
BY DEF Snapshots

(* A Route without questions has no prompts. *)
LEMMA NoPrompts == ASSUME NEW S PROVE <<>> \in Seq(S)
OBVIOUS

(* A Route that was never connected has nothing to get wrong. *)
LEMMA InitInv == Init => IndInv
<1>. SUFFICES ASSUME Init
              PROVE  IndInv
  OBVIOUS
<1>. USE RouteAssumption DEF Init, Runs, Servers
<1>1. TypeOK
  <2>1. known \in SUBSET Servers /\ prompts \in Seq(Servers)
    OBVIOUS
  <2>2. started \in 0..MaxRuns /\ registered \in 0..started
    OBVIOUS
  <2>3. /\ pc \in [Runs -> RunSteps]
        /\ state \in [Runs -> States]
        /\ shown \in States
    BY DEF RunSteps, States
  <2>4. /\ asked \in [Runs -> 0..Hops]
        /\ hops \in [Runs -> 0..Hops]
    OBVIOUS
  <2>5. /\ call \in [Callers -> CallSteps]
        /\ target \in [Callers -> 0..MaxRuns]
        /\ check \in [Checkers -> 0..MaxRuns]
    BY DEF CallSteps
  <2>6. snap \in Snapshots
    BY SnapshotOf
  <2>7. /\ answer \in [Answers -> {"none", "accept", "reject", "returned"}]
        /\ awaited \in [Answers -> BOOLEAN]
        /\ forgotten \in SUBSET Runs
        /\ loads \in 0..MaxLoads
    OBVIOUS
  <2>. QED BY <2>1, <2>2, <2>3, <2>4, <2>5, <2>6, <2>7 DEF TypeOK
<1>2. FreshRuns /\ Chains
  BY DEF FreshRuns, Chains, Chain
<1>3. Prompts
  BY DEF Prompts, Prompted
<1>4. OneRun /\ SnapIsCurrent /\ ShownIsCurrent /\ PromptIsLive /\ UsedIsInConfig /\ Checks
  BY DEF OneRun, Alive, SnapIsCurrent, ShownIsCurrent, Told, PromptIsLive, UsedIsInConfig,
     Checks, Checked
<1>. QED BY <1>1, <1>2, <1>3, <1>4 DEF IndInv, Typed

-----------------------------------------------------------------------------
(* Every step keeps the types. *)
LEMMA TypeStep ==
  ASSUME Typed, [Next]_vars
  PROVE  TypeOK'
<1>. USE RouteAssumption DEF TypeOK, Typed, Runs, Servers, RunSteps, CallSteps, States,
   configVars, regVars, runVars, callVars, checkVars,
   uiVars, dialogVars
<1>1. ASSUME NEW r \in Runs, RunStep(r)
      PROVE  TypeOK'
  <2>1. CASE RunStarts(r)
    BY <2>1 DEF RunStarts, SetRouteState
  <2>2. CASE EmitState(r)
    <3>1. snap' \in Snapshots
      <4>1. Overtakes(state[r])
        BY <2>2 DEF EmitState
      <4>2. \/ snap' = [stage |-> "overtaken", value |-> snap.value]
            \/ snap' = [stage |-> "landed", value |-> "none"]
            \/ snap' = snap
        BY <4>1, Zenon DEF Overtakes
      <4>3. "none" \in States \cup {"none"} /\ snap.value \in States \cup {"none"}
        BY SnapshotHas
      <4>4. /\ [stage |-> "overtaken", value |-> snap.value] \in Snapshots
            /\ [stage |-> "landed", value |-> "none"] \in Snapshots
        BY <4>3, SnapshotOf
      <4>5. snap \in Snapshots
        OBVIOUS
      <4>. QED BY <4>2, <4>4, <4>5, Zenon
    <3>2. prompts' \in Seq(Servers) /\ busy' \in BOOLEAN
      BY <2>2, NoPrompts DEF EmitState, ClearPrompts
    <3>3. state[r] \in States \ {"idle"}
      BY <2>2 DEF EmitState, Chains, Chain
    <3>4. After(state[r]) \in RunSteps
      BY <3>3 DEF After
    <3>5. pc' \in [Runs -> RunSteps]
      BY <2>2, <3>4 DEF EmitState
    <3>6. shown' \in States
      BY <2>2, <3>3 DEF EmitState
    <3>. QED BY <2>2, <3>1, <3>2, <3>5, <3>6 DEF EmitState
  <2>3. CASE DialServer(r)
    BY <2>3 DEF DialServer, LastHop
  <2>4. CASE DialFails(r)
    <3>. USE DEF DialFails
    <3>1. hops[r] < Hops
      BY <2>4 DEF Chains, Chain
    <3>2. hops' \in [Runs -> 0..Hops]
      BY <2>4 DEF CloseAll
    <3>3. hops[r] + 1 \in 0..Hops
      BY <3>1
    <3>4. pending' \in [Runs -> BOOLEAN]
      BY <2>4
    <3>5. asked' \in [Runs -> 0..Hops]
      <4>1. asked' = asked \/ asked' = [asked EXCEPT ![r] = hops[r] + 1]
        BY <2>4
      <4>. QED BY <4>1, <3>3
    <3>6. pc' \in [Runs -> RunSteps] /\ state' \in [Runs -> States]
      BY <2>4 DEF SetRouteState
    <3>. QED BY <2>4, <3>2, <3>4, <3>5, <3>6
  <2>5. CASE DialedButStopped(r)
    BY <2>5 DEF DialedButStopped, CloseAll, SetRouteState
  <2>6. CASE Connected(r)
    BY <2>6 DEF Connected, SetRouteState
  <2>7. CASE Unpublish(r)
    BY <2>7 DEF Unpublish, ForgetClients
  <2>8. CASE CloseClients(r)
    <3>1. hops' \in [Runs -> 0..Hops]
      BY <2>8 DEF CloseClients, CloseAll
    <3>2. pc' \in [Runs -> RunSteps] /\ state' \in [Runs -> States]
      BY <2>8 DEF CloseClients, SetRouteState
    <3>. QED BY <2>8, <3>1, <3>2 DEF CloseClients
  <2>9. CASE AskHostKey(r)
    BY <2>9, SMTT(20) DEF AskHostKey, Chains, Chain
  <2>10. CASE HostKeyAnswered(r)
    <3>. USE DEF HostKeyAnswered
    <3>1. asked[r] \in Servers
      BY <2>10 DEF Chains, Chain
    <3>2. known' \in SUBSET Servers
      BY <2>10, <3>1, ZenonT(40)
    <3>3. hostKey' \in [Runs -> {"none", "accept", "reject"}] /\ asked' \in [Runs -> 0..Hops]
      BY <2>10
    <3>4. pc' \in [Runs -> RunSteps] /\ state' \in [Runs -> States]
      BY <2>10 DEF SetRouteState
    <3>. QED BY <2>10, <3>2, <3>3, <3>4
  <2>11. CASE StopWaiting(r)
    BY <2>11 DEF StopWaiting, Stoppable, SetRouteState
  <2>12. CASE Redial(r)
    BY <2>12 DEF Redial
  <2>13. CASE RunEnds(r)
    BY <2>13 DEF RunEnds
  <2>14. CASE OpenLink(r)
    BY <2>14 DEF OpenLink, NewChannel
  <2>15. CASE Publish(r)
    BY <2>15 DEF Publish
  <2>. QED BY <1>1, <2>1, <2>2, <2>3, <2>4, <2>5, <2>6, <2>7, <2>8, <2>9, <2>10, <2>11,
     <2>12, <2>13, <2>14, <2>15 DEF RunStep
<1>2. ASSUME NEW r \in Runs, LinkBreaks(r)
      PROVE  TypeOK'
  BY <1>2 DEF LinkBreaks
<1>3. ASSUME NEW k \in Callers, CallStep(k)
      PROVE  TypeOK'
  <2>1. CASE ConnectRoute(k)
    BY <2>1 DEF ConnectRoute, Goes, OnlyCall
  <2>2. CASE ConnectRefused(k)
    BY <2>2 DEF ConnectRefused, Goes, OnlyCall
  <2>3. CASE RegisterRun(k)
    BY <2>3, SMTT(20) DEF RegisterRun, Goes, IsDone
  <2>4. CASE StopRoute(k)
    <3>1. registered \in 0..MaxRuns
      BY <2>4
    <3>2. cancelled' \in [Runs -> BOOLEAN] /\ target' \in [Callers -> 0..MaxRuns]
      BY <2>4, <3>1 DEF StopRoute, CancelRegistered
    <3>3. call' \in [Callers -> CallSteps]
      BY <2>4 DEF StopRoute, Goes
    <3>. QED BY <2>4, <3>2, <3>3 DEF StopRoute, CancelRegistered
  <2>5. CASE StopReturns(k)
    BY <2>5 DEF StopReturns, Returns, Goes, IsDone
  <2>6. CASE DeleteRoute(k)
    BY <2>6 DEF DeleteRoute, Goes, OnlyCall
  <2>7. CASE DeleteStops(k)
    <3>1. registered \in 0..MaxRuns
      BY <2>7
    <3>2. cancelled' \in [Runs -> BOOLEAN] /\ target' \in [Callers -> 0..MaxRuns]
      BY <2>7, <3>1 DEF DeleteStops, CancelRegistered
    <3>3. call' \in [Callers -> CallSteps]
      BY <2>7 DEF DeleteStops, Goes
    <3>. QED BY <2>7, <3>2, <3>3 DEF DeleteStops, CancelRegistered
  <2>8. CASE DeleteFinishes(k)
    <3>. USE DEF DeleteFinishes
    <3>1. registered' \in 0..started /\ forgotten' \in SUBSET Runs
      <4>1. CASE Unregister
        <5>1. registered' = 0
          BY <4>1 DEF Unregister
        <5>2. registered # 0 => registered \in Runs
          OBVIOUS
        <5>3. forgotten' \in SUBSET Runs
          BY <4>1, <5>2 DEF Unregister, IsDone
        <5>. QED BY <5>1, <5>3, <2>8
      <4>2. CASE UNCHANGED <<registered, forgotten, inConfig>>
        BY <2>8, <4>2
      <4>. QED BY <2>8, <4>1, <4>2
    <3>3. inConfig' \in BOOLEAN
      BY <2>8
    <3>2. call' \in [Callers -> CallSteps] /\ target' \in [Callers -> 0..MaxRuns]
      BY <2>8 DEF Goes
    <3>. QED BY <2>8, <3>1, <3>2, <3>3
  <2>9. CASE Shutdown(k)
    BY <2>9 DEF Shutdown, Goes, OnlyCall
  <2>10. CASE ShutdownStops(k)
    <3>1. registered \in 0..MaxRuns
      BY <2>10
    <3>2. cancelled' \in [Runs -> BOOLEAN] /\ target' \in [Callers -> 0..MaxRuns]
      BY <2>10, <3>1 DEF ShutdownStops, CancelRegistered
    <3>3. call' \in [Callers -> CallSteps]
      BY <2>10 DEF ShutdownStops, Goes
    <3>. QED BY <2>10, <3>2, <3>3 DEF ShutdownStops, CancelRegistered
  <2>11. CASE ShutdownReturns(k)
    BY <2>11 DEF ShutdownReturns, Returns, Goes, IsDone
  <2>. QED BY <1>3, <2>1, <2>2, <2>3, <2>4, <2>5, <2>6, <2>7, <2>8, <2>9, <2>10, <2>11
     DEF CallStep
<1>4. ASSUME NEW k \in Checkers, CheckStep(k)
      PROVE  TypeOK'
  <2>1. CASE CheckAnswered(k)
    BY <2>1 DEF CheckAnswered
  <2>2. CASE CheckFoundDead(k)
    <3>1. /\ check' \in [Checkers -> 0..MaxRuns]
          /\ fresh' \in [Checkers -> BOOLEAN]
          /\ held' \in [Checkers -> BOOLEAN]
      BY <2>2 DEF CheckFoundDead
    <3>2. broken' \in [Runs -> BOOLEAN]
      BY <2>2 DEF CheckFoundDead
    <3>. QED BY <2>2, <3>1, <3>2 DEF CheckFoundDead
  <2>3. ASSUME NEW r \in Runs, CheckStarts(k, r)
        PROVE  TypeOK'
    BY <2>3 DEF CheckStarts
  <2>. QED BY <1>4, <2>1, <2>2, <2>3 DEF CheckStep
<1>5. CASE SetClusterRoute
  BY <1>5 DEF SetClusterRoute
<1>6. CASE UIStep
  <2>1. ASSUME NEW n \in Answers, AnswerHostKey(n)
        PROVE  TypeOK'
    <3>1. pending' \in [Runs -> BOOLEAN]
      BY <2>1 DEF AnswerHostKey, TakePending
    <3>2. hostKey' \in [Runs -> {"none", "accept", "reject"}]
      BY <2>1 DEF AnswerHostKey
    <3>. QED BY <2>1, <3>1, <3>2 DEF AnswerHostKey
  <2>2. ASSUME NEW n \in Answers, AnswerSettles(n)
        PROVE  TypeOK'
    <3>1. /\ prompts' \in Seq(Servers)
          /\ busy' \in BOOLEAN
      BY <2>2, NoPrompts DEF AnswerSettles, ClearPrompts
    <3>2. /\ answer' \in [Answers -> {"none", "accept", "reject", "returned"}]
          /\ awaited' \in [Answers -> BOOLEAN]
      BY <2>2 DEF AnswerSettles
    <3>. QED BY <2>2, <3>1, <3>2 DEF AnswerSettles
  <2>3. ASSUME NEW n \in Answers, NEW a \in {"accept", "reject"}, UserAnswers(n, a)
        PROVE  TypeOK'
    BY <2>3 DEF UserAnswers
  <2>4. CASE Reload
    <3>1. snap' \in Snapshots
      BY <2>4, SnapshotOf DEF Reload
    <3>2. prompts' \in Seq(Servers) /\ busy' \in BOOLEAN /\ shown' \in States
      BY <2>4, NoPrompts DEF Reload
    <3>3. answer' \in [Answers -> {"none", "accept", "reject", "returned"}]
      BY <2>4 DEF Reload
    <3>4. awaited' \in [Answers -> BOOLEAN] /\ loads' \in 0..MaxLoads
      BY <2>4 DEF Reload
    <3>. QED BY <2>4, <3>1, <3>2, <3>3, <3>4 DEF Reload
  <2>5. CASE SnapshotRead
    <3>1. registered # 0 => registered \in Runs
      OBVIOUS
    <3>2. snap' \in Snapshots
      BY <2>5, <3>1, SnapshotOf DEF SnapshotRead
    <3>. QED BY <2>5, <3>2 DEF SnapshotRead
  <2>6. CASE SnapshotLands
    <3>1. shown' \in States
      BY <2>6, SnapshotHas DEF SnapshotLands
    <3>2. snap' \in Snapshots
      BY <2>6, SnapshotOf DEF SnapshotLands
    <3>. QED BY <2>6, <3>1, <3>2 DEF SnapshotLands
  <2>. QED BY <1>6, <2>1, <2>2, <2>3, <2>4, <2>5, <2>6 DEF UIStep
<1>7. CASE UNCHANGED vars
  BY <1>7 DEF vars
<1>. QED BY <1>1, <1>2, <1>3, <1>4, <1>5, <1>6, <1>7 DEF Next

(* One step of a run concerns that run alone: it is alive, is never unstarted,   *)
(* and either has a state to emit or keeps its state, emitting it at most.       *)
RunMoves(r) ==
    /\ UNCHANGED <<started, registered, forgotten, inConfig>>
    /\ Alive(r) /\ pc'[r] # "none"
    /\ \A q \in Runs \ {r} : pc'[q] = pc[q] /\ state'[q] = state[q]
    /\ \/ pc'[r] = "emitting" /\ pc[r] # "emitting" /\ snap' = snap
       \/ /\ pc[r] \notin {"starting", "emitting"}
          /\ UNCHANGED <<state, shown, snap>>
       \/ /\ pc[r] = "emitting" /\ pc'[r] # "emitting"
          /\ UNCHANGED state
          /\ shown' = state[r]
          /\ Overtakes(state[r])

(* All of runRoute moves so, and so does the network. *)
LEMMA RunMovesLemma ==
  ASSUME Typed, NEW r \in Runs, RunStep(r) \/ LinkBreaks(r)
  PROVE  RunMoves(r)
<1>. USE DEF RunMoves, Alive, Typed, TypeOK, RunSteps, configVars, regVars, uiVars
<1>1. CASE RunStarts(r)
  BY <1>1 DEF RunStarts, SetRouteState
<1>2. CASE EmitState(r)
  <2>1. state[r] \in States \ {"idle"}
    BY <1>2 DEF EmitState, Chains, Chain, States
  <2>2. After(state[r]) \in {"dialing", "up", "backoff", "closing"}
    BY <2>1 DEF After, States
  <2>. QED BY <1>2, <2>2 DEF EmitState
<1>3. CASE DialServer(r)
  BY <1>3 DEF DialServer, LastHop
<1>4. CASE DialFails(r)
  BY <1>4 DEF DialFails, CloseAll, SetRouteState
<1>5. CASE DialedButStopped(r)
  BY <1>5 DEF DialedButStopped, CloseAll, SetRouteState
<1>6. CASE Connected(r)
  BY <1>6 DEF Connected, SetRouteState
<1>7. CASE Unpublish(r)
  BY <1>7 DEF Unpublish, ForgetClients
<1>15. CASE OpenLink(r)
  BY <1>15 DEF OpenLink
<1>16. CASE Publish(r)
  BY <1>16 DEF Publish
<1>8. CASE CloseClients(r)
  BY <1>8 DEF CloseClients, CloseAll, SetRouteState
<1>9. CASE AskHostKey(r)
  BY <1>9 DEF AskHostKey
<1>10. CASE HostKeyAnswered(r)
  BY <1>10 DEF HostKeyAnswered, SetRouteState
<1>11. CASE StopWaiting(r)
  BY <1>11 DEF StopWaiting, Stoppable, SetRouteState
<1>12. CASE Redial(r)
  BY <1>12 DEF Redial
<1>13. CASE RunEnds(r)
  BY <1>13 DEF RunEnds
<1>14. CASE LinkBreaks(r)
  BY <1>14 DEF LinkBreaks
<1>. QED BY <1>1, <1>2, <1>3, <1>4, <1>5, <1>6, <1>7, <1>8, <1>9, <1>10, <1>11, <1>12,
   <1>13, <1>14, <1>15, <1>16 DEF RunStep

(* Only ConnectRoute starts a run, the next in number. *)
LEMMA FreshStep ==
  ASSUME Typed, [Next]_vars
  PROVE  FreshRuns'
<1>. USE RouteAssumption DEF FreshRuns, TypeOK, Typed, Runs, Servers, RunSteps,
   CallSteps, States, configVars, regVars, runVars, callVars, checkVars,
   uiVars, dialogVars
<1>1. ASSUME NEW r \in Runs, RunStep(r) \/ LinkBreaks(r)
      PROVE  FreshRuns'
  <2>1. RunMoves(r)
    BY <1>1, RunMovesLemma
  <2>. QED BY <2>1 DEF RunMoves, Alive
<1>2. ASSUME NEW k \in Callers, CallStep(k)
      PROVE  FreshRuns'
  <2>1. CASE RegisterRun(k)
    BY <2>1 DEF RegisterRun, Goes, IsDone
  <2>2. CASE \/ ConnectRoute(k) \/ ConnectRefused(k) \/ StopRoute(k) \/ StopReturns(k)
             \/ DeleteRoute(k) \/ DeleteStops(k) \/ DeleteFinishes(k) \/ Shutdown(k)
             \/ ShutdownStops(k) \/ ShutdownReturns(k)
    BY <2>2 DEF ConnectRoute, Goes, OnlyCall, ConnectRefused, StopRoute,
       CancelRegistered, StopReturns, Returns, IsDone, DeleteRoute, DeleteStops,
       DeleteFinishes, StillUnused, Unregister, Shutdown, ShutdownStops, ShutdownReturns
  <2>. QED BY <1>2, <2>1, <2>2 DEF CallStep
<1>3. ASSUME NEW k \in Checkers, CheckStep(k)
      PROVE  FreshRuns'
  BY <1>3 DEF CheckAnswered, CheckFoundDead, SameChannel, CheckStarts, CheckStep
<1>4. CASE SetClusterRoute \/ UIStep \/ UNCHANGED vars
  BY <1>4 DEF SetClusterRoute, UserAnswers, AnswerHostKey, TakePending, AnswerSettles,
     ClearPrompts, Reload, SnapshotRead, SnapshotLands, UIStep, vars
<1>. QED BY <1>1, <1>2, <1>3, <1>4 DEF Next

(* Every step keeps a run's connections, clients, state and step in accord. *)
LEMMA ChainStep ==
  ASSUME Typed, [Next]_vars
  PROVE  Chains'
<1>. SUFFICES ASSUME NEW q \in Runs
               PROVE  Chain(q)'
  BY DEF Chains
<1>. USE RouteAssumption DEF Chains, Chain, FreshRuns, TypeOK, Typed, Runs, Servers,
   RunSteps, CallSteps, States, configVars, regVars, runVars, callVars, checkVars,
   uiVars, dialogVars
<1>1. ASSUME NEW r \in Runs, RunStep(r)
      PROVE  Chain(q)'
  <2>1. CASE RunStarts(r)
    BY <2>1 DEF RunStarts, SetRouteState
  <2>2. CASE EmitState(r)
    BY <2>2 DEF EmitState, ClearPrompts, Overtakes, After
  <2>3. CASE DialServer(r)
    <3>1. CASE q # r
      <4>1. /\ pc'[q] = pc[q] /\ state'[q] = state[q] /\ hops'[q] = hops[q]
            /\ asked'[q] = asked[q] /\ published'[q] = published[q]
        BY <2>3, <3>1 DEF DialServer
      <4>. QED BY <4>1
    <3>2. CASE q = r
      <4>1. hops'[r] = hops[r] + 1 /\ published'[r] = published[r] /\ state'[r] = state[r]
        BY <2>3 DEF DialServer
      <4>2. pc'[r] = IF hops[r] + 1 = Hops THEN "dialed" ELSE "dialing"
        BY <2>3 DEF DialServer, LastHop
      <4>3. ~published[r] /\ state[r] # "connected" /\ hops[r] + 1 \in 1..Hops
        BY <2>3 DEF DialServer
      <4>. QED BY <3>2, <4>1, <4>2, <4>3
    <3>. QED BY <3>1, <3>2
  <2>4. CASE DialFails(r)
    <3>1. CASE q # r
      <4>1. /\ pc'[q] = pc[q] /\ state'[q] = state[q] /\ hops'[q] = hops[q]
            /\ asked'[q] = asked[q] /\ published'[q] = published[q]
        BY <2>4, <3>1 DEF DialFails, CloseAll, SetRouteState
      <4>. QED BY <4>1
    <3>2. CASE q = r
      <4>1. hops[r] < Hops /\ ~published[r] /\ state[r] # "connected"
        BY <2>4 DEF DialFails
      <4>2. hops'[r] = 0 /\ ~published'[r]
        BY <2>4, <4>1 DEF DialFails, CloseAll
      <4>3. \/ pc'[r] = "asking" /\ asked'[r] = hops[r] + 1 /\ state'[r] = state[r]
            \/ pc'[r] = "emitting" /\ state'[r] \in {"stopped", "error", "reconnecting"}
        BY <2>4 DEF DialFails, SetRouteState
      <4>4. hops[r] + 1 \in Servers
        BY <4>1
      <4>. QED BY <3>2, <4>1, <4>2, <4>3, <4>4
    <3>. QED BY <3>1, <3>2
  <2>5. CASE DialedButStopped(r)
    <3>1. CASE q # r
      <4>1. /\ pc'[q] = pc[q] /\ state'[q] = state[q] /\ hops'[q] = hops[q]
            /\ asked'[q] = asked[q] /\ published'[q] = published[q]
        BY <2>5, <3>1 DEF DialedButStopped, CloseAll, SetRouteState
      <4>. QED BY <4>1
    <3>2. CASE q = r
      <4>1. hops'[r] = 0 /\ ~published'[r]
        BY <2>5 DEF DialedButStopped, CloseAll
      <4>2. pc'[r] = "emitting" /\ state'[r] = "stopped"
        BY <2>5 DEF DialedButStopped, SetRouteState
      <4>. QED BY <3>2, <4>1, <4>2
    <3>. QED BY <3>1, <3>2
  <2>6. CASE Connected(r)
    BY <2>6 DEF Connected, SetRouteState
  <2>7. CASE Unpublish(r)
    BY <2>7 DEF Unpublish, ForgetClients
  <2>8. CASE CloseClients(r)
    <3>1. CASE q # r
      <4>1. /\ pc'[q] = pc[q] /\ state'[q] = state[q] /\ hops'[q] = hops[q]
            /\ asked'[q] = asked[q] /\ published'[q] = published[q]
        BY <2>8, <3>1 DEF CloseClients, CloseAll, SetRouteState
      <4>. QED BY <4>1
    <3>2. CASE q = r
      <4>1. hops'[r] = 0 /\ ~published'[r]
        BY <2>8 DEF CloseClients, CloseAll
      <4>2. pc'[r] = "emitting" /\ state'[r] \in {"stopped", "reconnecting"}
        BY <2>8 DEF CloseClients, SetRouteState
      <4>. QED BY <3>2, <4>1, <4>2
    <3>. QED BY <3>1, <3>2
  <2>9. CASE AskHostKey(r)
    BY <2>9 DEF AskHostKey
  <2>10. CASE HostKeyAnswered(r)
    <3>1. CASE q # r
      <4>1. /\ pc'[q] = pc[q] /\ state'[q] = state[q] /\ hops'[q] = hops[q]
            /\ asked'[q] = asked[q] /\ published'[q] = published[q]
        BY <2>10, <3>1 DEF HostKeyAnswered, SetRouteState
      <4>. QED BY <4>1
    <3>2. CASE q = r
      <4>. pc[r] = "waiting"
        BY <2>10 DEF HostKeyAnswered
      <4>1. hops[r] = 0 /\ ~published[r] /\ state[r] # "connected"
        <5>1. Chain(r)
          OBVIOUS
        <5>2. ~published[r]
          BY <5>1
        <5>3. state[r] # "connected"
          BY <5>1, <5>2
        <5>4. hops[r] \in 0..Hops /\ ~(hops[r] > 0)
          BY <5>1
        <5>. QED BY <5>2, <5>3, <5>4
      <4>2. hops' = hops /\ published' = published
        BY <2>10 DEF HostKeyAnswered
      <4>3. \/ pc'[r] = "dialing" /\ state'[r] = state[r]
            \/ pc'[r] = "emitting" /\ state'[r] \in {"error", "reconnecting"}
        BY <2>10 DEF HostKeyAnswered, SetRouteState
      <4>. QED BY <3>2, <4>1, <4>2, <4>3
    <3>. QED BY <3>1, <3>2
  <2>11. CASE StopWaiting(r)
    BY <2>11 DEF StopWaiting, Stoppable, SetRouteState
  <2>12. CASE Redial(r)
    <3>1. /\ pc[r] = "backoff" /\ pc'[r] = "dialing" /\ \A p \in Runs \ {r} : pc'[p] = pc[p]
          /\ UNCHANGED <<state, hops, asked, published>>
      BY <2>12 DEF Redial
    <3>2. CASE q # r
      <4>1. pc'[q] = pc[q]
        BY <3>1, <3>2
      <4>. QED BY <3>1, <4>1
    <3>3. CASE q = r
      <4>1. ~published[r]
        BY <3>1
      <4>2. state[r] # "connected"
        BY <3>1, <4>1
      <4>3. hops[r] \in 0..Hops /\ ~(hops[r] > 0)
        BY <3>1
      <4>. QED BY <3>1, <3>3, <4>1, <4>2, <4>3
    <3>. QED BY <3>2, <3>3
  <2>13. CASE RunEnds(r)
    BY <2>13 DEF RunEnds
  <2>14. CASE OpenLink(r)
    BY <2>14 DEF OpenLink, NewChannel
  <2>15. CASE Publish(r)
    BY <2>15 DEF Publish
  <2>. QED BY <1>1, <2>1, <2>2, <2>3, <2>4, <2>5, <2>6, <2>7, <2>8, <2>9, <2>10, <2>11,
     <2>12, <2>13, <2>14, <2>15 DEF RunStep
<1>2. ASSUME NEW r \in Runs, LinkBreaks(r)
      PROVE  Chain(q)'
  BY <1>2 DEF LinkBreaks
<1>3. ASSUME NEW k \in Callers, CallStep(k)
      PROVE  Chain(q)'
  <2>1. CASE ConnectRoute(k)
    BY <2>1 DEF ConnectRoute, Goes, OnlyCall
  <2>2. CASE ConnectRefused(k)
    BY <2>2 DEF ConnectRefused, Goes, OnlyCall
  <2>3. CASE RegisterRun(k)
    BY <2>3 DEF RegisterRun, Goes, IsDone
  <2>4. CASE StopRoute(k)
    BY <2>4 DEF StopRoute, Goes, CancelRegistered
  <2>5. CASE StopReturns(k)
    BY <2>5 DEF StopReturns, Returns, Goes, IsDone
  <2>6. CASE DeleteRoute(k)
    BY <2>6 DEF DeleteRoute, Goes, OnlyCall
  <2>7. CASE DeleteStops(k)
    BY <2>7 DEF DeleteStops, Goes, CancelRegistered
  <2>8. CASE DeleteFinishes(k)
    BY <2>8 DEF DeleteFinishes, Goes, StillUnused, Unregister, IsDone
  <2>9. CASE Shutdown(k)
    BY <2>9 DEF Shutdown, Goes, OnlyCall
  <2>10. CASE ShutdownStops(k)
    BY <2>10 DEF ShutdownStops, Goes, CancelRegistered
  <2>11. CASE ShutdownReturns(k)
    BY <2>11 DEF ShutdownReturns, Returns, Goes, IsDone
  <2>. QED BY <1>3, <2>1, <2>2, <2>3, <2>4, <2>5, <2>6, <2>7, <2>8, <2>9, <2>10, <2>11
     DEF CallStep
<1>4. ASSUME NEW k \in Checkers, CheckStep(k)
      PROVE  Chain(q)'
  <2>1. CASE CheckAnswered(k)
    BY <2>1 DEF CheckAnswered
  <2>2. CASE CheckFoundDead(k)
    BY <2>2 DEF CheckFoundDead, SameChannel
  <2>3. ASSUME NEW r \in Runs, CheckStarts(k, r)
        PROVE  Chain(q)'
    BY <2>3 DEF CheckStarts
  <2>. QED BY <1>4, <2>1, <2>2, <2>3 DEF CheckStep
<1>5. CASE SetClusterRoute
  BY <1>5 DEF SetClusterRoute
<1>6. CASE UIStep
  <2>1. ASSUME NEW n \in Answers, AnswerHostKey(n)
        PROVE  Chain(q)'
    BY <2>1 DEF AnswerHostKey, TakePending
  <2>2. ASSUME NEW n \in Answers, AnswerSettles(n)
        PROVE  Chain(q)'
    BY <2>2 DEF AnswerSettles, ClearPrompts
  <2>3. ASSUME NEW n \in Answers, NEW a \in {"accept", "reject"}, UserAnswers(n, a)
        PROVE  Chain(q)'
    BY <2>3 DEF UserAnswers
  <2>4. CASE Reload
    BY <2>4 DEF Reload
  <2>5. CASE SnapshotRead
    BY <2>5 DEF SnapshotRead
  <2>6. CASE SnapshotLands
    BY <2>6 DEF SnapshotLands
  <2>. QED BY <1>6, <2>1, <2>2, <2>3, <2>4, <2>5, <2>6 DEF UIStep
<1>7. CASE UNCHANGED vars
  BY <1>7 DEF vars
<1>. QED BY <1>1, <1>2, <1>3, <1>4, <1>5, <1>6, <1>7 DEF Next

(* An answer finds its channel empty: while a prompt is pending nothing was sent. *)
LEMMA PromptStep ==
  ASSUME Typed, Prompts, [Next]_vars
  PROVE  Prompts'
<1>. SUFFICES ASSUME NEW q \in Runs
               PROVE  Prompted(q)'
  BY DEF Prompts
<1>. USE RouteAssumption DEF Prompts, Prompted, FreshRuns, TypeOK, Typed, Runs, Servers,
   RunSteps, CallSteps, States, configVars, regVars, runVars, callVars, checkVars,
   uiVars, dialogVars
<1>1. ASSUME NEW r \in Runs, RunStep(r)
      PROVE  Prompted(q)'
  <2>1. CASE RunStarts(r)
    BY <2>1 DEF RunStarts, SetRouteState
  <2>2. CASE EmitState(r)
    BY <2>2 DEF EmitState, ClearPrompts, Overtakes, After
  <2>3. CASE DialServer(r)
    BY <2>3 DEF DialServer, LastHop
  <2>4. CASE DialFails(r)
    <3>1. ~pending[r] /\ hostKey[r] = "none" /\ hostKey' = hostKey
      BY <2>4 DEF DialFails
    <3>2. CASE q # r
      <4>1. pc'[q] = pc[q] /\ state'[q] = state[q] /\ pending'[q] = pending[q]
        BY <2>4, <3>2 DEF DialFails, SetRouteState
      <4>. QED BY <3>1, <4>1
    <3>3. CASE q = r
      <4>1. pending'[r] => pc'[r] = "asking"
        BY <2>4, <3>1 DEF DialFails, SetRouteState
      <4>. QED BY <3>1, <3>3, <4>1
    <3>. QED BY <3>2, <3>3
  <2>5. CASE DialedButStopped(r)
    BY <2>5 DEF DialedButStopped, CloseAll, SetRouteState
  <2>6. CASE Connected(r)
    BY <2>6 DEF Connected, SetRouteState
  <2>7. CASE Unpublish(r)
    BY <2>7 DEF Unpublish, ForgetClients
  <2>8. CASE CloseClients(r)
    <3>1. ~pending[r] /\ hostKey[r] = "none"
      BY <2>8 DEF CloseClients
    <3>2. \A p \in Runs \ {r} : pc'[p] = pc[p] /\ state'[p] = state[p]
      BY <2>8 DEF CloseClients, SetRouteState
    <3>. QED BY <2>8, <3>1, <3>2 DEF CloseClients
  <2>9. CASE AskHostKey(r)
    BY <2>9 DEF AskHostKey
  <2>10. CASE HostKeyAnswered(r)
    BY <2>10 DEF HostKeyAnswered, SetRouteState
  <2>11. CASE StopWaiting(r)
    BY <2>11 DEF StopWaiting, Stoppable, SetRouteState
  <2>12. CASE Redial(r)
    BY <2>12 DEF Redial
  <2>13. CASE RunEnds(r)
    BY <2>13 DEF RunEnds
  <2>14. CASE OpenLink(r)
    BY <2>14 DEF OpenLink, NewChannel
  <2>15. CASE Publish(r)
    BY <2>15 DEF Publish
  <2>. QED BY <1>1, <2>1, <2>2, <2>3, <2>4, <2>5, <2>6, <2>7, <2>8, <2>9, <2>10, <2>11,
     <2>12, <2>13, <2>14, <2>15 DEF RunStep
<1>2. ASSUME NEW r \in Runs, LinkBreaks(r)
      PROVE  Prompted(q)'
  BY <1>2 DEF LinkBreaks
<1>3. ASSUME NEW k \in Callers, CallStep(k)
      PROVE  Prompted(q)'
  <2>1. CASE ConnectRoute(k)
    BY <2>1 DEF ConnectRoute, Goes, OnlyCall
  <2>2. CASE ConnectRefused(k)
    BY <2>2 DEF ConnectRefused, Goes, OnlyCall
  <2>3. CASE RegisterRun(k)
    BY <2>3 DEF RegisterRun, Goes, IsDone
  <2>4. CASE StopRoute(k)
    BY <2>4 DEF StopRoute, Goes, CancelRegistered
  <2>5. CASE StopReturns(k)
    BY <2>5 DEF StopReturns, Returns, Goes, IsDone
  <2>6. CASE DeleteRoute(k)
    BY <2>6 DEF DeleteRoute, Goes, OnlyCall
  <2>7. CASE DeleteStops(k)
    BY <2>7 DEF DeleteStops, Goes, CancelRegistered
  <2>8. CASE DeleteFinishes(k)
    BY <2>8 DEF DeleteFinishes, Goes, StillUnused, Unregister, IsDone
  <2>9. CASE Shutdown(k)
    BY <2>9 DEF Shutdown, Goes, OnlyCall
  <2>10. CASE ShutdownStops(k)
    BY <2>10 DEF ShutdownStops, Goes, CancelRegistered
  <2>11. CASE ShutdownReturns(k)
    BY <2>11 DEF ShutdownReturns, Returns, Goes, IsDone
  <2>. QED BY <1>3, <2>1, <2>2, <2>3, <2>4, <2>5, <2>6, <2>7, <2>8, <2>9, <2>10, <2>11
     DEF CallStep
<1>4. ASSUME NEW k \in Checkers, CheckStep(k)
      PROVE  Prompted(q)'
  <2>1. CASE CheckAnswered(k)
    BY <2>1 DEF CheckAnswered
  <2>2. CASE CheckFoundDead(k)
    BY <2>2 DEF CheckFoundDead, SameChannel
  <2>3. ASSUME NEW r \in Runs, CheckStarts(k, r)
        PROVE  Prompted(q)'
    BY <2>3 DEF CheckStarts
  <2>. QED BY <1>4, <2>1, <2>2, <2>3 DEF CheckStep
<1>5. CASE SetClusterRoute
  BY <1>5 DEF SetClusterRoute
<1>6. CASE UIStep
  <2>1. ASSUME NEW n \in Answers, AnswerHostKey(n)
        PROVE  Prompted(q)'
    BY <2>1, SMTT(20) DEF AnswerHostKey, TakePending
  <2>2. ASSUME NEW n \in Answers, AnswerSettles(n)
        PROVE  Prompted(q)'
    BY <2>2 DEF AnswerSettles, ClearPrompts
  <2>3. ASSUME NEW n \in Answers, NEW a \in {"accept", "reject"}, UserAnswers(n, a)
        PROVE  Prompted(q)'
    BY <2>3 DEF UserAnswers
  <2>4. CASE Reload
    BY <2>4 DEF Reload
  <2>5. CASE SnapshotRead
    BY <2>5 DEF SnapshotRead
  <2>6. CASE SnapshotLands
    BY <2>6 DEF SnapshotLands
  <2>. QED BY <1>6, <2>1, <2>2, <2>3, <2>4, <2>5, <2>6 DEF UIStep
<1>7. CASE UNCHANGED vars
  BY <1>7 DEF vars
<1>. QED BY <1>1, <1>2, <1>3, <1>4, <1>5, <1>6, <1>7 DEF Next

(* ConnectRoute starts a run only when the registered one has ended, and only    *)
(* DeleteRoute unregisters one, which it then has forgotten.                     *)
LEMMA OneRunStep ==
  ASSUME Typed, OneRun, [Next]_vars
  PROVE  OneRun'
<1>. USE RouteAssumption DEF OneRun, Alive, FreshRuns, TypeOK, Typed, Runs, Servers,
   RunSteps, CallSteps, States, configVars, regVars, runVars, callVars, checkVars,
   uiVars, dialogVars
<1>1. ASSUME NEW r \in Runs, RunStep(r) \/ LinkBreaks(r)
      PROVE  OneRun'
  BY <1>1 DEF RunStarts, SetRouteState, EmitState, ClearPrompts, Overtakes, After, DialServer,
     LastHop, DialFails, CloseAll, DialedButStopped, OpenLink, NewChannel,
     Publish, Connected, Unpublish, ForgetClients, CloseClients, AskHostKey, HostKeyAnswered, StopWaiting, Stoppable,
     Redial, RunEnds, LinkBreaks, RunStep
<1>2. ASSUME NEW k \in Callers, CallStep(k)
      PROVE  OneRun'
  <2>1. CASE RegisterRun(k)
    BY <2>1 DEF RegisterRun, Goes, IsDone
  <2>2. CASE DeleteFinishes(k)
    BY <2>2 DEF DeleteFinishes, Goes, StillUnused, Unregister, IsDone
  <2>3. CASE \/ ConnectRoute(k) \/ ConnectRefused(k) \/ StopRoute(k) \/ StopReturns(k)
             \/ DeleteRoute(k) \/ DeleteStops(k) \/ Shutdown(k) \/ ShutdownStops(k)
             \/ ShutdownReturns(k)
    BY <2>3 DEF ConnectRoute, Goes, OnlyCall, ConnectRefused, StopRoute,
       CancelRegistered, StopReturns, Returns, IsDone, DeleteRoute, DeleteStops,
       Shutdown, ShutdownStops, ShutdownReturns
  <2>. QED BY <1>2, <2>1, <2>2, <2>3 DEF CallStep
<1>3. ASSUME NEW k \in Checkers, CheckStep(k)
      PROVE  OneRun'
  BY <1>3 DEF CheckAnswered, CheckFoundDead, SameChannel, CheckStarts, CheckStep
<1>4. CASE SetClusterRoute \/ UIStep \/ UNCHANGED vars
  BY <1>4 DEF SetClusterRoute, UserAnswers, AnswerHostKey, TakePending, AnswerSettles,
     ClearPrompts, Reload, SnapshotRead, SnapshotLands, UIStep, vars
<1>. QED BY <1>1, <1>2, <1>3, <1>4 DEF Next

(* With one live run, only its own events reach the interface, and a snapshot that *)
(* no later event has overtaken says what the last of them said.                  *)
LEMMA ShownStep ==
  ASSUME Typed, OneRun, SnapIsCurrent, ShownIsCurrent, [Next]_vars
  PROVE  SnapIsCurrent' /\ ShownIsCurrent'
<1>. DEFINE Current == SnapIsCurrent /\ ShownIsCurrent
<1>. USE RouteAssumption DEF SnapIsCurrent, ShownIsCurrent, Told, TypeOK, Typed, Runs,
   RunSteps, configVars, regVars, runVars, callVars, checkVars, uiVars, dialogVars
<1>1. ASSUME NEW r \in Runs, RunStep(r) \/ LinkBreaks(r)
      PROVE  Current'
  <2>1. RunMoves(r)
    BY <1>1, RunMovesLemma
  <2>2. forgotten = {} => r = registered
    BY <2>1 DEF RunMoves, OneRun
  <2>3. UNCHANGED <<registered, forgotten>>
    BY <2>1 DEF RunMoves
  <2>4. CASE pc'[r] = "emitting"
    BY <2>2, <2>3, <2>4
  <2>5. CASE pc[r] \notin {"starting", "emitting"} /\ UNCHANGED <<state, shown, snap>>
    BY <2>2, <2>3, <2>5
  <2>6. CASE /\ pc[r] = "emitting" /\ UNCHANGED state
             /\ shown' = state[r] /\ Overtakes(state[r])
    <3>1. shown' = state'[r]
      BY <2>6
    <3>2. snap'.stage = "read" => snap'.value = state'[r]
      BY <2>6 DEF Overtakes, Snapshots
    <3>. QED BY <2>2, <2>3, <3>1, <3>2
  <2>. QED BY <2>1, <2>4, <2>5, <2>6 DEF RunMoves
<1>2. ASSUME NEW k \in Callers, CallStep(k)
      PROVE  Current'
  <2>1. CASE RegisterRun(k)
    BY <2>1 DEF RegisterRun, Goes, IsDone
  <2>2. CASE DeleteFinishes(k)
    BY <2>2 DEF DeleteFinishes, Goes, Unregister, IsDone
  <2>3. CASE \/ ConnectRoute(k) \/ ConnectRefused(k) \/ StopRoute(k) \/ StopReturns(k)
             \/ DeleteRoute(k) \/ DeleteStops(k) \/ Shutdown(k) \/ ShutdownStops(k)
             \/ ShutdownReturns(k)
    BY <2>3 DEF ConnectRoute, Goes, OnlyCall, ConnectRefused, StopRoute,
       CancelRegistered, StopReturns, Returns, IsDone, DeleteRoute, DeleteStops,
       Shutdown, ShutdownStops, ShutdownReturns
  <2>. QED BY <1>2, <2>1, <2>2, <2>3 DEF CallStep
<1>3. ASSUME NEW k \in Checkers, CheckStep(k)
      PROVE  Current'
  BY <1>3 DEF CheckAnswered, CheckFoundDead, SameChannel, CheckStarts, CheckStep
<1>4. CASE SnapshotLands
  <2>1. UNCHANGED <<registered, forgotten, pc, state>>
    BY <1>4 DEF SnapshotLands
  <2>2. ASSUME Told
        PROVE  snap.stage = "read" => snap.value # "none"
    <3>1. registered \in Runs
      BY <2>2
    <3>. QED BY <2>2, <3>1 DEF States
  <2>3. snap'.stage \in {"landed", "behind"}
    BY <1>4 DEF SnapshotLands
  <2>4. Told' => Told
    BY <2>1
  <2>5. ASSUME Told, snap'.stage = "landed"
        PROVE  shown' = state[registered]
    <3>1. CASE snap.stage = "read"
      BY <1>4, <2>2, <2>5, <3>1 DEF SnapshotLands
    <3>2. CASE snap.stage = "overtaken"
      BY <1>4, <2>5, <3>2 DEF SnapshotLands
    <3>. QED BY <1>4, <3>1, <3>2 DEF SnapshotLands
  <2>. QED BY <2>1, <2>3, <2>4, <2>5
<1>5. CASE Reload \/ SnapshotRead
  BY <1>5 DEF Reload, SnapshotRead
<1>6. CASE \E n \in Answers : \/ AnswerHostKey(n) \/ AnswerSettles(n)
                              \/ \E a \in {"accept", "reject"} : UserAnswers(n, a)
  BY <1>6 DEF UserAnswers, AnswerHostKey, TakePending, AnswerSettles, ClearPrompts
<1>7. CASE SetClusterRoute \/ UNCHANGED vars
  BY <1>7 DEF SetClusterRoute, vars
<1>. QED BY <1>1, <1>2, <1>3, <1>4, <1>5, <1>6, <1>7 DEF Next, UIStep

(* A prompt is shown by a waiting run, and what ends the wait ends in an event. *)
LEMMA PromptLiveStep ==
  ASSUME Typed, PromptIsLive, [Next]_vars
  PROVE  PromptIsLive'
<1>. USE RouteAssumption DEF PromptIsLive, FreshRuns, TypeOK, Typed, Runs, Servers,
   RunSteps, CallSteps, States, configVars, regVars, runVars, callVars, checkVars,
   uiVars, dialogVars
<1>1. ASSUME NEW r \in Runs, RunStep(r) \/ LinkBreaks(r), prompts' # <<>>
      PROVE  PromptIsLive'
  <2>. DEFINE Live(x) == x \in {"dialing", "dialed", "linked", "serving",
                                "asking", "waiting", "emitting"}
  <2>1. ~EmitState(r)
    BY <1>1 DEF EmitState, ClearPrompts
  <2>2. CASE AskHostKey(r)
    BY <2>2 DEF AskHostKey
  <2>3. CASE ~AskHostKey(r)
    <3>1. prompts' = prompts
      BY <1>1, <2>1, <2>3 DEF RunStarts, DialServer, DialFails, DialedButStopped, OpenLink,
         Publish, Connected, Unpublish, CloseClients, HostKeyAnswered, StopWaiting, Redial,
         RunEnds, LinkBreaks, RunStep
    <3>2. PICK q \in Runs : Live(pc[q])
      BY <1>1, <3>1
    <3>3. Live(pc[r]) => Live(pc'[r])
      BY <1>1, <2>1 DEF RunStarts, SetRouteState, DialServer, DialFails, DialedButStopped,
         OpenLink, Publish, Connected, Unpublish, CloseClients, AskHostKey,
         HostKeyAnswered, StopWaiting, Redial, RunEnds, LinkBreaks, RunStep
    <3>4. q # r => pc'[q] = pc[q]
      <4>1. RunMoves(r)
        BY <1>1, RunMovesLemma
      <4>. QED BY <4>1 DEF RunMoves
    <3>5. Live(pc'[q])
      BY <3>2, <3>3, <3>4
    <3>. QED BY <3>5
  <2>. QED BY <2>2, <2>3
<1>2. ASSUME NEW k \in Callers, CallStep(k)
      PROVE  PromptIsLive'
  <2>1. CASE RegisterRun(k)
    BY <2>1 DEF RegisterRun, Goes, IsDone
  <2>2. CASE \/ ConnectRoute(k) \/ ConnectRefused(k) \/ StopRoute(k) \/ StopReturns(k)
             \/ DeleteRoute(k) \/ DeleteStops(k) \/ DeleteFinishes(k) \/ Shutdown(k)
             \/ ShutdownStops(k) \/ ShutdownReturns(k)
    BY <2>2 DEF ConnectRoute, Goes, OnlyCall, ConnectRefused, StopRoute,
       CancelRegistered, StopReturns, Returns, IsDone, DeleteRoute, DeleteStops,
       DeleteFinishes, StillUnused, Unregister, Shutdown, ShutdownStops, ShutdownReturns
  <2>. QED BY <1>2, <2>1, <2>2 DEF CallStep
<1>3. ASSUME NEW k \in Checkers, CheckStep(k)
      PROVE  PromptIsLive'
  BY <1>3 DEF CheckAnswered, CheckFoundDead, SameChannel, CheckStarts, CheckStep
<1>4. CASE SetClusterRoute \/ UIStep \/ UNCHANGED vars
  BY <1>4 DEF SetClusterRoute, UserAnswers, AnswerHostKey, TakePending, AnswerSettles,
     ClearPrompts, Reload, SnapshotRead, SnapshotLands, UIStep, vars
<1>. QED BY <1>1, <1>2, <1>3, <1>4 DEF Next

(* The second check of DeleteRoute and SetClusterRoute are both under s.mu. *)
LEMMA UsedStep ==
  ASSUME Typed, UsedIsInConfig, [Next]_vars
  PROVE  UsedIsInConfig'
<1>. USE RouteAssumption DEF UsedIsInConfig, TypeOK, Typed, Runs, Servers, RunSteps,
   CallSteps, States, configVars, regVars, runVars, callVars, checkVars,
   uiVars, dialogVars
<1>1. ASSUME NEW r \in Runs, RunStep(r) \/ LinkBreaks(r)
      PROVE  UsedIsInConfig'
  BY <1>1 DEF RunStarts, SetRouteState, EmitState, ClearPrompts, Overtakes, After, DialServer,
     LastHop, DialFails, CloseAll, DialedButStopped, OpenLink, NewChannel,
     Publish, Connected, Unpublish, ForgetClients, CloseClients, AskHostKey, HostKeyAnswered, StopWaiting, Stoppable,
     Redial, RunEnds, LinkBreaks, RunStep
<1>2. ASSUME NEW k \in Callers, CallStep(k)
      PROVE  UsedIsInConfig'
  <2>1. CASE DeleteFinishes(k)
    BY <2>1 DEF DeleteFinishes, Goes, StillUnused, Unregister, IsDone
  <2>2. CASE \/ ConnectRoute(k) \/ ConnectRefused(k) \/ RegisterRun(k) \/ StopRoute(k)
             \/ StopReturns(k) \/ DeleteRoute(k) \/ DeleteStops(k) \/ Shutdown(k)
             \/ ShutdownStops(k) \/ ShutdownReturns(k)
    BY <2>2 DEF ConnectRoute, Goes, OnlyCall, ConnectRefused, RegisterRun, IsDone,
       StopRoute, CancelRegistered, StopReturns, Returns, DeleteRoute, DeleteStops,
       Shutdown, ShutdownStops, ShutdownReturns
  <2>. QED BY <1>2, <2>1, <2>2 DEF CallStep
<1>3. ASSUME NEW k \in Checkers, CheckStep(k)
      PROVE  UsedIsInConfig'
  BY <1>3 DEF CheckAnswered, CheckFoundDead, SameChannel, CheckStarts, CheckStep
<1>4. CASE SetClusterRoute \/ UIStep \/ UNCHANGED vars
  BY <1>4 DEF SetClusterRoute, UserAnswers, AnswerHostKey, TakePending, AnswerSettles,
     ClearPrompts, Reload, SnapshotRead, SnapshotLands, UIStep, vars
<1>. QED BY <1>1, <1>2, <1>3, <1>4 DEF Next

(* A connection's channel is made before its clients are used and its clients are  *)
(* gone before the next channel is made.                                          *)
LEMMA ChecksStep ==
  ASSUME Typed, Checks, [Next]_vars
  PROVE  Checks'
<1>. SUFFICES ASSUME NEW j \in Checkers
               PROVE  Checked(j)'
  BY DEF Checks
<1>. USE RouteAssumption DEF Checks, Checked, Chains, Chain, TypeOK, Typed, Runs,
   RunSteps, configVars, regVars, runVars, callVars, checkVars, uiVars, dialogVars
<1>1. ASSUME NEW r \in Runs, RunStep(r) \/ LinkBreaks(r)
      PROVE  Checked(j)'
  <2>1. CASE OpenLink(r)
    <3>1. /\ UNCHANGED <<check, held, published>>
          /\ \A q \in Runs \ {r} : pc'[q] = pc[q]
      BY <2>1 DEF OpenLink
    <3>2. ~published[r]
      BY <2>1 DEF OpenLink
    <3>3. fresh'[j] = IF check[j] = r THEN FALSE ELSE fresh[j]
      BY <2>1 DEF OpenLink, NewChannel
    <3>. QED BY <3>1, <3>2, <3>3
  <2>2. CASE Publish(r)
    <3>1. /\ UNCHANGED <<check, held, fresh>>
          /\ pc[r] = "linked" /\ pc'[r] = "serving"
          /\ \A q \in Runs \ {r} : pc'[q] = pc[q] /\ published'[q] = published[q]
      BY <2>2 DEF Publish
    <3>2. ~published[r] /\ pc'[r] # "linked"
      BY <3>1
    <3>3. CASE check[j] = r
      <4>1. ~held[j] /\ ~fresh[j]
        <5>1. Checked(j) /\ r # 0
          BY DEF Checks
        <5>. QED BY <5>1, <3>1, <3>2, <3>3, Zenon DEF Checked
      <4>2. ~held'[j] /\ ~fresh'[j]
        BY <3>1, <4>1
      <4>. QED BY <3>1, <3>2, <3>3, <4>2
    <3>4. CASE check[j] # r
      <4>1. check[j] # 0 => /\ pc'[check[j]] = pc[check[j]]
                            /\ published'[check[j]] = published[check[j]]
        BY <3>1, <3>4
      <4>. QED BY <3>1, <4>1
    <3>. QED BY <3>3, <3>4
  <2>3. CASE Unpublish(r)
    <3>1. /\ UNCHANGED <<check, fresh>>
          /\ pc'[r] # "linked" /\ ~published'[r]
          /\ \A q \in Runs \ {r} : pc'[q] = pc[q] /\ published'[q] = published[q]
      BY <2>3 DEF Unpublish, ForgetClients
    <3>2. held'[j] = IF check[j] = r THEN FALSE ELSE held[j]
      BY <2>3 DEF Unpublish
    <3>. QED BY <3>1, <3>2
  <2>4. CASE ~(OpenLink(r) \/ Publish(r) \/ Unpublish(r))
    <3>1. UNCHANGED <<check, fresh, held, published>>
      BY <1>1, <2>4 DEF RunStarts, EmitState, DialServer, DialFails, DialedButStopped,
         Connected, CloseClients, AskHostKey, HostKeyAnswered, StopWaiting, Redial,
         RunEnds, LinkBreaks, RunStep
    <3>2. \A q \in Runs \ {r} : pc'[q] = pc[q]
      BY <1>1, RunMovesLemma DEF RunMoves
    <3>3. CASE EmitState(r)
      <4>1. pc'[r] # "linked"
        BY <3>3 DEF EmitState, After, States
      <4>. QED BY <3>1, <3>2, <4>1
    <3>4. CASE ~EmitState(r)
      <4>1. pc'[r] = "linked" => pc[r] = "linked"
        BY <1>1, <2>4, <3>4 DEF RunStarts, SetRouteState, DialServer, DialFails,
           DialedButStopped, Connected, CloseClients, AskHostKey, HostKeyAnswered,
           StopWaiting, Redial, RunEnds, LinkBreaks, RunStep
      <4>. QED BY <3>1, <3>2, <4>1
    <3>. QED BY <3>3, <3>4
  <2>. QED BY <2>1, <2>2, <2>3, <2>4
<1>2. ASSUME NEW k \in Callers, CallStep(k)
      PROVE  Checked(j)'
  <2>1. UNCHANGED <<check, fresh, held, published>>
    BY <1>2 DEF ConnectRoute, Goes, OnlyCall, ConnectRefused, RegisterRun, StopRoute,
       CancelRegistered, StopReturns, Returns, DeleteRoute, DeleteStops, DeleteFinishes,
       Shutdown, ShutdownStops, ShutdownReturns, CallStep
  <2>2. \A q \in Runs : pc'[q] = "linked" => pc[q] = "linked"
    BY <1>2 DEF ConnectRoute, Goes, OnlyCall, ConnectRefused, RegisterRun, StopRoute,
       CancelRegistered, StopReturns, Returns, DeleteRoute, DeleteStops, DeleteFinishes,
       Shutdown, ShutdownStops, ShutdownReturns, CallStep
  <2>. QED BY <2>1, <2>2
<1>3. ASSUME NEW k \in Checkers, CheckStep(k)
      PROVE  Checked(j)'
  <2>1. UNCHANGED <<pc, published>>
    BY <1>3 DEF CheckAnswered, CheckFoundDead, CheckStarts, CheckStep
  <2>2. CASE CheckAnswered(k) \/ CheckFoundDead(k)
    <3>1. check'[k] = 0
      BY <2>2 DEF CheckAnswered, CheckFoundDead
    <3>2. j # k => check'[j] = check[j] /\ fresh'[j] = fresh[j] /\ held'[j] = held[j]
      BY <2>2 DEF CheckAnswered, CheckFoundDead
    <3>. QED BY <2>1, <3>1, <3>2
  <2>3. ASSUME NEW r \in Runs, CheckStarts(k, r)
        PROVE  Checked(j)'
    <3>1. check'[k] = r /\ fresh'[k] /\ held'[k] /\ published[r]
      BY <2>3 DEF CheckStarts
    <3>2. pc[r] # "linked"
      BY <3>1
    <3>3. j # k => check'[j] = check[j] /\ fresh'[j] = fresh[j] /\ held'[j] = held[j]
      BY <2>3 DEF CheckStarts
    <3>. QED BY <2>1, <3>1, <3>2, <3>3
  <2>. QED BY <1>3, <2>2, <2>3 DEF CheckStep
<1>4. CASE SetClusterRoute \/ UIStep \/ UNCHANGED vars
  BY <1>4 DEF SetClusterRoute, UserAnswers, AnswerHostKey, TakePending, AnswerSettles,
     ClearPrompts, Reload, SnapshotRead, SnapshotLands, UIStep, vars
<1>. QED BY <1>1, <1>2, <1>3, <1>4 DEF Next

-----------------------------------------------------------------------------
(* Every step keeps the inductive invariant. *)
LEMMA StepInv == IndInv /\ [Next]_vars => IndInv'
BY TypeStep, FreshStep, ChainStep, PromptStep, OneRunStep, ShownStep, PromptLiveStep, UsedStep,
   ChecksStep
   DEF IndInv, Typed

(* It holds throughout. *)
LEMMA Invariance == Spec => []IndInv
BY InitInv, StepInv, PTL DEF Spec

(* The variables of Route always have their types. *)
THEOREM TypeCorrect == Spec => []TypeOK
BY Invariance, PTL DEF IndInv, Typed

(* ConnectRoute never starts a second run: the one that lives is the one s.routes *)
(* has, unless a DeleteRoute has taken it out of there.                           *)
THEOREM OneRunAtATime == Spec => []OneRun
BY Invariance, PTL DEF IndInv

(* AnswerHostKey never waits for room in rc.hostKey while it holds rc.mu. *)
THEOREM AnswerNeverBlocks == Spec => []AnswerHasRoom
<1>1. IndInv => AnswerHasRoom
  BY DEF IndInv, Prompts, Prompted, AnswerHasRoom
<1>. QED BY <1>1, Invariance, PTL

(* runRoute leaks no SSH connection and publishes only complete chains. *)
THEOREM NoLeakedConnection == Spec => []ClientsAreHeld
<1>1. IndInv => ClientsAreHeld
  BY DEF IndInv, Typed, Chains, Chain, ClientsAreHeld
<1>. QED BY <1>1, Invariance, PTL

(* rc.clients and "connected" come and go together, but for the step between. *)
THEOREM ConnectedHasClients == Spec => []ConnectedMeansClients
<1>1. IndInv => ConnectedMeansClients
  BY DEF IndInv, Typed, Chains, Chain, ConnectedMeansClients
<1>. QED BY <1>1, Invariance, PTL

(* The route:state events leave the interface with the last run's last state. *)
THEOREM InterfaceIsCurrent == Spec => []ShownIsCurrent
BY Invariance, PTL DEF IndInv

(* No host key dialog outlives the run that asked. *)
THEOREM DialogIsLive == Spec => []PromptIsLive
BY Invariance, PTL DEF IndInv

(* DeleteRoute and SetClusterRoute never leave a Cluster without its Route. *)
THEOREM NoDanglingRoute == Spec => []UsedIsInConfig
BY Invariance, PTL DEF IndInv

(* A route:state event clears no prompt its Route still waits for: only the one *)
(* live run emits, and it is not waiting then.                                  *)
THEOREM EventClearsAnswered == Spec => StateClearsAnswered
<1>1. IndInv =>
        \A r \in Runs :
          pc[r] = "emitting" /\ pc'[r] # "emitting" /\ prompts # <<>> /\ forgotten = {}
            => ~\E q \in Runs : pc[q] = "waiting" /\ pending[q] /\ ~cancelled[q]
  BY DEF IndInv, OneRun, Alive
<1>. QED BY <1>1, Invariance, PTL DEF StateClearsAnswered

(* checkLink speaks to the connection it was made over, and to no later one. *)
THEOREM ChecksKeepToTheirLink == Spec => []CheckOwnLink
<1>1. IndInv => CheckOwnLink
  BY DEF IndInv, Checks, Checked, CheckOwnLink
<1>. QED BY <1>1, Invariance, PTL

=============================================================================
