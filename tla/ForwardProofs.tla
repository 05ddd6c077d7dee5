---------------------------- MODULE ForwardProofs ----------------------------
(***************************************************************************)
(* The safety of Forward for every set of local connections and pod        *)
(* connections and every number of binds.  What keeps the invariants is    *)
(* who owns which link (Hands, Conns) and what fc.dial excludes (OneDial,  *)
(* DialsAlone): both are stated and kept first.                            *)
(***************************************************************************)
EXTENDS Forward, FiniteSetTheorems, TLAPS

(* A bind that has not been made has done nothing; a local has a bind made. *)
FreshBinds ==
    /\ \A b \in Binds : b > born => ~closed[b] /\ conn[b] = NoLink /\ ~listening[b]
    /\ \A l \in Locals : pc[l] # "new" => home[l] \in 1..born

(* What is about to be emitted is a state. *)
DueStates ==
    /\ \A l \in Locals : pc[l] \in {"refused", "reporting", "erroring"} => due[l] \in States
    /\ \A c \in Links : watch[c] = "reporting" => due[c] \in States

(* A local that has a link has one that was dialed for its bind. *)
Hands ==
    \A l \in Locals : pc[l] = "dialed" \/ Attached(l) =>
        via[l] \in Links /\ owner[via[l]] = home[l] /\ link[via[l]] # "none"

(* So has a bind. *)
Conns ==
    \A b \in Binds : conn[b] # NoLink => owner[conn[b]] = b /\ link[conn[b]] # "none"

Owners == \A c \in Links : link[c] # "none" => owner[c] \in Binds

(* fc.dial is held by one local of a bind at a time... *)
OneDial ==
    \A l, m \in Locals : Dialing(l) /\ Dialing(m) /\ home[l] = home[m] => l = m

(* ...and while it dials, or has dialed, no link of that bind is usable. *)
DialsAlone ==
    \A l \in Locals : pc[l] \in {"dialing", "dialed"} => ~HasOpenConn(home[l])

Users(b) == {l \in Locals : home[l] = b /\ Attached(l)}

Typed == TypeOK /\ FreshBinds /\ DueStates

Owned == Hands /\ Conns /\ Owners

IndInv ==
    /\ Typed
    /\ Owned
    /\ OneDial
    /\ DialsAlone
    /\ StoppedForGood
    /\ NoOrphanLink
    /\ ErrorMeansNoLink
    /\ ActiveCountsUsers

-----------------------------------------------------------------------------
(* Before the first bind there is nothing to get wrong. *)
LEMMA InitInv == Init => IndInv
<1>. SUFFICES ASSUME Init
              PROVE  IndInv
  OBVIOUS
<1>. USE ForwardAssumption DEF Init, Binds
<1>1. TypeOK
  BY DEF TypeOK, States, Steps, Nothing
<1>2. FreshBinds /\ DueStates
  BY DEF FreshBinds, DueStates
<1>3. Owned /\ OneDial /\ DialsAlone
  BY DEF Owned, Hands, Attached, Conns, Owners, OneDial, Dialing, DialsAlone
<1>4. StoppedForGood /\ NoOrphanLink /\ ErrorMeansNoLink
  BY DEF StoppedForGood, NoOrphanLink, ErrorMeansNoLink
<1>5. ActiveCountsUsers
  <2>1. SUFFICES ASSUME NEW b \in Binds
                 PROVE  active[b] = Cardinality(Users(b))
    BY DEF ActiveCountsUsers, Users
  <2>2. Users(b) = {}
    BY DEF Users, Attached
  <2>. QED BY <2>2, FS_EmptySet
<1>. QED BY <1>1, <1>2, <1>3, <1>4, <1>5 DEF IndInv, Typed

(* Every step keeps the types. *)
LEMMA TypeStep ==
  ASSUME Typed, [Next]_vars
  PROVE  TypeOK'
<1>. USE ForwardAssumption DEF TypeOK, Typed, Binds, Steps, States, Nothing, fcVars,
   localVars, linkVars
<1>1. CASE BindForward
  BY <1>1 DEF BindForward
<1>2. CASE UnbindForward
  BY <1>2 DEF UnbindForward, CloseLinkOf, Listed
<1>3. ASSUME NEW l \in Locals, LocalStep(l)
      PROVE  TypeOK'
  <2>1. CASE AcceptForward(l)
    BY <2>1 DEF AcceptForward
  <2>2. CASE JoinConnection(l)
    <3>1. home[l] \in Binds
      BY <2>2 DEF JoinConnection, FreshBinds
    <3>2. active' \in [Binds -> Int]
      BY <2>2, <3>1 DEF JoinConnection, Attach
    <3>3. idle' \in [Binds -> BOOLEAN]
      BY <2>2 DEF JoinConnection, Attach
    <3>4. via' \in [Locals -> Links \cup {NoLink}]
      BY <2>2, <3>1 DEF JoinConnection
    <3>. QED BY <2>2, <3>2, <3>3, <3>4 DEF JoinConnection
  <2>3. CASE StartDial(l)
    BY <2>3 DEF StartDial, DialFree, HasOpenConn
  <2>4. CASE DialFails(l)
    BY <2>4 DEF DialFails, UpdateForward
  <2>5. CASE DiscardConnection(l)
    BY <2>5 DEF DiscardConnection
  <2>6. CASE PublishConnection(l)
    <3>1. home[l] \in Binds
      BY <2>6 DEF PublishConnection, FreshBinds
    <3>2. active' \in [Binds -> Int]
      BY <2>6, <3>1 DEF PublishConnection, Attach
    <3>3. idle' \in [Binds -> BOOLEAN]
      BY <2>6 DEF PublishConnection, Attach
    <3>4. conn' \in [Binds -> Links \cup {NoLink}]
      BY <2>6 DEF PublishConnection
    <3>. QED BY <2>6, <3>2, <3>3, <3>4 DEF PublishConnection
  <2>7. CASE ReportConnected(l)
    BY <2>7 DEF ReportConnected, UpdateForward
  <2>8. CASE ServeEnds(l)
    BY <2>8 DEF ServeEnds
  <2>9. CASE FailForward(l)
    BY <2>9 DEF FailForward, Drops
  <2>10. CASE CloseFailed(l)
    BY <2>10 DEF CloseFailed
  <2>11. CASE EmitLocal(l)
    <3>1. due[l] \in States
      BY <2>11 DEF EmitLocal, DueStates
    <3>2. pc' \in [Locals -> Steps]
      BY <2>11 DEF EmitLocal
    <3>. QED BY <2>11, <3>1, <3>2 DEF EmitLocal, Listed
  <2>12. CASE ReleaseForward(l)
    <3>1. home[l] \in Binds
      BY <2>12 DEF ReleaseForward, FreshBinds
    <3>2. active' \in [Binds -> Int]
      BY <2>12, <3>1 DEF ReleaseForward
    <3>3. idle' \in [Binds -> BOOLEAN]
      BY <2>12 DEF ReleaseForward
    <3>. QED BY <2>12, <3>2, <3>3 DEF ReleaseForward
  <2>13. ASSUME NEW c \in Links, DialSucceeds(l, c)
        PROVE  TypeOK'
    BY <2>13 DEF DialSucceeds
  <2>. QED BY <1>3, <2>1, <2>2, <2>3, <2>4, <2>5, <2>6, <2>7, <2>8, <2>9, <2>10, <2>11,
     <2>12, <2>13 DEF LocalStep
<1>4. ASSUME NEW c \in Links, LinkStep(c)
      PROVE  TypeOK'
  <2>1. CASE LinkEnds(c)
    BY <2>1 DEF LinkEnds
  <2>2. CASE DropForward(c)
    BY <2>2 DEF DropForward, InUse
  <2>3. CASE ReportIdle(c)
    BY <2>3 DEF ReportIdle, UpdateForward
  <2>4. CASE EmitIdle(c)
    <3>1. due[c] \in States
      BY <2>4 DEF EmitIdle, DueStates
    <3>. QED BY <2>4, <3>1 DEF EmitIdle, Listed
  <2>. QED BY <1>4, <2>1, <2>2, <2>3, <2>4 DEF LinkStep
<1>5. ASSUME NEW b \in Binds, TimerStep(b)
      PROVE  TypeOK'
  <2>1. CASE IdleFires(b)
    BY <2>1 DEF IdleFires
  <2>2. CASE IdleRuns(b)
    BY <2>2, SMTT(30) DEF IdleRuns, Unused
  <2>. QED BY <1>5, <2>1, <2>2 DEF TimerStep
<1>6. CASE UNCHANGED vars
  BY <1>6 DEF vars
<1>. QED BY <1>1, <1>2, <1>3, <1>4, <1>5, <1>6 DEF Next

(* failForward gives up the link of its own bind at most, and then says error. *)
FailMoves(l) ==
    /\ UNCHANGED <<born, via, home, owner, link, closed, listening>>
    /\ pc[l] = "serving" /\ pc' = [pc EXCEPT ![l] = "failing"]
    /\ \A b \in Binds :
         \/ conn'[b] = conn[b] /\ state'[b] = state[b]
         \/ /\ b = home[l] /\ ~closed[b]
            /\ conn[b] = via[l] /\ conn'[b] = NoLink /\ state'[b] = "error"

(* It does nothing else. *)
LEMMA FailMovesLemma ==
  ASSUME Typed, NEW l \in Locals, FailForward(l)
  PROVE  FailMoves(l)
<1>. USE DEF Typed, TypeOK, FailForward, Binds, linkVars
<1>1. CASE Drops(l)
  BY <1>1 DEF FailMoves, Drops
<1>2. CASE ~Drops(l)
  BY <1>2 DEF FailMoves
<1>. QED BY <1>1, <1>2

(* Binds and locals come to life one by one. *)
LEMMA FreshStep ==
  ASSUME Typed, [Next]_vars
  PROVE  FreshBinds'
<1>. USE ForwardAssumption DEF FreshBinds, TypeOK, Typed, Binds, Steps, States, fcVars,
   localVars, linkVars
<1>1. CASE BindForward
  BY <1>1 DEF BindForward
<1>2. CASE UnbindForward
  BY <1>2 DEF UnbindForward, CloseLinkOf, Listed
<1>3. ASSUME NEW l \in Locals, LocalStep(l)
      PROVE  FreshBinds'
  <2>1. CASE AcceptForward(l)
    BY <2>1 DEF AcceptForward
  <2>2. CASE JoinConnection(l)
    BY <2>2 DEF JoinConnection, DialFree, HasOpenConn, Attach
  <2>3. CASE StartDial(l)
    BY <2>3 DEF StartDial, DialFree, HasOpenConn
  <2>4. CASE DialFails(l)
    BY <2>4 DEF DialFails, UpdateForward
  <2>5. CASE DiscardConnection(l)
    BY <2>5 DEF DiscardConnection
  <2>6. CASE PublishConnection(l)
    BY <2>6 DEF PublishConnection, Attach
  <2>7. CASE ReportConnected(l)
    BY <2>7 DEF ReportConnected, UpdateForward
  <2>8. CASE ServeEnds(l)
    BY <2>8 DEF ServeEnds
  <2>9. CASE FailForward(l)
    BY <2>9 DEF FailForward, Drops
  <2>10. CASE CloseFailed(l)
    BY <2>10 DEF CloseFailed
  <2>11. CASE EmitLocal(l)
    BY <2>11 DEF EmitLocal, Listed
  <2>12. CASE ReleaseForward(l)
    BY <2>12 DEF ReleaseForward, LastUser
  <2>13. ASSUME NEW c \in Links, DialSucceeds(l, c)
        PROVE  FreshBinds'
    BY <2>13 DEF DialSucceeds
  <2>. QED BY <1>3, <2>1, <2>2, <2>3, <2>4, <2>5, <2>6, <2>7, <2>8, <2>9, <2>10, <2>11,
     <2>12, <2>13 DEF LocalStep
<1>4. ASSUME NEW c \in Links, LinkStep(c)
      PROVE  FreshBinds'
  <2>1. CASE LinkEnds(c)
    BY <2>1 DEF LinkEnds
  <2>2. CASE DropForward(c)
    BY <2>2 DEF DropForward, InUse
  <2>3. CASE ReportIdle(c)
    BY <2>3 DEF ReportIdle, UpdateForward
  <2>4. CASE EmitIdle(c)
    BY <2>4 DEF EmitIdle, Listed
  <2>. QED BY <1>4, <2>1, <2>2, <2>3, <2>4 DEF LinkStep
<1>5. ASSUME NEW b \in Binds, TimerStep(b)
      PROVE  FreshBinds'
  <2>1. CASE IdleFires(b)
    BY <2>1 DEF IdleFires
  <2>2. CASE IdleRuns(b)
    BY <2>2 DEF IdleRuns, Unused
  <2>. QED BY <1>5, <2>1, <2>2 DEF TimerStep
<1>6. CASE UNCHANGED vars
  BY <1>6 DEF vars
<1>. QED BY <1>1, <1>2, <1>3, <1>4, <1>5, <1>6 DEF Next

(* Only a status just recorded is emitted. *)
LEMMA DueStep ==
  ASSUME Typed, [Next]_vars
  PROVE  DueStates'
<1>. USE ForwardAssumption DEF DueStates, Nothing, TypeOK, Typed, Binds, Steps, States,
   fcVars, localVars, linkVars
<1>1. CASE BindForward
  BY <1>1 DEF BindForward
<1>2. CASE UnbindForward
  BY <1>2 DEF UnbindForward, CloseLinkOf, Listed
<1>3. ASSUME NEW l \in Locals, LocalStep(l)
      PROVE  DueStates'
  <2>1. CASE AcceptForward(l)
    BY <2>1 DEF AcceptForward
  <2>2. CASE JoinConnection(l)
    BY <2>2 DEF JoinConnection, DialFree, HasOpenConn, Attach
  <2>3. CASE StartDial(l)
    BY <2>3 DEF StartDial, DialFree, HasOpenConn
  <2>4. CASE DialFails(l)
    BY <2>4 DEF DialFails, UpdateForward
  <2>5. CASE DiscardConnection(l)
    BY <2>5 DEF DiscardConnection
  <2>6. CASE PublishConnection(l)
    BY <2>6 DEF PublishConnection, Attach
  <2>7. CASE ReportConnected(l)
    BY <2>7 DEF ReportConnected, UpdateForward
  <2>8. CASE ServeEnds(l)
    BY <2>8 DEF ServeEnds
  <2>9. CASE FailForward(l)
    BY <2>9 DEF FailForward, Drops
  <2>10. CASE CloseFailed(l)
    BY <2>10 DEF CloseFailed
  <2>11. CASE EmitLocal(l)
    BY <2>11 DEF EmitLocal, Listed
  <2>12. CASE ReleaseForward(l)
    BY <2>12 DEF ReleaseForward, LastUser
  <2>13. ASSUME NEW c \in Links, DialSucceeds(l, c)
        PROVE  DueStates'
    BY <2>13 DEF DialSucceeds
  <2>. QED BY <1>3, <2>1, <2>2, <2>3, <2>4, <2>5, <2>6, <2>7, <2>8, <2>9, <2>10, <2>11,
     <2>12, <2>13 DEF LocalStep
<1>4. ASSUME NEW c \in Links, LinkStep(c)
      PROVE  DueStates'
  <2>1. CASE LinkEnds(c)
    BY <2>1 DEF LinkEnds
  <2>2. CASE DropForward(c)
    BY <2>2 DEF DropForward, InUse
  <2>3. CASE ReportIdle(c)
    BY <2>3 DEF ReportIdle, UpdateForward
  <2>4. CASE EmitIdle(c)
    BY <2>4 DEF EmitIdle, Listed
  <2>. QED BY <1>4, <2>1, <2>2, <2>3, <2>4 DEF LinkStep
<1>5. ASSUME NEW b \in Binds, TimerStep(b)
      PROVE  DueStates'
  <2>1. CASE IdleFires(b)
    BY <2>1 DEF IdleFires
  <2>2. CASE IdleRuns(b)
    BY <2>2 DEF IdleRuns, Unused
  <2>. QED BY <1>5, <2>1, <2>2 DEF TimerStep
<1>6. CASE UNCHANGED vars
  BY <1>6 DEF vars
<1>. QED BY <1>1, <1>2, <1>3, <1>4, <1>5, <1>6 DEF Next

(* A link keeps the bind it was dialed for. *)
LEMMA OwnedStep ==
  ASSUME Typed, Owned, [Next]_vars
  PROVE  Owned'
<1>. USE ForwardAssumption DEF Owned, Hands, Conns, Owners, Attached, FreshBinds,
   TypeOK, Typed, Binds, Steps, States, fcVars, localVars, linkVars
<1>1. CASE BindForward
  BY <1>1 DEF BindForward
<1>2. CASE UnbindForward
  BY <1>2 DEF UnbindForward, CloseLinkOf, Listed
<1>3. ASSUME NEW l \in Locals, LocalStep(l)
      PROVE  Owned'
  <2>1. CASE AcceptForward(l)
    BY <2>1 DEF AcceptForward
  <2>2. CASE JoinConnection(l)
    BY <2>2 DEF JoinConnection, DialFree, HasOpenConn, Attach
  <2>3. CASE StartDial(l)
    BY <2>3 DEF StartDial, DialFree, HasOpenConn
  <2>4. CASE DialFails(l)
    BY <2>4 DEF DialFails, UpdateForward
  <2>5. CASE DiscardConnection(l)
    BY <2>5 DEF DiscardConnection
  <2>6. CASE PublishConnection(l)
    BY <2>6 DEF PublishConnection, Attach
  <2>7. CASE ReportConnected(l)
    BY <2>7 DEF ReportConnected, UpdateForward
  <2>8. CASE ServeEnds(l)
    BY <2>8 DEF ServeEnds
  <2>9. CASE FailForward(l)
    <3>1. FailMoves(l)
      BY <2>9, FailMovesLemma
    <3>. QED BY <3>1 DEF FailMoves
  <2>10. CASE CloseFailed(l)
    BY <2>10 DEF CloseFailed
  <2>11. CASE EmitLocal(l)
    BY <2>11 DEF EmitLocal, Listed
  <2>12. CASE ReleaseForward(l)
    BY <2>12 DEF ReleaseForward, LastUser
  <2>13. ASSUME NEW c \in Links, DialSucceeds(l, c)
        PROVE  Owned'
    BY <2>13 DEF DialSucceeds
  <2>. QED BY <1>3, <2>1, <2>2, <2>3, <2>4, <2>5, <2>6, <2>7, <2>8, <2>9, <2>10, <2>11,
     <2>12, <2>13 DEF LocalStep
<1>4. ASSUME NEW c \in Links, LinkStep(c)
      PROVE  Owned'
  <2>1. CASE LinkEnds(c)
    BY <2>1 DEF LinkEnds
  <2>2. CASE DropForward(c)
    BY <2>2 DEF DropForward, InUse
  <2>3. CASE ReportIdle(c)
    BY <2>3 DEF ReportIdle, UpdateForward
  <2>4. CASE EmitIdle(c)
    BY <2>4 DEF EmitIdle, Listed
  <2>. QED BY <1>4, <2>1, <2>2, <2>3, <2>4 DEF LinkStep
<1>5. ASSUME NEW b \in Binds, TimerStep(b)
      PROVE  Owned'
  <2>1. CASE IdleFires(b)
    BY <2>1 DEF IdleFires
  <2>2. CASE IdleRuns(b)
    BY <2>2 DEF IdleRuns, Unused
  <2>. QED BY <1>5, <2>1, <2>2 DEF TimerStep
<1>6. CASE UNCHANGED vars
  BY <1>6 DEF vars
<1>. QED BY <1>1, <1>2, <1>3, <1>4, <1>5, <1>6 DEF Next

(* fc.dial is a lock. *)
LEMMA OneDialStep ==
  ASSUME Typed, OneDial, [Next]_vars
  PROVE  OneDial'
<1>. USE ForwardAssumption DEF OneDial, Dialing, DialFree, TypeOK, Typed, Binds, Steps,
   States, fcVars, localVars, linkVars
<1>1. CASE BindForward
  BY <1>1 DEF BindForward
<1>2. CASE UnbindForward
  BY <1>2 DEF UnbindForward, CloseLinkOf, Listed
<1>3. ASSUME NEW l \in Locals, LocalStep(l)
      PROVE  OneDial'
  <2>1. CASE AcceptForward(l)
    BY <2>1 DEF AcceptForward
  <2>2. CASE JoinConnection(l)
    BY <2>2 DEF JoinConnection, HasOpenConn, Attach
  <2>3. CASE StartDial(l)
    BY <2>3 DEF StartDial, HasOpenConn
  <2>4. CASE DialFails(l)
    BY <2>4 DEF DialFails, UpdateForward
  <2>5. CASE DiscardConnection(l)
    BY <2>5 DEF DiscardConnection
  <2>6. CASE PublishConnection(l)
    BY <2>6 DEF PublishConnection, Attach
  <2>7. CASE ReportConnected(l)
    BY <2>7 DEF ReportConnected, UpdateForward
  <2>8. CASE ServeEnds(l)
    BY <2>8 DEF ServeEnds
  <2>9. CASE FailForward(l)
    BY <2>9 DEF FailForward, Drops
  <2>10. CASE CloseFailed(l)
    BY <2>10 DEF CloseFailed
  <2>11. CASE EmitLocal(l)
    BY <2>11 DEF EmitLocal, Listed
  <2>12. CASE ReleaseForward(l)
    BY <2>12 DEF ReleaseForward, LastUser
  <2>13. ASSUME NEW c \in Links, DialSucceeds(l, c)
        PROVE  OneDial'
    BY <2>13 DEF DialSucceeds
  <2>. QED BY <1>3, <2>1, <2>2, <2>3, <2>4, <2>5, <2>6, <2>7, <2>8, <2>9, <2>10, <2>11,
     <2>12, <2>13 DEF LocalStep
<1>4. ASSUME NEW c \in Links, LinkStep(c)
      PROVE  OneDial'
  <2>1. CASE LinkEnds(c)
    BY <2>1 DEF LinkEnds
  <2>2. CASE DropForward(c)
    BY <2>2 DEF DropForward, InUse
  <2>3. CASE ReportIdle(c)
    BY <2>3 DEF ReportIdle, UpdateForward
  <2>4. CASE EmitIdle(c)
    BY <2>4 DEF EmitIdle, Listed
  <2>. QED BY <1>4, <2>1, <2>2, <2>3, <2>4 DEF LinkStep
<1>5. ASSUME NEW b \in Binds, TimerStep(b)
      PROVE  OneDial'
  <2>1. CASE IdleFires(b)
    BY <2>1 DEF IdleFires
  <2>2. CASE IdleRuns(b)
    BY <2>2 DEF IdleRuns, Unused
  <2>. QED BY <1>5, <2>1, <2>2 DEF TimerStep
<1>6. CASE UNCHANGED vars
  BY <1>6 DEF vars
<1>. QED BY <1>1, <1>2, <1>3, <1>4, <1>5, <1>6 DEF Next

(* Nobody publishes a link while another local of the bind dials. *)
LEMMA DialsAloneStep ==
  ASSUME Typed, Owned, OneDial, DialsAlone, [Next]_vars
  PROVE  DialsAlone'
<1>. USE ForwardAssumption DEF DialsAlone, HasOpenConn, OneDial, Dialing, Owned, Hands,
   Conns, Owners, FreshBinds, TypeOK, Typed, Binds, Steps, States, fcVars, localVars,
   linkVars
<1>1. CASE BindForward
  BY <1>1 DEF BindForward
<1>2. CASE UnbindForward
  BY <1>2 DEF UnbindForward, CloseLinkOf, Listed
<1>3. ASSUME NEW l \in Locals, LocalStep(l)
      PROVE  DialsAlone'
  <2>1. CASE AcceptForward(l)
    BY <2>1 DEF AcceptForward
  <2>2. CASE JoinConnection(l)
    BY <2>2 DEF JoinConnection, DialFree, Attach
  <2>3. CASE StartDial(l)
    BY <2>3 DEF StartDial, DialFree
  <2>4. CASE DialFails(l)
    BY <2>4 DEF DialFails, UpdateForward
  <2>5. CASE DiscardConnection(l)
    BY <2>5 DEF DiscardConnection
  <2>6. CASE PublishConnection(l)
    BY <2>6 DEF PublishConnection, Attach
  <2>7. CASE ReportConnected(l)
    BY <2>7 DEF ReportConnected, UpdateForward
  <2>8. CASE ServeEnds(l)
    BY <2>8 DEF ServeEnds
  <2>9. CASE FailForward(l)
    <3>1. FailMoves(l)
      BY <2>9, FailMovesLemma
    <3>. QED BY <3>1 DEF FailMoves
  <2>10. CASE CloseFailed(l)
    BY <2>10 DEF CloseFailed
  <2>11. CASE EmitLocal(l)
    BY <2>11 DEF EmitLocal, Listed
  <2>12. CASE ReleaseForward(l)
    BY <2>12 DEF ReleaseForward, LastUser
  <2>13. ASSUME NEW c \in Links, DialSucceeds(l, c)
        PROVE  DialsAlone'
    BY <2>13 DEF DialSucceeds
  <2>. QED BY <1>3, <2>1, <2>2, <2>3, <2>4, <2>5, <2>6, <2>7, <2>8, <2>9, <2>10, <2>11,
     <2>12, <2>13 DEF LocalStep
<1>4. ASSUME NEW c \in Links, LinkStep(c)
      PROVE  DialsAlone'
  <2>1. CASE LinkEnds(c)
    BY <2>1 DEF LinkEnds
  <2>2. CASE DropForward(c)
    BY <2>2 DEF DropForward, InUse
  <2>3. CASE ReportIdle(c)
    BY <2>3 DEF ReportIdle, UpdateForward
  <2>4. CASE EmitIdle(c)
    BY <2>4 DEF EmitIdle, Listed
  <2>. QED BY <1>4, <2>1, <2>2, <2>3, <2>4 DEF LinkStep
<1>5. ASSUME NEW b \in Binds, TimerStep(b)
      PROVE  DialsAlone'
  <2>1. CASE IdleFires(b)
    BY <2>1 DEF IdleFires
  <2>2. CASE IdleRuns(b)
    BY <2>2 DEF IdleRuns, Unused
  <2>. QED BY <1>5, <2>1, <2>2 DEF TimerStep
<1>6. CASE UNCHANGED vars
  BY <1>6 DEF vars
<1>. QED BY <1>1, <1>2, <1>3, <1>4, <1>5, <1>6 DEF Next

(* Every write to the status or to fc.conn looks at fc.closed first. *)
LEMMA StoppedStep ==
  ASSUME Typed, StoppedForGood, [Next]_vars
  PROVE  StoppedForGood'
<1>. USE ForwardAssumption DEF StoppedForGood, FreshBinds, TypeOK, Typed, Binds, Steps,
   States, fcVars, localVars, linkVars
<1>1. CASE BindForward
  BY <1>1 DEF BindForward
<1>2. CASE UnbindForward
  BY <1>2 DEF UnbindForward, CloseLinkOf, Listed
<1>3. ASSUME NEW l \in Locals, LocalStep(l)
      PROVE  StoppedForGood'
  <2>1. CASE AcceptForward(l)
    BY <2>1 DEF AcceptForward
  <2>2. CASE JoinConnection(l)
    BY <2>2 DEF JoinConnection, DialFree, HasOpenConn, Attach
  <2>3. CASE StartDial(l)
    BY <2>3 DEF StartDial, DialFree, HasOpenConn
  <2>4. CASE DialFails(l)
    BY <2>4 DEF DialFails, UpdateForward
  <2>5. CASE DiscardConnection(l)
    BY <2>5 DEF DiscardConnection
  <2>6. CASE PublishConnection(l)
    BY <2>6 DEF PublishConnection, Attach
  <2>7. CASE ReportConnected(l)
    BY <2>7 DEF ReportConnected, UpdateForward
  <2>8. CASE ServeEnds(l)
    BY <2>8 DEF ServeEnds
  <2>9. CASE FailForward(l)
    BY <2>9 DEF FailForward, Drops
  <2>10. CASE CloseFailed(l)
    BY <2>10 DEF CloseFailed
  <2>11. CASE EmitLocal(l)
    BY <2>11 DEF EmitLocal, Listed
  <2>12. CASE ReleaseForward(l)
    BY <2>12 DEF ReleaseForward, LastUser
  <2>13. ASSUME NEW c \in Links, DialSucceeds(l, c)
        PROVE  StoppedForGood'
    BY <2>13 DEF DialSucceeds
  <2>. QED BY <1>3, <2>1, <2>2, <2>3, <2>4, <2>5, <2>6, <2>7, <2>8, <2>9, <2>10, <2>11,
     <2>12, <2>13 DEF LocalStep
<1>4. ASSUME NEW c \in Links, LinkStep(c)
      PROVE  StoppedForGood'
  <2>1. CASE LinkEnds(c)
    BY <2>1 DEF LinkEnds
  <2>2. CASE DropForward(c)
    BY <2>2 DEF DropForward, InUse
  <2>3. CASE ReportIdle(c)
    BY <2>3 DEF ReportIdle, UpdateForward
  <2>4. CASE EmitIdle(c)
    BY <2>4 DEF EmitIdle, Listed
  <2>. QED BY <1>4, <2>1, <2>2, <2>3, <2>4 DEF LinkStep
<1>5. ASSUME NEW b \in Binds, TimerStep(b)
      PROVE  StoppedForGood'
  <2>1. CASE IdleFires(b)
    BY <2>1 DEF IdleFires
  <2>2. CASE IdleRuns(b)
    BY <2>2 DEF IdleRuns, Unused
  <2>. QED BY <1>5, <2>1, <2>2 DEF TimerStep
<1>6. CASE UNCHANGED vars
  BY <1>6 DEF vars
<1>. QED BY <1>1, <1>2, <1>3, <1>4, <1>5, <1>6 DEF Next

(* A link changes hands without being let go. *)
LEMMA OrphanStep ==
  ASSUME Typed, Owned, DialsAlone, NoOrphanLink, [Next]_vars
  PROVE  NoOrphanLink'
<1>. USE ForwardAssumption DEF NoOrphanLink, InHand, DialsAlone, HasOpenConn, Owned,
   Hands, Conns, Owners, FreshBinds, Attached, TypeOK, Typed, Binds, Steps, States,
   fcVars, localVars, linkVars
<1>1. CASE BindForward
  BY <1>1 DEF BindForward
<1>2. CASE UnbindForward
  BY <1>2 DEF UnbindForward, CloseLinkOf, Listed
<1>3. ASSUME NEW l \in Locals, LocalStep(l)
      PROVE  NoOrphanLink'
  <2>1. CASE AcceptForward(l)
    BY <2>1 DEF AcceptForward
  <2>2. CASE JoinConnection(l)
    BY <2>2 DEF JoinConnection, DialFree, Attach
  <2>3. CASE StartDial(l)
    BY <2>3 DEF StartDial, DialFree
  <2>4. CASE DialFails(l)
    BY <2>4 DEF DialFails, UpdateForward
  <2>5. CASE DiscardConnection(l)
    BY <2>5 DEF DiscardConnection
  <2>6. CASE PublishConnection(l)
    <3>. USE DEF PublishConnection
    <3>1. home[l] \in Binds /\ via[l] \in Links /\ owner[via[l]] = home[l] /\ ~closed[home[l]]
      BY <2>6
    <3>2. SUFFICES ASSUME NEW c \in Links, link'[c] = "open"
                   PROVE  InHand(c)' \/ (conn'[owner'[c]] = c /\ ~closed'[owner'[c]])
      BY DEF NoOrphanLink
    <3>3. CASE c = via[l]
      BY <2>6, <3>1, <3>3
    <3>4. CASE c # via[l] /\ InHand(c)
      BY <2>6, <3>4
    <3>5. CASE conn[owner[c]] = c /\ ~closed[owner[c]]
      <4>1. link[c] = "open" /\ c # NoLink
        BY <2>6, <3>2
      <4>2. ~(conn[home[l]] # NoLink /\ link[conn[home[l]]] = "open")
        BY <2>6
      <4>3. owner[c] # home[l]
        BY <3>5, <4>1, <4>2
      <4>. QED BY <2>6, <3>5, <4>3
    <3>. QED BY <2>6, <3>2, <3>3, <3>4, <3>5
  <2>7. CASE ReportConnected(l)
    BY <2>7 DEF ReportConnected, UpdateForward
  <2>8. CASE ServeEnds(l)
    BY <2>8 DEF ServeEnds
  <2>9. CASE FailForward(l)
    <3>1. FailMoves(l)
      BY <2>9, FailMovesLemma
    <3>2. SUFFICES ASSUME NEW c \in Links, link'[c] = "open"
                   PROVE  InHand(c)' \/ (conn'[owner'[c]] = c /\ ~closed'[owner'[c]])
      BY DEF NoOrphanLink
    <3>3. CASE InHand(c)
      BY <3>1, <3>3 DEF FailMoves
    <3>4. CASE conn[owner[c]] = c /\ ~closed[owner[c]]
      BY <3>1, <3>2, <3>4 DEF FailMoves
    <3>. QED BY <3>1, <3>2, <3>3, <3>4 DEF FailMoves
  <2>10. CASE CloseFailed(l)
    BY <2>10 DEF CloseFailed
  <2>11. CASE EmitLocal(l)
    BY <2>11 DEF EmitLocal, Listed
  <2>12. CASE ReleaseForward(l)
    BY <2>12 DEF ReleaseForward, LastUser
  <2>13. ASSUME NEW c \in Links, DialSucceeds(l, c)
        PROVE  NoOrphanLink'
    <3>. USE DEF DialSucceeds
    <3>1. SUFFICES ASSUME NEW d \in Links, link'[d] = "open"
                   PROVE  InHand(d)' \/ (conn'[owner'[d]] = d /\ ~closed'[owner'[d]])
      BY DEF NoOrphanLink
    <3>2. CASE d = c
      BY <2>13, <3>2
    <3>3. CASE d # c
      <4>1. link[d] = "open" /\ owner'[d] = owner[d]
        BY <2>13, <3>1, <3>3
      <4>2. CASE InHand(d)
        BY <2>13, <4>2
      <4>3. CASE conn[owner[d]] = d /\ ~closed[owner[d]]
        BY <2>13, <4>1, <4>3
      <4>. QED BY <4>1, <4>2, <4>3
    <3>. QED BY <3>2, <3>3
  <2>. QED BY <1>3, <2>1, <2>2, <2>3, <2>4, <2>5, <2>6, <2>7, <2>8, <2>9, <2>10, <2>11,
     <2>12, <2>13 DEF LocalStep
<1>4. ASSUME NEW c \in Links, LinkStep(c)
      PROVE  NoOrphanLink'
  <2>1. CASE LinkEnds(c)
    BY <2>1 DEF LinkEnds
  <2>2. CASE DropForward(c)
    BY <2>2 DEF DropForward, InUse
  <2>3. CASE ReportIdle(c)
    BY <2>3 DEF ReportIdle, UpdateForward
  <2>4. CASE EmitIdle(c)
    BY <2>4 DEF EmitIdle, Listed
  <2>. QED BY <1>4, <2>1, <2>2, <2>3, <2>4 DEF LinkStep
<1>5. ASSUME NEW b \in Binds, TimerStep(b)
      PROVE  NoOrphanLink'
  <2>1. CASE IdleFires(b)
    BY <2>1 DEF IdleFires
  <2>2. CASE IdleRuns(b)
    BY <2>2 DEF IdleRuns, Unused
  <2>. QED BY <1>5, <2>1, <2>2 DEF TimerStep
<1>6. CASE UNCHANGED vars
  BY <1>6 DEF vars
<1>. QED BY <1>1, <1>2, <1>3, <1>4, <1>5, <1>6 DEF Next

(* An error is recorded only where there is no usable link. *)
LEMMA ErrorStep ==
  ASSUME Typed, Owned, DialsAlone, StoppedForGood, ErrorMeansNoLink, [Next]_vars
  PROVE  ErrorMeansNoLink'
<1>. USE ForwardAssumption DEF ErrorMeansNoLink, HasOpenConn, DialsAlone, Owned, Hands,
   Conns, Owners, FreshBinds, StoppedForGood, TypeOK, Typed, Binds, Steps, States,
   fcVars, localVars, linkVars
<1>1. CASE BindForward
  BY <1>1 DEF BindForward
<1>2. CASE UnbindForward
  BY <1>2 DEF UnbindForward, CloseLinkOf, Listed
<1>3. ASSUME NEW l \in Locals, LocalStep(l)
      PROVE  ErrorMeansNoLink'
  <2>1. CASE AcceptForward(l)
    BY <2>1 DEF AcceptForward
  <2>2. CASE JoinConnection(l)
    BY <2>2 DEF JoinConnection, DialFree, Attach
  <2>3. CASE StartDial(l)
    BY <2>3 DEF StartDial, DialFree
  <2>4. CASE DialFails(l)
    BY <2>4 DEF DialFails, UpdateForward
  <2>5. CASE DiscardConnection(l)
    BY <2>5 DEF DiscardConnection
  <2>6. CASE PublishConnection(l)
    BY <2>6 DEF PublishConnection, Attach
  <2>7. CASE ReportConnected(l)
    BY <2>7 DEF ReportConnected, UpdateForward
  <2>8. CASE ServeEnds(l)
    BY <2>8 DEF ServeEnds
  <2>9. CASE FailForward(l)
    <3>1. FailMoves(l)
      BY <2>9, FailMovesLemma
    <3>. QED BY <3>1 DEF FailMoves
  <2>10. CASE CloseFailed(l)
    BY <2>10 DEF CloseFailed
  <2>11. CASE EmitLocal(l)
    BY <2>11 DEF EmitLocal, Listed
  <2>12. CASE ReleaseForward(l)
    BY <2>12 DEF ReleaseForward, LastUser
  <2>13. ASSUME NEW c \in Links, DialSucceeds(l, c)
        PROVE  ErrorMeansNoLink'
    BY <2>13 DEF DialSucceeds
  <2>. QED BY <1>3, <2>1, <2>2, <2>3, <2>4, <2>5, <2>6, <2>7, <2>8, <2>9, <2>10, <2>11,
     <2>12, <2>13 DEF LocalStep
<1>4. ASSUME NEW c \in Links, LinkStep(c)
      PROVE  ErrorMeansNoLink'
  <2>1. CASE LinkEnds(c)
    BY <2>1 DEF LinkEnds
  <2>2. CASE DropForward(c)
    BY <2>2 DEF DropForward, InUse
  <2>3. CASE ReportIdle(c)
    BY <2>3 DEF ReportIdle, UpdateForward
  <2>4. CASE EmitIdle(c)
    BY <2>4 DEF EmitIdle, Listed
  <2>. QED BY <1>4, <2>1, <2>2, <2>3, <2>4 DEF LinkStep
<1>5. ASSUME NEW b \in Binds, TimerStep(b)
      PROVE  ErrorMeansNoLink'
  <2>1. CASE IdleFires(b)
    BY <2>1 DEF IdleFires
  <2>2. CASE IdleRuns(b)
    BY <2>2 DEF IdleRuns, Unused
  <2>. QED BY <1>5, <2>1, <2>2 DEF TimerStep
<1>6. CASE UNCHANGED vars
  BY <1>6 DEF vars
<1>. QED BY <1>1, <1>2, <1>3, <1>4, <1>5, <1>6 DEF Next

(* The users of a bind, by what a step does to them. *)
UsersKept ==
    /\ active' = active
    /\ \A l \in Locals : /\ Attached(l)' = Attached(l)
                         /\ Attached(l) => home'[l] = home[l]

(* The users of a bind are among the finitely many locals. *)
LEMMA UsersFinite == \A b \in Binds : IsFiniteSet(Users(b))
BY FS_Subset, ForwardAssumption DEF Users

(* Steps that leave the users alone leave the count right... *)
LEMMA CountKept ==
  ASSUME ActiveCountsUsers, UsersKept
  PROVE  ActiveCountsUsers'
<1>1. \A b \in Binds : Users(b)' = Users(b)
  BY DEF Users, UsersKept
<1>. QED BY <1>1 DEF ActiveCountsUsers, Users, UsersKept

(* ...attach adds one of each... *)
LEMMA CountUp ==
  ASSUME Typed, ActiveCountsUsers,
         NEW l \in Locals, home[l] \in Binds, ~Attached(l), Attached(l)', home' = home,
         \A m \in Locals \ {l} : Attached(m)' = Attached(m),
         active' = [active EXCEPT ![home[l]] = active[home[l]] + 1]
  PROVE  ActiveCountsUsers'
<1>. SUFFICES ASSUME NEW b \in Binds
              PROVE  active'[b] = Cardinality(Users(b)')
  BY DEF ActiveCountsUsers, Users
<1>1. active[b] = Cardinality(Users(b)) /\ active[b] \in Int
  BY DEF ActiveCountsUsers, Users, Typed, TypeOK
<1>2. CASE b = home[l]
  <2>1. Users(b)' = Users(b) \cup {l} /\ l \notin Users(b)
    BY <1>2 DEF Users
  <2>2. Cardinality(Users(b)') = Cardinality(Users(b)) + 1
    BY <2>1, UsersFinite, FS_AddElement
  <2>. QED BY <1>1, <1>2, <2>2 DEF Typed, TypeOK
<1>3. CASE b # home[l]
  <2>1. Users(b)' = Users(b)
    BY <1>3 DEF Users
  <2>. QED BY <1>1, <1>3, <2>1 DEF Typed, TypeOK
<1>. QED BY <1>2, <1>3

(* ...and releaseForward takes one of each away. *)
LEMMA CountDown ==
  ASSUME Typed, ActiveCountsUsers,
         NEW l \in Locals, home[l] \in Binds, Attached(l), ~Attached(l)', home' = home,
         \A m \in Locals \ {l} : Attached(m)' = Attached(m),
         active' = [active EXCEPT ![home[l]] = active[home[l]] - 1]
  PROVE  ActiveCountsUsers'
<1>. SUFFICES ASSUME NEW b \in Binds
              PROVE  active'[b] = Cardinality(Users(b)')
  BY DEF ActiveCountsUsers, Users
<1>1. active[b] = Cardinality(Users(b)) /\ active[b] \in Int
  BY DEF ActiveCountsUsers, Users, Typed, TypeOK
<1>2. CASE b = home[l]
  <2>1. Users(b)' = Users(b) \ {l} /\ l \in Users(b)
    BY <1>2 DEF Users
  <2>2. Cardinality(Users(b)') = Cardinality(Users(b)) - 1
    BY <2>1, UsersFinite, FS_RemoveElement
  <2>. QED BY <1>1, <1>2, <2>2 DEF Typed, TypeOK
<1>3. CASE b # home[l]
  <2>1. Users(b)' = Users(b)
    BY <1>3 DEF Users
  <2>. QED BY <1>1, <1>3, <2>1 DEF Typed, TypeOK
<1>. QED BY <1>2, <1>3

(* attach and releaseForward are the only steps that change who uses a bind. *)
LEMMA CountStep ==
  ASSUME Typed, ActiveCountsUsers, [Next]_vars
  PROVE  UsersKept \/ ActiveCountsUsers'
<1>. USE ForwardAssumption DEF UsersKept, Attached, TypeOK, Typed, Steps, Binds, fcVars,
   localVars, linkVars
<1>1. CASE BindForward
  BY <1>1 DEF BindForward
<1>2. CASE UnbindForward
  BY <1>2 DEF UnbindForward, CloseLinkOf, Listed
<1>3. ASSUME NEW l \in Locals, LocalStep(l)
      PROVE  UsersKept \/ ActiveCountsUsers'
  <2>1. CASE AcceptForward(l)
    BY <2>1 DEF AcceptForward
  <2>2. CASE JoinConnection(l)
    <3>1. home[l] \in Binds
      BY <2>2 DEF JoinConnection, FreshBinds
    <3>2. /\ ~Attached(l) /\ Attached(l)' /\ home' = home
          /\ active' = [active EXCEPT ![home[l]] = active[home[l]] + 1]
      BY <2>2 DEF JoinConnection, Attach, Attached
    <3>3. \A m \in Locals \ {l} : Attached(m)' = Attached(m)
      BY <2>2 DEF JoinConnection, Attached
    <3>. QED BY <3>1, <3>2, <3>3, CountUp
  <2>3. CASE StartDial(l)
    BY <2>3 DEF StartDial, DialFree, HasOpenConn
  <2>4. CASE DialFails(l)
    BY <2>4 DEF DialFails, UpdateForward
  <2>5. CASE DiscardConnection(l)
    BY <2>5 DEF DiscardConnection
  <2>6. CASE PublishConnection(l)
    <3>1. home[l] \in Binds
      BY <2>6 DEF PublishConnection, FreshBinds
    <3>2. /\ ~Attached(l) /\ Attached(l)' /\ home' = home
          /\ active' = [active EXCEPT ![home[l]] = active[home[l]] + 1]
      BY <2>6 DEF PublishConnection, Attach, Attached
    <3>3. \A m \in Locals \ {l} : Attached(m)' = Attached(m)
      BY <2>6 DEF PublishConnection, Attached
    <3>. QED BY <3>1, <3>2, <3>3, CountUp
  <2>7. CASE ReportConnected(l)
    BY <2>7 DEF ReportConnected, UpdateForward
  <2>8. CASE ServeEnds(l)
    BY <2>8 DEF ServeEnds
  <2>9. CASE FailForward(l)
    BY <2>9 DEF FailForward, Drops
  <2>10. CASE CloseFailed(l)
    BY <2>10 DEF CloseFailed
  <2>11. CASE EmitLocal(l)
    BY <2>11 DEF EmitLocal, Listed
  <2>12. CASE ReleaseForward(l)
    <3>1. home[l] \in Binds
      BY <2>12 DEF ReleaseForward, FreshBinds
    <3>2. /\ Attached(l) /\ ~Attached(l)' /\ home' = home
          /\ active' = [active EXCEPT ![home[l]] = active[home[l]] - 1]
      BY <2>12 DEF ReleaseForward, Attached
    <3>3. \A m \in Locals \ {l} : Attached(m)' = Attached(m)
      BY <2>12 DEF ReleaseForward, Attached
    <3>. QED BY <3>1, <3>2, <3>3, CountDown
  <2>13. ASSUME NEW c \in Links, DialSucceeds(l, c)
        PROVE  UsersKept \/ ActiveCountsUsers'
    BY <2>13 DEF DialSucceeds
  <2>. QED BY <1>3, <2>1, <2>2, <2>3, <2>4, <2>5, <2>6, <2>7, <2>8, <2>9, <2>10, <2>11,
     <2>12, <2>13 DEF LocalStep
<1>4. ASSUME NEW c \in Links, LinkStep(c)
      PROVE  UsersKept \/ ActiveCountsUsers'
  <2>1. CASE LinkEnds(c)
    BY <2>1 DEF LinkEnds
  <2>2. CASE DropForward(c)
    BY <2>2 DEF DropForward, InUse
  <2>3. CASE ReportIdle(c)
    BY <2>3 DEF ReportIdle, UpdateForward
  <2>4. CASE EmitIdle(c)
    BY <2>4 DEF EmitIdle, Listed
  <2>. QED BY <1>4, <2>1, <2>2, <2>3, <2>4 DEF LinkStep
<1>5. ASSUME NEW b \in Binds, TimerStep(b)
      PROVE  UsersKept \/ ActiveCountsUsers'
  <2>1. CASE IdleFires(b)
    BY <2>1 DEF IdleFires
  <2>2. CASE IdleRuns(b)
    BY <2>2 DEF IdleRuns, Unused
  <2>. QED BY <1>5, <2>1, <2>2 DEF TimerStep
<1>6. CASE UNCHANGED vars
  BY <1>6 DEF vars
<1>. QED BY <1>1, <1>2, <1>3, <1>4, <1>5, <1>6 DEF Next

(* Only the timer's function takes a fired timer away. *)
LEMMA OnlyIdleRuns ==
  ASSUME Typed, [Next]_vars, NEW d \in Binds, fired'[d] < fired[d]
  PROVE  IdleRuns(d)
<1>. USE ForwardAssumption DEF TypeOK, Typed, Binds, Steps, States, fcVars, localVars,
   linkVars
<1>1. CASE BindForward
  BY <1>1 DEF BindForward
<1>2. CASE UnbindForward
  BY <1>2 DEF UnbindForward, CloseLinkOf, Listed
<1>3. ASSUME NEW l \in Locals, LocalStep(l)
      PROVE  IdleRuns(d)
  <2>1. CASE AcceptForward(l)
    BY <2>1 DEF AcceptForward
  <2>2. CASE JoinConnection(l)
    BY <2>2 DEF JoinConnection, DialFree, HasOpenConn, Attach
  <2>3. CASE StartDial(l)
    BY <2>3 DEF StartDial, DialFree, HasOpenConn
  <2>4. CASE DialFails(l)
    BY <2>4 DEF DialFails, UpdateForward
  <2>5. CASE DiscardConnection(l)
    BY <2>5 DEF DiscardConnection
  <2>6. CASE PublishConnection(l)
    BY <2>6 DEF PublishConnection, Attach
  <2>7. CASE ReportConnected(l)
    BY <2>7 DEF ReportConnected, UpdateForward
  <2>8. CASE ServeEnds(l)
    BY <2>8 DEF ServeEnds
  <2>9. CASE FailForward(l)
    BY <2>9 DEF FailForward, Drops
  <2>10. CASE CloseFailed(l)
    BY <2>10 DEF CloseFailed
  <2>11. CASE EmitLocal(l)
    BY <2>11 DEF EmitLocal, Listed
  <2>12. CASE ReleaseForward(l)
    BY <2>12 DEF ReleaseForward, LastUser
  <2>13. ASSUME NEW c \in Links, DialSucceeds(l, c)
        PROVE  IdleRuns(d)
    BY <2>13 DEF DialSucceeds
  <2>. QED BY <1>3, <2>1, <2>2, <2>3, <2>4, <2>5, <2>6, <2>7, <2>8, <2>9, <2>10, <2>11,
     <2>12, <2>13 DEF LocalStep
<1>4. ASSUME NEW c \in Links, LinkStep(c)
      PROVE  IdleRuns(d)
  <2>1. CASE LinkEnds(c)
    BY <2>1 DEF LinkEnds
  <2>2. CASE DropForward(c)
    BY <2>2 DEF DropForward, InUse
  <2>3. CASE ReportIdle(c)
    BY <2>3 DEF ReportIdle, UpdateForward
  <2>4. CASE EmitIdle(c)
    BY <2>4 DEF EmitIdle, Listed
  <2>. QED BY <1>4, <2>1, <2>2, <2>3, <2>4 DEF LinkStep
<1>5. ASSUME NEW b \in Binds, TimerStep(b)
      PROVE  IdleRuns(d)
  <2>1. CASE IdleFires(b)
    BY <2>1 DEF IdleFires
  <2>2. CASE IdleRuns(b)
    <3>1. fired' = [fired EXCEPT ![b] = fired[b] - 1]
      BY <2>2 DEF IdleRuns
    <3>2. b = d
      BY <3>1
    <3>. QED BY <2>2, <3>2
  <2>. QED BY <1>5, <2>1, <2>2 DEF TimerStep
<1>6. CASE UNCHANGED vars
  BY <1>6 DEF vars
<1>. QED BY <1>1, <1>2, <1>3, <1>4, <1>5, <1>6 DEF Next

(* What a step may do to the usable link of a bind. *)
LinkKept(d) ==
    HasOpenConn(d) /\ conn'[d] # conn[d]
      => \/ closed'[d]
         \/ \E l \in Locals : via[l] = conn[d] /\ pc[l] = "serving" /\ pc'[l] = "failing"

(* Every step keeps to it. *)
LEMMA LinkKeptStep ==
  ASSUME Typed, Owned, DialsAlone, [Next]_vars, NEW d \in Binds
  PROVE  LinkKept(d)
<1>. USE ForwardAssumption DEF LinkKept, HasOpenConn, DialsAlone, FreshBinds, Owned,
   Conns, TypeOK, Typed, Binds, Steps, States, fcVars, localVars, linkVars
<1>1. CASE BindForward
  BY <1>1 DEF BindForward
<1>2. CASE UnbindForward
  BY <1>2 DEF UnbindForward, CloseLinkOf, Listed
<1>3. ASSUME NEW l \in Locals, LocalStep(l)
      PROVE  LinkKept(d)
  <2>1. CASE AcceptForward(l)
    BY <2>1 DEF AcceptForward
  <2>2. CASE JoinConnection(l)
    BY <2>2 DEF JoinConnection, DialFree, Attach
  <2>3. CASE StartDial(l)
    BY <2>3 DEF StartDial, DialFree
  <2>4. CASE DialFails(l)
    BY <2>4 DEF DialFails, UpdateForward
  <2>5. CASE DiscardConnection(l)
    BY <2>5 DEF DiscardConnection
  <2>6. CASE PublishConnection(l)
    BY <2>6 DEF PublishConnection, Attach
  <2>7. CASE ReportConnected(l)
    BY <2>7 DEF ReportConnected, UpdateForward
  <2>8. CASE ServeEnds(l)
    BY <2>8 DEF ServeEnds
  <2>9. CASE FailForward(l)
    <3>1. FailMoves(l)
      BY <2>9, FailMovesLemma
    <3>. QED BY <3>1 DEF FailMoves
  <2>10. CASE CloseFailed(l)
    BY <2>10 DEF CloseFailed
  <2>11. CASE EmitLocal(l)
    BY <2>11 DEF EmitLocal, Listed
  <2>12. CASE ReleaseForward(l)
    BY <2>12 DEF ReleaseForward, LastUser
  <2>13. ASSUME NEW c \in Links, DialSucceeds(l, c)
        PROVE  LinkKept(d)
    BY <2>13 DEF DialSucceeds
  <2>. QED BY <1>3, <2>1, <2>2, <2>3, <2>4, <2>5, <2>6, <2>7, <2>8, <2>9, <2>10, <2>11,
     <2>12, <2>13 DEF LocalStep
<1>4. ASSUME NEW c \in Links, LinkStep(c)
      PROVE  LinkKept(d)
  <2>1. CASE LinkEnds(c)
    BY <2>1 DEF LinkEnds
  <2>2. CASE DropForward(c)
    BY <2>2 DEF DropForward, InUse
  <2>3. CASE ReportIdle(c)
    BY <2>3 DEF ReportIdle, UpdateForward
  <2>4. CASE EmitIdle(c)
    BY <2>4 DEF EmitIdle, Listed
  <2>. QED BY <1>4, <2>1, <2>2, <2>3, <2>4 DEF LinkStep
<1>5. ASSUME NEW b \in Binds, TimerStep(b)
      PROVE  LinkKept(d)
  <2>1. CASE IdleFires(b)
    BY <2>1 DEF IdleFires
  <2>2. CASE IdleRuns(b)
    BY <2>2 DEF IdleRuns, Unused
  <2>. QED BY <1>5, <2>1, <2>2 DEF TimerStep
<1>6. CASE UNCHANGED vars
  BY <1>6 DEF vars
<1>. QED BY <1>1, <1>2, <1>3, <1>4, <1>5, <1>6 DEF Next

-----------------------------------------------------------------------------
(* Every step keeps the inductive invariant. *)
LEMMA StepInv == IndInv /\ [Next]_vars => IndInv'
BY TypeStep, FreshStep, DueStep, OwnedStep, OneDialStep, DialsAloneStep, StoppedStep, OrphanStep,
   ErrorStep, CountStep, CountKept
   DEF IndInv, Typed

(* It holds throughout. *)
LEMMA Invariance == Spec => []IndInv
BY InitInv, StepInv, PTL DEF Spec

(* The variables of Forward always have their types. *)
THEOREM TypeCorrect == Spec => []TypeOK
BY Invariance, PTL DEF IndInv, Typed

(* updateForward, failForward and forwardConnection never revive a bind that was *)
(* unbound.                                                                      *)
THEOREM StoppedStays == Spec => []StoppedForGood
BY Invariance, PTL DEF IndInv

(* No order of dialing, failing, timing out and unbinding leaves a pod connection *)
(* open that nobody will close.                                                   *)
THEOREM NoLeakedLink == Spec => []NoOrphanLink
BY Invariance, PTL DEF IndInv

(* A late failure never puts a bind in error over a link that works. *)
THEOREM ErrorHasNoLink == Spec => []ErrorMeansNoLink
BY Invariance, PTL DEF IndInv

(* fc.active is the number of locals that use the bind's connections. *)
THEOREM ActiveIsCount == Spec => []ActiveCountsUsers
BY Invariance, PTL DEF IndInv

(* fc.dial keeps a bind from having two pod connections at once. *)
THEOREM OneLinkAtATime == Spec => []OneOpenLink
<1>1. ASSUME IndInv
      PROVE  OneOpenLink
  <2>. USE <1>1 DEF IndInv
  <2>1. SUFFICES ASSUME NEW c \in Links, NEW d \in Links, c # d,
                        link[c] = "open", link[d] = "open", owner[c] = owner[d],
                        \A l \in Locals : via[l] \in {c, d} => pc[l] # "failing"
                 PROVE  FALSE
    BY DEF OneOpenLink
  <2>2. ASSUME NEW e \in {c, d}
        PROVE  (\E l \in Locals : via[l] = e /\ pc[l] = "dialed") \/ conn[owner[e]] = e
    BY <2>1 DEF NoOrphanLink, InHand
  <2>3. ASSUME NEW l \in Locals, pc[l] = "dialed", NEW e \in {c, d}, via[l] = e,
               NEW f \in {c, d}, conn[owner[f]] = f
        PROVE  FALSE
    <3>1. home[l] = owner[f]
      BY <2>1, <2>3 DEF Owned, Hands
    <3>2. f # NoLink
      BY ForwardAssumption
    <3>. QED BY <2>1, <2>3, <3>1, <3>2 DEF DialsAlone, HasOpenConn
  <2>4. ASSUME NEW l \in Locals, pc[l] = "dialed", via[l] = c,
               NEW m \in Locals, pc[m] = "dialed", via[m] = d
        PROVE  FALSE
    <3>1. home[l] = home[m]
      BY <2>1, <2>4 DEF Owned, Hands
    <3>. QED BY <2>1, <2>4, <3>1 DEF OneDial, Dialing
  <2>. QED BY <2>1, <2>2, <2>3, <2>4
<1>. QED BY <1>1, Invariance, PTL

(* The idle timer's function never closes a link that a local is using: fc.mu  *)
(* covers both its look at fc.active and attach.                               *)
THEOREM IdleTimerSparesUsers == Spec => IdleSparesUsers
<1>1. ASSUME IndInv, [Next]_vars,
             NEW b \in Binds, NEW c \in Links,
             fired'[b] < fired[b], link[c] = "open", link'[c] = "closed",
             NEW l \in Locals, via[l] = c, pc[l] \in {"published", "reporting", "serving"}
      PROVE  FALSE
  <2>. USE <1>1 DEF IndInv
  <2>1. IdleRuns(b)
    BY OnlyIdleRuns
  <2>2. c = conn[b] /\ active[b] = 0
    BY <2>1 DEF IdleRuns, Unused, Typed, TypeOK
  <2>3. l \in Users(b)
    BY <2>2, ForwardAssumption DEF Users, Attached, Owned, Hands, Conns
  <2>4. Cardinality(Users(b)) = 0
    BY <2>2 DEF ActiveCountsUsers, Users
  <2>. QED BY <2>3, <2>4, UsersFinite, FS_EmptySet
<1>2. IndInv /\ [Next]_vars =>
        \A b \in Binds, c \in Links :
          fired'[b] < fired[b] /\ link[c] = "open" /\ link'[c] = "closed"
            => ~\E l \in Locals : via[l] = c /\ pc[l] \in {"published", "reporting", "serving"}
  BY <1>1
<1>. QED BY <1>2, Invariance, PTL DEF IdleSparesUsers, Spec

(* dropForward of an old link never takes its successor away. *)
THEOREM LiveLinkStays == Spec => LiveLinkIsKept
<1>1. IndInv /\ [Next]_vars => \A b \in Binds : LinkKept(b)
  BY LinkKeptStep DEF IndInv
<1>. QED BY <1>1, Invariance, PTL DEF LiveLinkIsKept, LinkKept, Spec

=============================================================================
