------------------------------ MODULE PortsProofs ------------------------------
(***************************************************************************)
(* What Ports keeps for any forwards, targets and ports: that no target's  *)
(* port is forwarded twice, that the rows are what is saved once nothing   *)
(* runs, and that a retry of the dialog adds only the rest.  The second    *)
(* rests on the calls that are bound to have the config read again         *)
(* (ReadIsOwed), the third on what the dialog has added staying out of     *)
(* reach of every call until the rows show it (AddedIsSafe, AddedIsRead).  *)
(***************************************************************************)
EXTENDS Ports, FiniteSetTheorems, WellFoundedInduction, TLAPS

--------------------------------------------------------------------------------
(* Types. *)

Queues == Seq(Sent) \ {<<>>}
CallType ==
  [op : {"enable", "save", "remove", "add"}, id : Ids \cup {0}, queue : Queues, at : {"sent", "served", "settling"},
   result : Results, seen : BOOLEAN]
DialogType ==
  [open : BOOLEAN, target : Targets \cup {NoTarget}, unticked : SUBSET Remotes, typed : [Remotes -> Locals \cup {0}],
   error : Results, added : SUBSET Sent]
ErrorType == [enable : Results, save : Results]

ServiceTypes ==
  /\ saved \in [Ids -> Forwards \cup {Gone}] /\ minted \in Ids /\ taken \subseteq Locals
  /\ bound \in [Ids -> {"no", "bound", "failed"}]
ConfigTypes ==
  /\ rows \in [Ids -> Forwards \cup {Gone}] /\ answer \in [Ids -> Forwards \cup {Gone}]
  /\ fetch \in {"idle", "asked", "read"}
CallTypes ==
  /\ calls \subseteq CallType
  /\ \A c \in calls : c.id = 0 <=> c.op = "add"
ScreenTypes ==
  /\ editing \subseteq Ids /\ errors \in [Ids -> ErrorType] /\ dialog \in DialogType
  /\ deleting \in Ids \cup {0} /\ (deleting # 0 => rows[deleting] # Gone)

TypeInv == ServiceTypes /\ ConfigTypes /\ CallTypes /\ ScreenTypes

--------------------------------------------------------------------------------
(* The rows. *)

\* Every way on of such a call asks for the config; what it reads is never older than the call.
ReadIsOwed == \E c \in calls : (c.at = "served" /\ c.result = Fine) \/ (c.op = "add" /\ c.at # "settling")
RowsFollow ==
  /\ fetch = "idle" => rows = saved \/ ReadIsOwed
  /\ fetch = "read" => answer = saved \/ ReadIsOwed
OnIsBound == \A i \in Ids : saved[i].on = (bound[i] # "no")

--------------------------------------------------------------------------------
(* The dialog. *)

\* An id that was not given out is nobody's.
Known ==
  /\ \A i \in Ids : saved[i] # Gone \/ rows[i] # Gone \/ answer[i] # Gone => i <= minted
  /\ \A c \in calls : c.id <= minted

Within(s, f) == \E i \in Ids : SameTarget(s[i], f)
\* No call in flight can take it away, and no row is there to make one.
Safe(f) == \E i \in Ids : SameTarget(saved[i], f) /\ \A c \in calls : c.id # i

DialogInv ==
  /\ dialog.added # {} => dialog.open
  /\ dialog.open => deleting = 0
  /\ Sending # {} => dialog.open
AddedIsSafe ==
  /\ \A f \in dialog.added : Safe(f)
  /\ \A c \in Sending : c.at = "served" /\ c.result = Fine => Safe(Head(c.queue))
AddedIsRead ==
  /\ \A c \in Sending : c.at = "settling" => fetch # "idle"
  /\ fetch = "read" /\ (\A c \in Sending : c.at = "settling") => \A f \in dialog.added : Within(answer, f)
  /\ Sending = {} => \A f \in dialog.added : Within(rows, f)

RetryInv == Known /\ DialogInv /\ AddedIsSafe /\ AddedIsRead

--------------------------------------------------------------------------------
(* Operators. *)

\* A set of naturals has a least element: the one lemma here that needs induction.
LEMMA LeastExists ==
  ASSUME NEW S \in SUBSET Nat, S # {}
  PROVE  \E m \in S : \A n \in S : m <= n
<1>1. PICK m \in S : \A n \in S : ~ (<<n, m>> \in OpToRel(<, Nat))
  BY NatLessThanWellFounded, WFMin, Zenon
<1>2. ASSUME NEW n \in S PROVE m <= n
  <2>1. ~ (n < m)
    BY <1>1 DEF OpToRel
  <2> QED BY <2>1
<1> QED BY <1>2

LEMMA MinIsOne ==
  ASSUME NEW S \in SUBSET Nat, S # {}
  PROVE  Min(S) \in S
BY LeastExists DEF Min

LEMMA IdsAreNumbers == Cardinality(Ids) \in Nat \ {0} /\ Ids \subseteq Nat \ {0} /\ 0 \notin Ids /\ 1 \in Ids
<1>1. Cardinality(Ids) \in Nat /\ (Cardinality(Ids) = 0 <=> Ids = {})
  BY PortsAssumption, FS_CardinalityType, FS_EmptySet
<1> QED BY <1>1, PortsAssumption

LEMMA FreePortIsLocal == NextFreePort \in Locals \cup {0}
<1>1. Available \subseteq Locals /\ Locals \subseteq Nat
  BY PortsAssumption DEF Available, Locals
<1> QED BY <1>1, MinIsOne DEF NextFreePort

LEMMA ResultsOfCalls ==
  /\ Fine \in Results /\ Failed \in Results /\ Failed # Fine
  /\ \A p \in Locals : Busy(p) \subseteq Results /\ Fine \notin Busy(p)
BY DEF Fine, Failed, Results, Busy

LEMMA SavedIsForward ==
  /\ Gone \notin Forwards
  /\ \A f \in Forwards : f \in Sent /\ f.target # NoTarget
  /\ \A f \in Sent : f.target # NoTarget /\ f.target \in Targets /\ f.remote \in Remotes /\ f.on \in BOOLEAN
BY PortsAssumption DEF Gone, Forwards, Sent

\* A call further on, and one that nobody waits for any more, is the same call.
LEMMA ServedCall ==
  ASSUME NEW c \in CallType, NEW r \in Results
  PROVE  LET d == [c EXCEPT !.at = "served", !.result = r]
         IN  /\ d \in CallType /\ d.at = "served" /\ d.result = r
             /\ d.op = c.op /\ d.id = c.id /\ d.queue = c.queue /\ d.seen = c.seen
BY DEF CallType

LEMMA SettlingCall ==
  ASSUME NEW c \in CallType
  PROVE  /\ Settling(c) \in CallType /\ Settling(c).at = "settling" /\ Settling(c).op = c.op /\ Settling(c).id = c.id
         /\ Settling(c).seen = c.seen
BY DEF CallType, Settling

Same(c, d) == d.op = c.op /\ d.id = c.id /\ d.queue = c.queue /\ d.at = c.at /\ d.result = c.result
LEMMA LetGoCalls ==
  ASSUME NEW S \in SUBSET CallType
  PROVE  /\ LetGo(S) \subseteq CallType
         /\ \A d \in LetGo(S) : ~d.seen /\ \E c \in S : Same(c, d)
         /\ \A c \in S : \E d \in LetGo(S) : Same(c, d)
<1>1. \A c \in S : [c EXCEPT !.seen = FALSE] \in CallType /\ Same(c, [c EXCEPT !.seen = FALSE])
                   /\ ~[c EXCEPT !.seen = FALSE].seen
  BY DEF CallType, Same
<1> QED BY <1>1 DEF LetGo

LEMMA SentCall ==
  ASSUME NEW op \in {"enable", "save", "remove", "add"}, NEW id \in Ids \cup {0}, NEW q \in Queues
  PROVE  LET c == Call(op, id, q)
         IN  /\ c \in CallType /\ c.op = op /\ c.id = id /\ c.queue = q /\ c.at = "sent" /\ c.seen
BY ResultsOfCalls DEF Call, CallType

LEMMA OneQueued ==
  ASSUME NEW f \in Sent
  PROVE  <<f>> \in Queues
BY DEF Queues

LEMMA HeadIsSent ==
  ASSUME NEW q \in Queues
  PROVE  Head(q) \in Sent /\ Tail(q) \in Seq(Sent)
BY DEF Queues

--------------------------------------------------------------------------------
(* Types are kept. *)

LEMMA TypeInit == Init => TypeInv
<1> SUFFICES ASSUME Init
             PROVE  TypeInv
  OBVIOUS
<1>1. Min(Remotes) \in Remotes /\ 1 \in Locals
  BY MinIsOne, PortsAssumption DEF Locals
<1>2. saved \in [Ids -> Forwards \cup {Gone}] /\ bound \in [Ids -> {"no", "bound", "failed"}]
  BY <1>1 DEF Init, Forwards
<1>3. Shut \in DialogType
  BY ResultsOfCalls DEF Shut, DialogType
<1>4. errors \in [Ids -> ErrorType]
  BY ResultsOfCalls DEF Init, ErrorType
<1> QED BY <1>2, <1>3, <1>4, IdsAreNumbers
        DEF Init, TypeInv, ServiceTypes, ConfigTypes, CallTypes, ScreenTypes

\* What a call the service has served is.
LEMMA ServedTypes ==
  ASSUME TypeInv, NEW c \in calls, Served(c)
  PROVE  /\ ServiceTypes'
         /\ \E r \in Results : calls' = (calls \ {c}) \cup {[c EXCEPT !.at = "served", !.result = r]}
                               /\ (r # Fine => UNCHANGED saved)
<1>1. c \in CallType /\ Head(c.queue) \in Sent
  BY HeadIsSent DEF TypeInv, CallTypes, CallType
<1> USE DEF TypeInv, ServiceTypes
<1>2. ASSUME NEW r \in Results, Refused(c, r) PROVE ServiceTypes' /\ calls' = (calls \ {c}) \cup {[c EXCEPT !.at = "served", !.result = r]} /\ UNCHANGED saved
  BY <1>2 DEF Refused, Result, Becomes, server
<1>3. ASSUME NEW i \in Ids, NEW f \in Forwards, ApplyForward(i, f)
      PROVE  bound' \in [Ids -> {"no", "bound", "failed"}]
  BY <1>3 DEF ApplyForward
<1>4. ASSUME Result(c, Fine)
      PROVE  calls' = (calls \ {c}) \cup {[c EXCEPT !.at = "served", !.result = Fine]}
  BY <1>4 DEF Result, Becomes
<1>5. CASE c.op \in {"add", "save"} /\ SaveForward(c, c.id, Head(c.queue))
  <2> DEFINE f == Head(c.queue)
             p == LocalPort(c.id, f)
             i == IF c.id = 0 THEN minted + 1 ELSE c.id
             g == [f EXCEPT !.local = p]
  <2>1. p \in Locals \cup {0}
    BY <1>1, FreePortIsLocal DEF LocalPort, Sent
  <2>2. CASE Refused(c, Failed)
    BY <2>2, <1>2, ResultsOfCalls
  <2>3. CASE ~Usable(c.id, f) /\ \E r \in Busy(p) : Refused(c, r)
    <3>1. p \in Locals
      BY <2>1, <2>3, <1>1 DEF Usable, LocalPort, Sent
    <3> HIDE DEF p
    <3> QED BY <2>3, <3>1, <1>2, ResultsOfCalls
  <2>4. CASE /\ p # 0 /\ i \in Ids /\ saved' = [saved EXCEPT ![i] = g] /\ ApplyForward(i, g)
             /\ minted' = (IF c.id = 0 THEN i ELSE minted) /\ UNCHANGED taken /\ Result(c, Fine)
    <3>1. g \in Forwards
      BY <1>1, <2>1, <2>4 DEF Sent, Forwards
    <3>2. bound' \in [Ids -> {"no", "bound", "failed"}]
      BY <1>3, <2>4, <3>1
    <3>3. saved' \in [Ids -> Forwards \cup {Gone}] /\ minted' \in Ids /\ taken' \subseteq Locals
      BY <2>4, <3>1
    <3> QED BY <3>2, <3>3, <2>4, <1>4, ResultsOfCalls
  <2> QED BY <1>5, <2>2, <2>3, <2>4 DEF SaveForward
<1>6. CASE c.op = "enable" /\ SetForwardEnabled(c, c.id, Head(c.queue).on)
  <2>1. c.id \in Ids
    BY <1>1, <1>6 DEF CallTypes, CallType
  <2>2. CASE Refused(c, Failed)
    BY <2>2, <1>2, ResultsOfCalls
  <2>3. CASE saved[c.id] # Gone /\ \E r \in Busy(saved[c.id].local) : Refused(c, r)
    <3>1. saved[c.id].local \in Locals
      BY <2>1, <2>3 DEF Forwards
    <3> QED BY <2>3, <3>1, <1>2, ResultsOfCalls
  <2>4. CASE /\ saved[c.id] # Gone /\ saved' = [saved EXCEPT ![c.id].on = Head(c.queue).on]
             /\ ApplyForward(c.id, [saved[c.id] EXCEPT !.on = Head(c.queue).on])
             /\ UNCHANGED <<minted, taken>> /\ Result(c, Fine)
    <3>1. [saved[c.id] EXCEPT !.on = Head(c.queue).on] \in Forwards
      <4>1. saved[c.id] \in Forwards /\ Head(c.queue).on \in BOOLEAN
        BY <1>1, <2>1, <2>4, SavedIsForward
      <4> QED BY <4>1 DEF Forwards
    <3>2. bound' \in [Ids -> {"no", "bound", "failed"}]
      BY <1>3, <2>1, <2>4, <3>1
    <3>3. saved' \in [Ids -> Forwards \cup {Gone}]
      BY <2>1, <2>4, <3>1
    <3> QED BY <3>2, <3>3, <2>4, <1>4, ResultsOfCalls
  <2> QED BY <1>6, <2>2, <2>3, <2>4 DEF SetForwardEnabled
<1>7. CASE c.op = "remove" /\ DeleteForward(c, c.id)
  <2>1. CASE Refused(c, Failed)
    BY <2>1, <1>2, ResultsOfCalls
  <2>2. CASE /\ saved' = [saved EXCEPT ![c.id] = Gone] /\ bound' = [bound EXCEPT ![c.id] = "no"]
             /\ UNCHANGED <<minted, taken>> /\ Result(c, Fine)
    BY <2>2, <1>4, ResultsOfCalls
  <2> QED BY <1>7, <2>1, <2>2 DEF DeleteForward
<1> QED BY <1>5, <1>6, <1>7 DEF Served

LEMMA CallsKept ==
  ASSUME CallTypes, calls' \subseteq CallType,
         \A d \in calls' : \E c \in calls : d.op = c.op /\ d.id = c.id
  PROVE  CallTypes'
BY DEF CallTypes

LEMMA ToldTypes ==
  ASSUME TypeInv, NEW c \in calls, c.op # "add", NEW field \in {"enable", "save"}
  PROVE  Told(c, field) \in [Ids -> ErrorType]
<1>1. c.id \in Ids /\ c.result \in Results /\ errors \in [Ids -> ErrorType]
  BY DEF TypeInv, CallTypes, CallType, ScreenTypes
<1>2. [errors EXCEPT ![c.id].enable = c.result] \in [Ids -> ErrorType]
  BY <1>1 DEF ErrorType
<1>3. [errors EXCEPT ![c.id].save = c.result] \in [Ids -> ErrorType]
  BY <1>1 DEF ErrorType
<1> QED BY <1>1, <1>2, <1>3 DEF Told

LEMMA InvalidatesTypes ==
  ASSUME TypeInv, Invalidates
  PROVE  ConfigTypes' /\ UNCHANGED rows
BY DEF TypeInv, ConfigTypes, Invalidates

LEMMA AnsweredTypes ==
  ASSUME TypeInv, NEW c \in calls, Answered(c)
  PROVE  TypeInv'
<1>1. c \in CallType /\ calls \subseteq CallType /\ UNCHANGED server
  BY DEF TypeInv, CallTypes, Answered
<1>2. ServiceTypes'
  BY <1>1 DEF TypeInv, ServiceTypes, server
<1>3. ASSUME NEW S \in SUBSET calls PROVE LetGo(S) \subseteq CallType /\ \A d \in LetGo(S) : \E x \in calls : Same(x, d)
  BY <1>1, LetGoCalls
<1>4. ASSUME Becomes(c, Settling(c)) PROVE CallTypes'
  BY <1>1, <1>4, SettlingCall, CallsKept DEF Becomes, TypeInv
<1>5. ASSUME calls' = calls \ {c} PROVE CallTypes'
  BY <1>1, <1>5, CallsKept DEF TypeInv
<1>6. ASSUME UNCHANGED config PROVE ConfigTypes' /\ UNCHANGED rows
  BY <1>6 DEF TypeInv, ConfigTypes, config
<1>7. CASE Switched(c)
  <2>1. CallTypes'
    BY <1>4, <1>5, <1>7 DEF Switched
  <2>2. ConfigTypes' /\ UNCHANGED rows
    BY <1>6, <1>7, InvalidatesTypes DEF Switched
  <2>3. errors' \in [Ids -> ErrorType]
    BY <1>7, ToldTypes DEF Switched, TypeInv, ScreenTypes
  <2> QED BY <1>2, <1>7, <2>1, <2>2, <2>3 DEF Switched, TypeInv, ScreenTypes
<1>8. CASE PortSaved(c)
  <2> DEFINE switches == {x \in calls : x.op = "enable" /\ x.id = c.id /\ c.seen}
  <2>1. ASSUME calls' = ((calls \ {c}) \ switches) \cup LetGo(switches) PROVE CallTypes'
    <3>1. switches \in SUBSET calls
      OBVIOUS
    <3> HIDE DEF switches
    <3>2. LetGo(switches) \subseteq CallType /\ \A d \in LetGo(switches) : \E x \in calls : Same(x, d)
      BY <1>3, <3>1
    <3>3. calls' \subseteq CallType /\ \A d \in calls' : \E x \in calls : d.op = x.op /\ d.id = x.id
      BY <1>1, <2>1, <3>2 DEF Same
    <3> QED BY <3>3, CallsKept DEF TypeInv
  <2>2. CallTypes'
    BY <1>5, <1>8, <2>1 DEF PortSaved
  <2>3. ConfigTypes' /\ UNCHANGED rows
    BY <1>6, <1>8, InvalidatesTypes DEF PortSaved
  <2>4. errors' \in [Ids -> ErrorType]
    <3>1. c.id \in Ids /\ Fine \in Results /\ errors \in [Ids -> ErrorType]
      BY <1>1, <1>8, ResultsOfCalls DEF PortSaved, TypeInv, CallTypes, CallType, ScreenTypes
    <3>2. [errors EXCEPT ![c.id].enable = Fine] \in [Ids -> ErrorType]
      BY <3>1 DEF ErrorType
    <3> QED BY <1>8, <3>1, <3>2, ToldTypes DEF PortSaved
  <2>5. editing' \subseteq Ids
    BY <1>8 DEF PortSaved, TypeInv, ScreenTypes
  <2> QED BY <1>2, <1>8, <2>2, <2>3, <2>4, <2>5 DEF PortSaved, TypeInv, ScreenTypes
<1>9. CASE Removed(c)
  <2>1. CallTypes' /\ ConfigTypes' /\ UNCHANGED rows
    BY <1>4, <1>5, <1>6, <1>9, InvalidatesTypes DEF Removed
  <2> QED BY <1>2, <1>9, <2>1 DEF Removed, TypeInv, ScreenTypes, screen
<1>10. CASE Added(c)
  <2>1. UNCHANGED <<editing, errors, deleting>>
    BY <1>10 DEF Added
  <2>2. CASE AddFailed(c)
    <3>1. CallTypes' /\ ConfigTypes' /\ UNCHANGED rows /\ UNCHANGED dialog
      BY <1>4, <2>2, InvalidatesTypes DEF AddFailed
    <3> QED BY <1>2, <2>1, <3>1 DEF TypeInv, ScreenTypes
  <2>3. CASE PortAdded(c)
    <3> DEFINE e == [Head(c.queue) EXCEPT !.local = 0]
               added == IF c.seen THEN dialog.added \cup {e} ELSE dialog.added
               d == [c EXCEPT !.at = "sent", !.queue = Tail(@), !.result = Fine]
               later == {x \in calls \ {c} : x.op = "add"}
    <3>1. e \in Sent /\ Tail(c.queue) \in Seq(Sent)
      <4>1. Head(c.queue) \in Sent /\ Tail(c.queue) \in Seq(Sent)
        BY <1>1, HeadIsSent DEF CallType
      <4> QED BY <4>1 DEF Sent
    <3>2. CASE /\ Tail(c.queue) # <<>> /\ Becomes(c, d) /\ dialog' = [dialog EXCEPT !.added = added]
               /\ UNCHANGED config
      <4>1. d \in CallType /\ d.op = c.op /\ d.id = c.id
        BY <1>1, <3>1, <3>2, ResultsOfCalls DEF CallType, Queues
      <4>2. CallTypes'
        BY <1>1, <3>2, <4>1, CallsKept DEF Becomes, TypeInv
      <4>3. added \subseteq Sent
        BY <3>1 DEF TypeInv, ScreenTypes, DialogType
      <4>4. dialog' \in DialogType
        <5> HIDE DEF added
        <5> QED BY <3>2, <4>3 DEF DialogType, TypeInv, ScreenTypes
      <4>5. UNCHANGED rows
        BY <3>2 DEF config
      <4> QED BY <1>2, <1>6, <2>1, <3>2, <4>2, <4>4, <4>5 DEF TypeInv, ScreenTypes
    <3>3. CASE /\ Invalidates /\ calls' = ((calls \ {c}) \ later) \cup LetGo(later) /\ dialog' = Shut
      <4>1. Shut \in DialogType
        BY ResultsOfCalls DEF Shut, DialogType
      <4>2. later \in SUBSET calls
        OBVIOUS
      <4>3. CallTypes'
        <5> HIDE DEF later
        <5> QED BY <1>1, <1>3, <3>3, <4>2, CallsKept DEF TypeInv, Same
      <4> QED BY <1>2, <2>1, <3>3, <4>1, <4>3, InvalidatesTypes DEF TypeInv, ScreenTypes
    <3> QED BY <2>3, <3>2, <3>3 DEF PortAdded
  <2> QED BY <1>10, <2>2, <2>3 DEF Added
<1> QED BY <1>7, <1>8, <1>9, <1>10 DEF Answered

LEMMA LandsTypes ==
  ASSUME TypeInv, ConfigLands
  PROVE  TypeInv'
<1> DEFINE left == {i \in Ids : answer[i] = Gone}
           awaiting == {c \in calls : c.at = "settling"}
           lost == {c \in calls \ awaiting : c.op # "add" /\ c.id \in left}
<1>1. /\ rows' = answer /\ fetch' = "idle" /\ answer' = [i \in Ids |-> Gone]
      /\ calls' = ((calls \ awaiting) \ lost) \cup LetGo(lost)
      /\ editing' = editing \ left
      /\ errors' = [i \in Ids |-> IF i \in left THEN [enable |-> Fine, save |-> Fine] ELSE errors[i]]
      /\ deleting' = IF deleting \in left THEN 0 ELSE deleting
      /\ UNCHANGED server
  BY DEF ConfigLands
<1>2. \/ \E c \in awaiting : c.op = "add" /\ c.seen /\ dialog' = [dialog EXCEPT !.error = c.result]
      \/ UNCHANGED dialog
  BY DEF ConfigLands
<1>3. ServiceTypes' /\ ConfigTypes'
  BY <1>1 DEF TypeInv, ServiceTypes, ConfigTypes, server
<1>4. CallTypes'
  <2>1. lost \in SUBSET calls /\ calls \subseteq CallType
    BY DEF TypeInv, CallTypes
  <2> HIDE DEF lost, awaiting
  <2> QED BY <1>1, <2>1, LetGoCalls, CallsKept DEF TypeInv, Same
<1>5. dialog' \in DialogType
  <2>1. \A c \in awaiting : c.result \in Results
    BY DEF TypeInv, CallTypes, CallType
  <2>2. \A r \in Results : [dialog EXCEPT !.error = r] \in DialogType
    BY DEF TypeInv, ScreenTypes, DialogType
  <2> HIDE DEF awaiting
  <2> QED BY <1>2, <2>1, <2>2 DEF TypeInv, ScreenTypes
<1>6. errors' \in [Ids -> ErrorType]
  <2>1. [enable |-> Fine, save |-> Fine] \in ErrorType
    BY ResultsOfCalls DEF ErrorType
  <2> QED BY <1>1, <2>1 DEF TypeInv, ScreenTypes
<1>7. editing' \subseteq Ids /\ deleting' \in Ids \cup {0} /\ (deleting' # 0 => rows'[deleting'] # Gone)
  BY <1>1 DEF TypeInv, ScreenTypes
<1> QED BY <1>3, <1>4, <1>5, <1>6, <1>7 DEF TypeInv, ScreenTypes

\* What the user sends is a call of its own.
LEMMA SendsTypes ==
  ASSUME TypeInv, NEW op \in {"enable", "save", "remove", "add"}, NEW id \in Ids \cup {0}, NEW q \in Queues,
         id = 0 <=> op = "add", Sends(Call(op, id, q))
  PROVE  ServiceTypes' /\ ConfigTypes' /\ CallTypes' /\ UNCHANGED rows
<1>1. CallTypes'
  BY SentCall DEF Sends, TypeInv, CallTypes
<1> QED BY <1>1 DEF Sends, TypeInv, ServiceTypes, ConfigTypes, server, config

LEMMA RowTypes ==
  ASSUME TypeInv, NEW i \in Ids, RowStep(i)
  PROVE  TypeInv'
<1>1. ScreenTypes /\ (rows[i] # Gone => rows[i] \in Forwards) /\ i # 0
  BY IdsAreNumbers DEF TypeInv, ConfigTypes
<1>2. Fine \in Results
  BY ResultsOfCalls
<1>3. [errors EXCEPT ![i].enable = Fine] \in [Ids -> ErrorType] /\ [errors EXCEPT ![i].save = Fine] \in [Ids -> ErrorType]
  BY <1>1, <1>2 DEF ScreenTypes, ErrorType
<1>4. CASE UserSwitches(i)
  <2>1. [rows[i] EXCEPT !.on = ~@] \in Sent
    BY <1>1, <1>4 DEF UserSwitches, Forwards, Sent
  <2>2. ServiceTypes' /\ ConfigTypes' /\ CallTypes' /\ UNCHANGED rows
    BY <1>1, <1>4, <2>1, OneQueued, SendsTypes DEF UserSwitches
  <2> QED BY <1>1, <1>3, <1>4, <2>2 DEF UserSwitches, TypeInv, ScreenTypes
<1>5. CASE UserEdits(i)
  <2>1. ServiceTypes' /\ ConfigTypes' /\ CallTypes' /\ UNCHANGED rows
    BY <1>5 DEF UserEdits, TypeInv, ServiceTypes, ConfigTypes, CallTypes, server, config
  <2> QED BY <1>1, <1>5, <2>1 DEF UserEdits, TypeInv, ScreenTypes
<1>6. ASSUME NEW f \in Sent, Saves(i, f) PROVE TypeInv'
  <2>1. ServiceTypes' /\ ConfigTypes' /\ CallTypes' /\ UNCHANGED rows
    BY <1>1, <1>6, OneQueued, SendsTypes DEF Saves
  <2> QED BY <1>1, <1>3, <1>6, <2>1 DEF Saves, TypeInv, ScreenTypes
<1>7. ASSUME NEW p \in Typed, UserSavesPort(i, p) PROVE TypeInv'
  <2>1. p \in Locals \cup {0}
    BY PortsAssumption DEF Locals
  <2>2. rows[i] \in Forwards
    BY <1>1, <1>7 DEF UserSavesPort, Saves
  <2>3. [rows[i] EXCEPT !.local = p] \in Sent
    BY <2>1, <2>2 DEF Forwards, Sent
  <2> QED BY <1>6, <1>7, <2>3 DEF UserSavesPort
<1>8. CASE UserTakesFree(i)
  <2>1. RowError(i).free \in Locals \cup {0}
    BY <1>1 DEF RowError, ScreenTypes, ErrorType, Results
  <2>2. rows[i] \in Forwards
    BY <1>1, <1>8 DEF UserTakesFree, Saves
  <2>3. [rows[i] EXCEPT !.local = RowError(i).free, !.on = TRUE] \in Sent
    BY <2>1, <2>2 DEF Forwards, Sent
  <2> QED BY <1>6, <1>8, <2>3 DEF UserTakesFree
<1>9. CASE UserOpensDelete(i)
  BY <1>1, <1>9 DEF UserOpensDelete, Stays, TypeInv, ServiceTypes, ConfigTypes, CallTypes, ScreenTypes, server, config
<1> QED BY <1>4, <1>5, <1>7, <1>8, <1>9 DEF RowStep

\* What an Add sends: the ports that are ticked, with what is typed for each.
LEMMA QueueOfTicked ==
  ASSUME TypeInv, Ticked # {}, NEW q \in Ascending(Ticked)
  PROVE  /\ [k \in DOMAIN q |-> PortAt(q[k])] \in Queues
         /\ \A k \in DOMAIN q : q[k] \in Ticked
<1>1. Ticked \subseteq Remotes /\ dialog.target \in Targets
  BY DEF Ticked, TypeInv, ScreenTypes, DialogType
<1>2. Cardinality(Ticked) \in Nat \ {0}
  <2>1. IsFiniteSet(Ticked)
    BY <1>1, PortsAssumption, FS_Subset
  <2> QED BY <2>1, FS_CardinalityType, FS_EmptySet
<1>3. q \in [1..Cardinality(Ticked) -> Ticked]
  BY DEF Ascending
<1>4. \A r \in Ticked : PortAt(r) \in Sent
  BY <1>1 DEF PortAt, Sent, TypeInv, ScreenTypes, DialogType
<1> HIDE DEF Ticked, PortAt
<1> QED BY <1>2, <1>3, <1>4 DEF Queues

LEMMA DialogTypes ==
  ASSUME TypeInv, DialogStep
  PROVE  TypeInv'
<1>1. dialog \in DialogType /\ ScreenTypes /\ Fine \in Results
  BY ResultsOfCalls DEF TypeInv, ScreenTypes
<1>2. ASSUME UNCHANGED <<server, config, calls>> PROVE ServiceTypes' /\ ConfigTypes' /\ CallTypes' /\ UNCHANGED rows
  BY <1>2 DEF TypeInv, ServiceTypes, ConfigTypes, CallTypes, server, config
<1>3. ASSUME NEW d \in DialogType, ChangesDialog(d) PROVE TypeInv'
  BY <1>1, <1>2, <1>3 DEF ChangesDialog, TypeInv, ScreenTypes
<1>4. CASE UserDeletes
  <2>1. deleting \in Ids /\ rows[deleting] \in Sent
    BY <1>1, <1>4, SavedIsForward DEF UserDeletes, ScreenTypes, TypeInv, ConfigTypes
  <2>2. ServiceTypes' /\ ConfigTypes' /\ CallTypes' /\ UNCHANGED rows
    BY <1>4, <2>1, OneQueued, SendsTypes, IdsAreNumbers DEF UserDeletes
  <2> QED BY <1>1, <1>4, <2>2 DEF UserDeletes, TypeInv, ScreenTypes, screen
<1>5. CASE UserKeeps
  BY <1>1, <1>2, <1>5 DEF UserKeeps, Stays, TypeInv, ScreenTypes
<1>6. CASE UserAdds
  <2>1. PICK q \in Ascending(Ticked) : Sends(Call("add", 0, [k \in DOMAIN q |-> PortAt(q[k])]))
    BY <1>6 DEF UserAdds
  <2>2. [k \in DOMAIN q |-> PortAt(q[k])] \in Queues
    BY <1>6, QueueOfTicked DEF UserAdds
  <2>3. ServiceTypes' /\ ConfigTypes' /\ CallTypes' /\ UNCHANGED rows
    BY <2>1, <2>2, SendsTypes
  <2>4. [dialog EXCEPT !.error = Fine] \in DialogType
    BY <1>1 DEF DialogType
  <2> QED BY <1>1, <1>6, <2>3, <2>4 DEF UserAdds, TypeInv, ScreenTypes
<1>7. CASE UserClosesAdd
  <2> DEFINE adds == {c \in calls : c.op = "add"}
  <2>1. calls' = (calls \ adds) \cup LetGo(adds) /\ dialog' = Shut /\ UNCHANGED <<server, config, editing, errors, deleting>>
    BY <1>7 DEF UserClosesAdd
  <2>2. CallTypes'
    <3>1. adds \in SUBSET calls /\ calls \subseteq CallType
      BY DEF TypeInv, CallTypes
    <3> HIDE DEF adds
    <3> QED BY <2>1, <3>1, LetGoCalls, CallsKept DEF TypeInv, Same
  <2>3. Shut \in DialogType
    BY ResultsOfCalls DEF Shut, DialogType
  <2>4. ServiceTypes' /\ ConfigTypes' /\ UNCHANGED rows
    BY <2>1 DEF TypeInv, ServiceTypes, ConfigTypes, server, config
  <2> QED BY <1>1, <2>1, <2>2, <2>3, <2>4 DEF TypeInv, ScreenTypes
<1>8. ASSUME NEW t \in Targets \cup {NoTarget}, UserOpensAdd(t) PROVE TypeInv'
  <2>1. [Shut EXCEPT !.open = TRUE, !.target = t] \in DialogType
    BY <1>1 DEF Shut, DialogType
  <2> QED BY <1>1, <1>2, <1>8, <2>1 DEF UserOpensAdd, Stays, TypeInv, ScreenTypes
<1>9. ASSUME NEW t \in Targets, UserPicksTarget(t) PROVE TypeInv'
  <2>1. [dialog EXCEPT !.target = t, !.unticked = {}, !.typed = Shut.typed] \in DialogType
    BY <1>1 DEF Shut, DialogType
  <2> QED BY <1>3, <1>9, <2>1 DEF UserPicksTarget
<1>10. ASSUME NEW r \in Remotes, UserTicks(r) PROVE TypeInv'
  <2>1. [dialog EXCEPT !.unticked = IF r \in @ THEN @ \ {r} ELSE @ \cup {r}] \in DialogType
    BY <1>1 DEF DialogType
  <2> QED BY <1>3, <1>10, <2>1 DEF UserTicks
<1>11. ASSUME NEW r \in Remotes, NEW p \in Typed, UserTypes(r, p) PROVE TypeInv'
  <2>1. p \in Locals \cup {0}
    BY PortsAssumption DEF Locals
  <2>2. [dialog EXCEPT !.typed[r] = p] \in DialogType
    BY <1>1, <2>1 DEF DialogType
  <2> QED BY <1>3, <1>11, <2>2 DEF UserTypes
<1>12. ASSUME NEW r \in Remotes, UserTakesOther(r) PROVE TypeInv'
  <2>1. dialog.error.free \in Locals \cup {0}
    BY <1>1 DEF DialogType, Results
  <2>2. [dialog EXCEPT !.error = Fine, !.typed[r] = dialog.error.free] \in DialogType
    BY <1>1, <2>1 DEF DialogType
  <2> QED BY <1>3, <1>12, <2>2 DEF UserTakesOther
<1> QED BY <1>4, <1>5, <1>6, <1>7, <1>8, <1>9, <1>10, <1>11, <1>12 DEF DialogStep

LEMMA TypeStep == TypeInv /\ [Next]_vars => TypeInv'
<1> SUFFICES ASSUME TypeInv, [Next]_vars
             PROVE  TypeInv'
  OBVIOUS
<1>1. ASSUME NEW c \in calls, Served(c) PROVE TypeInv'
  <2>1. c \in CallType
    BY DEF TypeInv, CallTypes
  <2>2. CallTypes'
    <3>1. PICK r \in Results : calls' = (calls \ {c}) \cup {[c EXCEPT !.at = "served", !.result = r]}
      BY <1>1, ServedTypes
    <3> DEFINE d == [c EXCEPT !.at = "served", !.result = r]
    <3>2. d \in CallType /\ d.op = c.op /\ d.id = c.id
      BY <2>1, ServedCall
    <3>3. CallTypes /\ calls \subseteq CallType
      BY DEF TypeInv, CallTypes
    <3>4. calls' = (calls \ {c}) \cup {d}
      BY <3>1
    <3> HIDE DEF d
    <3>5. calls' \subseteq CallType /\ \A x \in calls' : \E y \in calls : x.op = y.op /\ x.id = y.id
      BY <3>2, <3>3, <3>4
    <3> QED BY <3>3, <3>5, CallsKept
  <2>3. UNCHANGED <<config, screen>>
    BY <1>1 DEF Served
  <2> QED BY <1>1, <2>2, <2>3, ServedTypes DEF TypeInv, ConfigTypes, ScreenTypes, config, screen
<1>2. ASSUME NEW c \in calls, Answered(c) PROVE TypeInv'
  BY <1>2, AnsweredTypes
<1>3. CASE ConfigReads
  BY <1>3 DEF ConfigReads, TypeInv, ServiceTypes, ConfigTypes, CallTypes, ScreenTypes, server, screen
<1>4. CASE ConfigLands
  BY <1>4, LandsTypes
<1>5. ASSUME NEW p \in Locals, OtherProgram(p) PROVE TypeInv'
  BY <1>5 DEF OtherProgram, TypeInv, ServiceTypes, ConfigTypes, CallTypes, ScreenTypes, config, screen
<1>6. CASE UNCHANGED vars
  BY <1>6 DEF vars, TypeInv, ServiceTypes, ConfigTypes, CallTypes, ScreenTypes
<1> QED BY <1>1, <1>2, <1>3, <1>4, <1>5, <1>6, RowTypes, DialogTypes DEF Next

(* Every variable keeps its type, whatever is sent, served and answered in whatever order (TypeOK of Ports). *)
THEOREM TypeCorrect == Spec => []TypeOK
<1>1. TypeInv => TypeOK
  <2> SUFFICES ASSUME TypeInv PROVE TypeOK
    OBVIOUS
  <2>1. \A c \in calls : /\ c.op \in {"enable", "save", "remove", "add"} /\ c.id \in Ids \cup {0}
                         /\ c.queue \in Seq(Sent) /\ c.at \in {"sent", "served", "settling"}
                         /\ c.result \in Results /\ c.seen \in BOOLEAN
    BY DEF TypeInv, CallTypes, CallType, Queues
  <2>2. /\ dialog.open \in BOOLEAN /\ dialog.target \in Targets \cup {NoTarget} /\ dialog.error \in Results
        /\ dialog.unticked \subseteq Remotes /\ dialog.typed \in [Remotes -> Locals \cup {0}]
    BY DEF TypeInv, ScreenTypes, DialogType
  <2> QED BY <2>1, <2>2 DEF TypeInv, ServiceTypes, ConfigTypes, ScreenTypes, ErrorType, TypeOK
<1> QED BY TypeInit, TypeStep, <1>1, PTL DEF Spec

--------------------------------------------------------------------------------
(* What is saved. *)

\* What serving a call may leave: nothing, a forward saved or switched, or one less.
Puts(c, i, g) ==
  /\ c.op \in {"add", "save"} /\ i = (IF c.id = 0 THEN minted + 1 ELSE c.id) /\ SameTarget(g, Head(c.queue))
  /\ ~Twin(c.id, Head(c.queue))
  /\ saved' = [saved EXCEPT ![i] = g] /\ ApplyForward(i, g)
  /\ minted' = IF c.id = 0 THEN i ELSE minted
Turns(c, g) ==
  /\ c.op = "enable" /\ saved[c.id] # Gone /\ SameTarget(g, saved[c.id])
  /\ saved' = [saved EXCEPT ![c.id] = g] /\ ApplyForward(c.id, g) /\ UNCHANGED minted
Drops(c) ==
  /\ c.op = "remove" /\ UNCHANGED minted
  /\ saved' = [saved EXCEPT ![c.id] = Gone] /\ bound' = [bound EXCEPT ![c.id] = "no"]

ServedAs(c) ==
  \E r \in Results :
    /\ calls' = (calls \ {c}) \cup {[c EXCEPT !.at = "served", !.result = r]}
    /\ \/ UNCHANGED <<saved, minted, bound>> /\ r # Fine
       \/ r = Fine /\ \E i \in Ids, g \in Forwards : Puts(c, i, g)
       \/ r = Fine /\ c.id \in Ids /\ \E g \in Forwards : Turns(c, g)
       \/ r = Fine /\ c.id \in Ids /\ Drops(c)

LEMMA ServedSaves ==
  ASSUME TypeInv, NEW c \in calls, Served(c)
  PROVE  ServedAs(c)
<1>1. c \in CallType /\ Head(c.queue) \in Sent /\ (c.id = 0 <=> c.op = "add")
  BY HeadIsSent DEF TypeInv, CallTypes, CallType
<1>2. ASSUME NEW r \in Results, r # Fine, Refused(c, r) PROVE ServedAs(c)
  BY <1>2 DEF Refused, Result, Becomes, server, ServedAs
<1>3. ASSUME Result(c, Fine), \/ \E i \in Ids, g \in Forwards : Puts(c, i, g)
                              \/ c.id \in Ids /\ \E g \in Forwards : Turns(c, g)
                              \/ c.id \in Ids /\ Drops(c)
      PROVE  ServedAs(c)
  BY <1>3, ResultsOfCalls DEF Result, Becomes, ServedAs
<1>4. CASE c.op \in {"add", "save"} /\ SaveForward(c, c.id, Head(c.queue))
  <2> DEFINE f == Head(c.queue)
             p == LocalPort(c.id, f)
             i == IF c.id = 0 THEN minted + 1 ELSE c.id
             g == [f EXCEPT !.local = p]
  <2>1. p \in Locals \cup {0}
    BY <1>1, FreePortIsLocal DEF LocalPort, Sent
  <2>2. CASE Refused(c, Failed)
    BY <2>2, <1>2, ResultsOfCalls
  <2>3. CASE ~Usable(c.id, f) /\ \E r \in Busy(p) : Refused(c, r)
    <3>1. p \in Locals
      BY <2>1, <2>3, <1>1 DEF Usable, LocalPort, Sent
    <3> HIDE DEF p
    <3> QED BY <2>3, <3>1, <1>2, ResultsOfCalls
  <2>4. CASE /\ ~Twin(c.id, f) /\ p # 0 /\ i \in Ids /\ saved' = [saved EXCEPT ![i] = g] /\ ApplyForward(i, g)
             /\ minted' = (IF c.id = 0 THEN i ELSE minted) /\ Result(c, Fine)
    <3>1. g \in Forwards /\ SameTarget(g, f)
      BY <1>1, <2>1, <2>4 DEF Sent, Forwards, SameTarget
    <3>2. Puts(c, i, g)
      BY <1>4, <2>4, <3>1 DEF Puts
    <3> HIDE DEF i, g
    <3> QED BY <1>3, <2>4, <3>1, <3>2
  <2> QED BY <1>4, <2>2, <2>3, <2>4 DEF SaveForward
<1>5. CASE c.op = "enable" /\ SetForwardEnabled(c, c.id, Head(c.queue).on)
  <2>1. c.id \in Ids
    BY <1>1, <1>5 DEF CallType
  <2>2. CASE Refused(c, Failed)
    BY <2>2, <1>2, ResultsOfCalls
  <2>3. CASE saved[c.id] # Gone /\ \E r \in Busy(saved[c.id].local) : Refused(c, r)
    <3>1. saved[c.id].local \in Locals
      BY <2>1, <2>3 DEF Forwards, TypeInv, ServiceTypes
    <3> QED BY <2>3, <3>1, <1>2, ResultsOfCalls
  <2>4. CASE /\ saved[c.id] # Gone /\ saved' = [saved EXCEPT ![c.id].on = Head(c.queue).on]
             /\ ApplyForward(c.id, [saved[c.id] EXCEPT !.on = Head(c.queue).on])
             /\ UNCHANGED <<minted, taken>> /\ Result(c, Fine)
    <3> DEFINE g == [saved[c.id] EXCEPT !.on = Head(c.queue).on]
    <3>1. saved[c.id] \in Forwards /\ Head(c.queue).on \in BOOLEAN /\ saved \in [Ids -> Forwards \cup {Gone}]
      BY <1>1, <2>1, <2>4, SavedIsForward DEF TypeInv, ServiceTypes
    <3>2. g \in Forwards /\ SameTarget(g, saved[c.id])
      BY <3>1 DEF Forwards, SameTarget
    <3>3. saved' = [saved EXCEPT ![c.id] = g]
      BY <2>1, <2>4, <3>1
    <3>4. Turns(c, g)
      BY <1>5, <2>4, <3>2, <3>3 DEF Turns
    <3> HIDE DEF g
    <3> QED BY <1>3, <2>1, <2>4, <3>2, <3>4
  <2> QED BY <1>5, <2>2, <2>3, <2>4 DEF SetForwardEnabled
<1>6. CASE c.op = "remove" /\ DeleteForward(c, c.id)
  <2>1. c.id \in Ids
    BY <1>1, <1>6 DEF CallType
  <2> QED BY <1>2, <1>3, <1>6, <2>1, ResultsOfCalls DEF DeleteForward, Drops
<1> QED BY <1>4, <1>5, <1>6 DEF Served

\* The forwards change when a call is served, and at no other step.
LEMMA SavedStays ==
  ASSUME [Next]_vars, \A c \in calls : ~Served(c)
  PROVE  UNCHANGED <<saved, minted, bound>>
<1>1. CASE \E c \in calls : Answered(c)
  BY <1>1 DEF Answered, server
<1>2. CASE ConfigReads \/ ConfigLands \/ \E p \in Locals : OtherProgram(p)
  BY <1>2 DEF ConfigReads, ConfigLands, OtherProgram, server
<1>3. CASE \E i \in Ids : RowStep(i)
  BY <1>3 DEF RowStep, UserSwitches, UserEdits, UserSavesPort, UserTakesFree, UserOpensDelete, Saves, Sends, Stays, server
<1>4. CASE DialogStep
  BY <1>4 DEF DialogStep, UserDeletes, UserKeeps, UserAdds, UserClosesAdd, UserOpensAdd, UserPicksTarget, UserTicks,
              UserTakesOther, UserTypes, ChangesDialog, Sends, Stays, server
<1>5. CASE UNCHANGED vars
  BY <1>5 DEF vars
<1> QED BY <1>1, <1>2, <1>3, <1>4, <1>5 DEF Next

LEMMA OneForwardStep == TypeInv /\ OneForwardEach /\ [Next]_vars => OneForwardEach'
<1> SUFFICES ASSUME TypeInv, OneForwardEach, [Next]_vars
             PROVE  OneForwardEach'
  OBVIOUS
<1>1. saved \in [Ids -> Forwards \cup {Gone}]
  BY DEF TypeInv, ServiceTypes
<1>2. ASSUME UNCHANGED saved PROVE OneForwardEach'
  BY <1>2 DEF OneForwardEach
<1>3. ASSUME NEW c \in calls, NEW i \in Ids, NEW g \in Forwards, Puts(c, i, g) PROVE OneForwardEach'
  <2>1. \A j \in Ids \ {i} : ~SameTarget(saved[j], g)
    <3>1. \A j \in Ids \ {c.id} : ~SameTarget(saved[j], g)
      BY <1>3 DEF Puts, Twin, SameTarget
    <3> QED BY <1>3, <3>1, IdsAreNumbers DEF Puts
  <2>2. saved' = [saved EXCEPT ![i] = g]
    BY <1>3 DEF Puts
  <2> QED BY <1>1, <2>1, <2>2 DEF OneForwardEach, SameTarget
<1>4. ASSUME NEW c \in calls, c.id \in Ids, NEW g \in Forwards, Turns(c, g) PROVE OneForwardEach'
  BY <1>1, <1>4 DEF OneForwardEach, SameTarget, Turns
<1>5. ASSUME NEW c \in calls, c.id \in Ids, Drops(c) PROVE OneForwardEach'
  <2>1. \A f \in Forwards : ~SameTarget(Gone, f) /\ ~SameTarget(f, Gone)
    BY SavedIsForward DEF SameTarget, Gone
  <2>2. saved' = [saved EXCEPT ![c.id] = Gone]
    BY <1>5 DEF Drops
  <2> QED BY <1>1, <1>5, <2>1, <2>2 DEF OneForwardEach
<1>6. ASSUME NEW c \in calls, Served(c) PROVE OneForwardEach'
  BY <1>2, <1>3, <1>4, <1>5, <1>6, ServedSaves DEF ServedAs
<1> QED BY <1>2, <1>6, SavedStays

(* No port of a target is forwarded twice, whatever dialogs, rows and late calls add it, and also when a call in *)
(* flight brings a deleted forward back (ForwardExistsError, forward.go).                                        *)
THEOREM ForwardsAreDistinct == Spec => []OneForwardEach
<1>1. Init => OneForwardEach
  <2> SUFFICES ASSUME Init PROVE OneForwardEach
    OBVIOUS
  <2>1. \A j \in Ids \ {1} : saved[j] = Gone
    BY DEF Init
  <2>2. saved[1].target # NoTarget
    BY IdsAreNumbers, PortsAssumption DEF Init
  <2> QED BY <2>1, <2>2 DEF OneForwardEach, SameTarget, Gone
<1> QED BY TypeInit, TypeStep, <1>1, OneForwardStep, PTL DEF Spec

--------------------------------------------------------------------------------
(* What is shown. *)

Owes(c) == (c.at = "served" /\ c.result = Fine) \/ (c.op = "add" /\ c.at # "settling")

LEMMA OwedStays ==
  ASSUME ReadIsOwed, \A c \in calls : Owes(c) => \E d \in calls' : Owes(d)
  PROVE  ReadIsOwed'
BY DEF ReadIsOwed, Owes

LEMMA OnIsBoundStep == TypeInv /\ OnIsBound /\ [Next]_vars => OnIsBound'
<1> SUFFICES ASSUME TypeInv, OnIsBound, [Next]_vars
             PROVE  OnIsBound'
  OBVIOUS
<1>1. saved \in [Ids -> Forwards \cup {Gone}] /\ bound \in [Ids -> {"no", "bound", "failed"}]
  BY DEF TypeInv, ServiceTypes
<1>2. ASSUME NEW i \in Ids, NEW g \in Forwards, saved' = [saved EXCEPT ![i] = g], ApplyForward(i, g)
      PROVE  OnIsBound'
  <2>1. g.on \in BOOLEAN
    BY DEF Forwards
  <2>2. bound'[i] # "no" <=> g.on
    BY <1>1, <1>2, <2>1 DEF ApplyForward
  <2>3. \A j \in Ids \ {i} : bound'[j] = bound[j] /\ saved'[j] = saved[j]
    BY <1>1, <1>2 DEF ApplyForward
  <2>4. g.on = (bound'[i] # "no")
    BY <2>1, <2>2
  <2> QED BY <1>1, <1>2, <2>3, <2>4 DEF OnIsBound
<1>3. ASSUME NEW c \in calls, Served(c) PROVE OnIsBound'
  <2>1. CASE UNCHANGED <<saved, bound>>
    BY <2>1 DEF OnIsBound
  <2>2. CASE c.id \in Ids /\ Drops(c)
    BY <1>1, <2>2 DEF OnIsBound, Drops, Gone
  <2> QED BY <1>2, <1>3, <2>1, <2>2, ServedSaves DEF ServedAs, Puts, Turns
<1>4. CASE \A c \in calls : ~Served(c)
  BY <1>4, SavedStays DEF OnIsBound
<1> QED BY <1>3, <1>4

LEMMA RowsStep == TypeInv /\ RowsFollow /\ [Next]_vars => RowsFollow'
<1> SUFFICES ASSUME TypeInv, RowsFollow, [Next]_vars
             PROVE  RowsFollow'
  OBVIOUS
<1>1. calls \subseteq CallType
  BY DEF TypeInv, CallTypes
<1>2. ASSUME UNCHANGED <<saved, rows, fetch, answer>>, \A c \in calls : Owes(c) => \E d \in calls' : Owes(d)
      PROVE  RowsFollow'
  BY <1>2, OwedStays DEF RowsFollow
<1>3. ASSUME Invalidates PROVE RowsFollow'
  BY <1>3 DEF Invalidates, RowsFollow
<1>4. ASSUME NEW c \in calls, calls' = calls \ {c}, ~Owes(c), UNCHANGED <<server, config>> PROVE RowsFollow'
  BY <1>2, <1>4 DEF server, config
<1>5. ASSUME NEW c \in calls, Served(c) PROVE RowsFollow'
  <2>1. PICK r \in Results :
          /\ calls' = (calls \ {c}) \cup {[c EXCEPT !.at = "served", !.result = r]}
          /\ UNCHANGED saved \/ r = Fine
    BY <1>5, ServedSaves DEF ServedAs
  <2> DEFINE d == [c EXCEPT !.at = "served", !.result = r]
  <2>2. d.at = "served" /\ d.result = r /\ d.op = c.op /\ d \in calls'
    BY <1>1, <2>1, ServedCall
  <2>3. UNCHANGED <<rows, fetch, answer>>
    BY <1>5 DEF Served, config
  <2>4. calls \ {c} \subseteq calls'
    BY <2>1
  <2>5. c.at = "sent"
    BY <1>5 DEF Served
  <2> HIDE DEF d
  <2>6. CASE r = Fine
    <3>1. ReadIsOwed'
      BY <2>2, <2>6 DEF ReadIsOwed
    <3> QED BY <3>1 DEF RowsFollow
  <2>7. CASE UNCHANGED saved
    <3>1. \A x \in calls : Owes(x) => \E y \in calls' : Owes(y)
      BY <2>2, <2>4, <2>5 DEF Owes
    <3> QED BY <1>2, <2>3, <2>7, <3>1
  <2> QED BY <2>1, <2>6, <2>7
<1>6. ASSUME NEW c \in calls, Answered(c) PROVE RowsFollow'
  <2>1. c.at = "served" /\ UNCHANGED server
    BY <1>6 DEF Answered
  <2>2. CASE Switched(c) \/ PortSaved(c) \/ Removed(c)
    <3>1. Invalidates \/ (c.op # "add" /\ c.result # Fine /\ calls' = calls \ {c} /\ UNCHANGED config)
      BY <2>2 DEF Switched, PortSaved, Removed
    <3> QED BY <1>3, <1>4, <2>1, <3>1 DEF Owes
  <2>3. CASE Added(c)
    <3>1. CASE Invalidates
      BY <1>3, <3>1
    <3>2. CASE Becomes(c, [c EXCEPT !.at = "sent", !.queue = Tail(@), !.result = Fine]) /\ UNCHANGED config
      <4> DEFINE d == [c EXCEPT !.at = "sent", !.queue = Tail(@), !.result = Fine]
      <4>1. d.op = "add" /\ d.at = "sent" /\ d \in calls'
        BY <1>1, <2>3, <3>2 DEF CallType, Becomes, Added
      <4> HIDE DEF d
      <4> QED BY <4>1 DEF RowsFollow, ReadIsOwed
    <3> QED BY <2>3, <3>1, <3>2 DEF Added, AddFailed, PortAdded
  <2> QED BY <1>6, <2>2, <2>3 DEF Answered
<1>7. CASE ConfigReads
  BY <1>7 DEF ConfigReads, RowsFollow, server
<1>8. CASE ConfigLands
  <2> DEFINE awaiting == {c \in calls : c.at = "settling"}
             lost == {c \in calls \ awaiting : c.op # "add" /\ c.id \in {i \in Ids : answer[i] = Gone}}
  <2>1. /\ rows' = answer /\ fetch = "read" /\ fetch' = "idle" /\ UNCHANGED server
        /\ calls' = ((calls \ awaiting) \ lost) \cup LetGo(lost)
    BY <1>8 DEF ConfigLands
  <2>2. \A c \in calls : Owes(c) => \E d \in calls' : Owes(d)
    <3>1. lost \in SUBSET CallType
      BY <1>1
    <3>2. ASSUME NEW c \in calls, Owes(c) PROVE \E d \in calls' : Owes(d)
      <4>1. c \notin awaiting
        BY <3>2 DEF Owes
      <4> HIDE DEF awaiting, lost
      <4>2. CASE c \in lost
        <5>1. PICK d \in LetGo(lost) : Same(c, d)
          BY <3>1, <4>2, LetGoCalls
        <5> QED BY <2>1, <3>2, <5>1 DEF Owes, Same
      <4>3. CASE c \notin lost
        BY <2>1, <3>2, <4>1, <4>3
      <4> QED BY <4>2, <4>3
    <3> QED BY <3>2
  <2>3. answer = saved \/ ReadIsOwed'
    BY <2>1, <2>2, OwedStays DEF RowsFollow
  <2> QED BY <2>1, <2>3 DEF RowsFollow, server
<1>9. ASSUME NEW p \in Locals, OtherProgram(p) PROVE RowsFollow'
  BY <1>9, <1>2 DEF OtherProgram, config
<1>10. ASSUME UNCHANGED <<server, config>>, calls \subseteq calls' PROVE RowsFollow'
  BY <1>2, <1>10 DEF server, config
<1>11. ASSUME NEW i \in Ids, RowStep(i) PROVE RowsFollow'
  BY <1>10, <1>11 DEF RowStep, UserSwitches, UserEdits, UserSavesPort, UserTakesFree, UserOpensDelete, Saves, Sends, Stays
<1>12. CASE UserClosesAdd
  <2> DEFINE adds == {c \in calls : c.op = "add"}
  <2>1. calls' = (calls \ adds) \cup LetGo(adds) /\ UNCHANGED <<server, config>>
    BY <1>12 DEF UserClosesAdd
  <2>2. adds \in SUBSET CallType
    BY <1>1
  <2> HIDE DEF adds
  <2>3. ASSUME NEW c \in calls, Owes(c) PROVE \E d \in calls' : Owes(d)
    <3>1. CASE c \in adds
      <4>1. PICK d \in LetGo(adds) : Same(c, d)
        BY <2>2, <3>1, LetGoCalls
      <4> QED BY <2>1, <2>3, <4>1 DEF Owes, Same
    <3>2. CASE c \notin adds
      BY <2>1, <2>3, <3>2
    <3> QED BY <3>1, <3>2
  <2> QED BY <1>2, <2>1, <2>3 DEF server, config
<1>13. CASE DialogStep /\ ~UserClosesAdd
  BY <1>10, <1>13 DEF DialogStep, UserDeletes, UserKeeps, UserAdds, UserOpensAdd, UserPicksTarget, UserTicks,
                      UserTakesOther, UserTypes, ChangesDialog, Sends, Stays
<1>14. CASE UNCHANGED vars
  BY <1>10, <1>14 DEF vars, server, config
<1> QED BY <1>5, <1>6, <1>7, <1>8, <1>9, <1>11, <1>12, <1>13, <1>14 DEF Next

(* Once no mutation runs and the config was read, the rows are what is saved, "on" where a port is held or failed to *)
(* be: after failures half way, and rows and dialogs that are gone before the answer (forwards.tsx).                *)
THEOREM RowsComeTrue == Spec => []RowsAreSaved
<1>1. Init => RowsFollow /\ OnIsBound
  <2> SUFFICES ASSUME Init PROVE RowsFollow /\ OnIsBound
    OBVIOUS
  <2>1. PICK t \in Targets, on \in BOOLEAN :
          /\ saved = [i \in Ids |-> IF i = 1 THEN [target |-> t, remote |-> Min(Remotes), local |-> 1, on |-> on]
                                   ELSE Gone]
          /\ bound = [i \in Ids |-> IF i = 1 /\ on THEN "bound" ELSE "no"]
    BY DEF Init
  <2>2. ASSUME NEW i \in Ids PROVE saved[i].on = (bound[i] # "no")
    <3>1. CASE i = 1 /\ on
      BY <2>1, <3>1
    <3>2. CASE ~(i = 1 /\ on)
      BY <2>1, <3>2 DEF Gone
    <3> QED BY <3>1, <3>2
  <2> QED BY <2>2 DEF Init, RowsFollow, OnIsBound
<1>2. RowsFollow /\ OnIsBound => RowsAreSaved
  <2> SUFFICES ASSUME RowsFollow, OnIsBound, calls = {}, fetch = "idle"
               PROVE  rows = saved /\ \A i \in Ids : rows[i].on = (bound[i] # "no")
    BY DEF RowsAreSaved
  <2>1. rows = saved
    BY DEF RowsFollow, ReadIsOwed
  <2> QED BY <2>1 DEF OnIsBound
<1> QED BY TypeInit, TypeStep, <1>1, RowsStep, OnIsBoundStep, <1>2, PTL DEF Spec

--------------------------------------------------------------------------------
(* What a retry sends. *)

\* A step of the service or the window at which the dialog keeps its calls, its ports and what the rows show.
LEMMA RetryFrame ==
  ASSUME TypeInv, RetryInv,
         UNCHANGED <<saved, minted, rows, answer, fetch, deleting>>,
         UNCHANGED <<dialog.added, dialog.open>>, UNCHANGED Sending,
         \A d \in calls' : \E c \in calls : d.id = c.id
  PROVE  RetryInv'
<1>1. \A f : Safe(f) => Safe(f)'
  BY DEF Safe
<1>2. \A c \in calls' : c.id <= minted'
  BY DEF RetryInv, Known
<1>3. \A f : Within(rows, f)' = Within(rows, f) /\ Within(answer, f)' = Within(answer, f)
  BY DEF Within
<1> USE DEF RetryInv
<1>4. Known'
  BY <1>2 DEF Known
<1>5. DialogInv'
  BY DEF DialogInv
<1>6. AddedIsSafe'
  BY <1>1 DEF AddedIsSafe
<1>7. AddedIsRead'
  BY <1>3 DEF AddedIsRead
<1> QED BY <1>4, <1>5, <1>6, <1>7

LEMMA RetryInit == Init => RetryInv
<1> SUFFICES ASSUME Init
             PROVE  RetryInv
  OBVIOUS
<1>1. dialog.added = {} /\ ~dialog.open /\ Sending = {} /\ calls = {}
  BY DEF Init, Shut, Sending
<1>2. \A i \in Ids : saved[i] # Gone \/ rows[i] # Gone \/ answer[i] # Gone => i <= minted
  BY IdsAreNumbers DEF Init
<1> QED BY <1>1, <1>2 DEF RetryInv, Known, DialogInv, AddedIsSafe, AddedIsRead

\* Serving a call takes no forward of the dialog's away, and one it adds gets an id that no call has.
LEMMA RetryServed ==
  ASSUME TypeInv, RetryInv, NEW c \in calls, Served(c)
  PROVE  RetryInv'
<1>1. PICK r \in Results :
        /\ calls' = (calls \ {c}) \cup {[c EXCEPT !.at = "served", !.result = r]}
        /\ \/ UNCHANGED <<saved, minted, bound>> /\ r # Fine
           \/ r = Fine /\ \E i \in Ids, g \in Forwards : Puts(c, i, g)
           \/ r = Fine /\ c.id \in Ids /\ \E g \in Forwards : Turns(c, g)
           \/ r = Fine /\ c.id \in Ids /\ Drops(c)
  BY ServedSaves DEF ServedAs
<1> DEFINE d == [c EXCEPT !.at = "served", !.result = r]
<1>2. c \in CallType /\ calls \subseteq CallType /\ (c.id = 0 <=> c.op = "add") /\ saved \in [Ids -> Forwards \cup {Gone}]
      /\ minted \in Nat
  BY IdsAreNumbers DEF TypeInv, CallTypes, ServiceTypes
<1>3. /\ d.at = "served" /\ d.result = r /\ d.op = c.op /\ d.id = c.id /\ d.queue = c.queue /\ d.seen = c.seen
      /\ calls' = (calls \ {c}) \cup {d}
  BY <1>1, <1>2, ServedCall
<1>4. c.at = "sent" /\ UNCHANGED <<rows, answer, fetch, deleting, dialog>>
  BY DEF Served, config, screen
<1> HIDE DEF d
<1>5. \A x \in calls' : \E y \in calls : x.id = y.id
  BY <1>3
<1>6. Known /\ DialogInv /\ AddedIsSafe /\ AddedIsRead
  BY DEF RetryInv
<1>7. \/ UNCHANGED <<saved, minted>>
      \/ \E i \in Ids, g \in Forwards : Puts(c, i, g)
      \/ c.id \in Ids /\ \E g \in Forwards : Turns(c, g)
      \/ c.id \in Ids /\ Drops(c)
  BY <1>1
<1>15. \A x \in calls : x.id \in Nat /\ x.id <= minted
  BY <1>2, <1>6, IdsAreNumbers DEF Known, CallType
<1>8. Known'
  <2>1. minted' \in Nat /\ minted <= minted'
    BY <1>2, <1>7 DEF Puts, Turns, Drops
  <2>2. \A x \in calls' : x.id \in Nat /\ x.id <= minted'
    BY <1>2, <1>5, <1>15, <2>1
  <2>3. ASSUME NEW j \in Ids, saved'[j] # Gone PROVE j <= minted'
    <3>1. CASE saved[j] # Gone
      BY <1>2, <1>6, <2>1, <3>1, IdsAreNumbers DEF Known
    <3>2. CASE saved[j] = Gone
      <4>1. CASE UNCHANGED saved
        BY <2>3, <3>2, <4>1
      <4>2. ASSUME NEW i \in Ids, NEW g \in Forwards, Puts(c, i, g) PROVE j <= minted'
        <5>1. j = i
          BY <1>2, <2>3, <3>2, <4>2 DEF Puts
        <5>2. i = minted' \/ i = c.id
          BY <4>2 DEF Puts
        <5>3. c.id <= minted
          BY <1>6 DEF Known
        <5> QED BY <1>2, <2>1, <5>1, <5>2, <5>3, IdsAreNumbers
      <4>3. ASSUME NEW g \in Forwards, Turns(c, g) PROVE FALSE
        BY <1>2, <2>3, <3>2, <4>3 DEF Turns
      <4>4. ASSUME Drops(c) PROVE FALSE
        BY <1>2, <2>3, <3>2, <4>4 DEF Drops
      <4> QED BY <1>7, <4>1, <4>2, <4>3, <4>4
    <3> QED BY <3>1, <3>2
  <2>4. ASSUME NEW j \in Ids, rows[j] # Gone \/ answer[j] # Gone PROVE j <= minted'
    BY <1>2, <1>6, <2>1, <2>4, IdsAreNumbers DEF Known
  <2> QED BY <1>4, <2>2, <2>3, <2>4 DEF Known
<1>9. ASSUME NEW f, Safe(f), f.target # NoTarget PROVE Safe(f)'
  <2>1. PICK i \in Ids : SameTarget(saved[i], f) /\ \A x \in calls : x.id # i
    BY <1>9 DEF Safe
  <2>2. i # c.id
    BY <2>1
  <2>3. saved[i] # Gone
    BY <1>9, <2>1 DEF SameTarget, Gone
  <2>4. i <= minted /\ i \in Nat
    BY <1>6, <2>3, IdsAreNumbers DEF Known
  <2>5. saved'[i] = saved[i]
    BY <1>2, <1>7, <2>2, <2>4 DEF Puts, Turns, Drops
  <2> QED BY <1>5, <2>1, <2>5 DEF Safe
<1>10. ASSUME c \in Sending, r = Fine PROVE Safe(Head(c.queue))'
  <2>1. c.op = "add" /\ c.id = 0
    BY <1>2, <1>10 DEF Sending
  <2>2. PICK i \in Ids, g \in Forwards : Puts(c, i, g)
    BY <1>1, <1>10, <2>1, IdsAreNumbers
  <2>3. i = minted + 1 /\ saved'[i] = g /\ SameTarget(g, Head(c.queue))
    BY <1>2, <2>1, <2>2 DEF Puts
  <2>4. \A x \in calls : x.id # i
    BY <1>2, <1>15, <2>3
  <2> QED BY <1>5, <2>3, <2>4 DEF Safe
<1>11. Sending' = IF c \in Sending THEN (Sending \ {c}) \cup {d} ELSE Sending
  BY <1>3 DEF Sending
<1>12. AddedIsSafe'
  <2>1. \A f \in Sent : f.target # NoTarget
    BY SavedIsForward
  <2>2. \A f \in dialog.added : Safe(f)'
    <3>1. dialog.added \subseteq Sent
      BY DEF TypeInv, ScreenTypes, DialogType
    <3> QED BY <1>6, <1>9, <2>1, <3>1 DEF AddedIsSafe
  <2>3. ASSUME NEW x \in Sending', x.at = "served", x.result = Fine PROVE Safe(Head(x.queue))'
    <3>1. CASE x = d /\ c \in Sending
      BY <1>3, <1>10, <2>3, <3>1
    <3>2. CASE x \in Sending
      <4>1. Head(x.queue) \in Sent
        BY <1>2, <3>2, HeadIsSent DEF Sending, CallType
      <4> QED BY <1>6, <1>9, <2>1, <2>3, <3>2, <4>1 DEF AddedIsSafe
    <3> QED BY <1>11, <3>1, <3>2
  <2> QED BY <1>4, <2>2, <2>3 DEF AddedIsSafe
<1>13. AddedIsRead'
  <2>1. \A f : Within(rows, f)' = Within(rows, f) /\ Within(answer, f)' = Within(answer, f)
    BY <1>4 DEF Within
  <2>2. CASE c \in Sending
    <3>1. d \in Sending' /\ d.at # "settling"
      BY <1>3, <1>11, <2>2
    <3> QED BY <1>3, <1>4, <1>6, <1>11, <2>2, <3>1 DEF AddedIsRead
  <2>3. CASE c \notin Sending
    BY <1>4, <1>6, <1>11, <2>1, <2>3 DEF AddedIsRead
  <2> QED BY <2>2, <2>3
<1>14. DialogInv'
  BY <1>4, <1>6, <1>11 DEF DialogInv
<1> QED BY <1>8, <1>12, <1>13, <1>14 DEF RetryInv

\* The calls whose dialog or row is gone are nobody's: what is let go of is not sent by the dialog.
LEMMA SendingLetGo ==
  ASSUME NEW S \in SUBSET CallType, NEW C, C \subseteq calls, calls' = C \cup LetGo(S)
  PROVE  Sending' = {x \in C : x.op = "add" /\ x.seen}
BY LetGoCalls DEF Sending

LEMMA RetryAnswered ==
  ASSUME TypeInv, RetryInv, NEW c \in calls, Answered(c)
  PROVE  RetryInv'
<1>1. c \in CallType /\ calls \subseteq CallType /\ c.at = "served" /\ UNCHANGED <<saved, minted>>
  BY DEF TypeInv, CallTypes, Answered, server
<1>2. Known /\ DialogInv /\ AddedIsSafe /\ AddedIsRead
  BY DEF RetryInv
<1>3. ASSUME \A x \in calls' : \E y \in calls : x.id = y.id
      PROVE  \A f : Safe(f) => Safe(f)'
  BY <1>1, <1>3 DEF Safe
<1>4. ASSUME UNCHANGED Sending, \A x \in calls' : \E y \in calls : x.id = y.id, Invalidates, UNCHANGED <<deleting, dialog>>
      PROVE  RetryInv'
  <2>1. fetch' = "asked" /\ UNCHANGED rows /\ \A i \in Ids : answer'[i] = Gone
    BY <1>4 DEF Invalidates
  <2>2. \A f : Within(rows, f)' = Within(rows, f)
    BY <2>1 DEF Within
  <2>3. Known'
    BY <1>1, <1>2, <1>4, <2>1 DEF Known
  <2>4. AddedIsSafe'
    BY <1>2, <1>3, <1>4 DEF AddedIsSafe
  <2>5. AddedIsRead'
    BY <1>2, <1>4, <2>1, <2>2 DEF AddedIsRead
  <2> QED BY <1>2, <1>4, <2>3, <2>4, <2>5 DEF DialogInv, RetryInv
<1>5. ASSUME UNCHANGED Sending, \A x \in calls' : \E y \in calls : x.id = y.id, UNCHANGED <<config, deleting, dialog>>
      PROVE  RetryInv'
  BY <1>1, <1>5, RetryFrame DEF config
<1>6. ASSUME c.op # "add", calls' = calls \ {c} \/ Becomes(c, Settling(c))
      PROVE  UNCHANGED Sending /\ \A x \in calls' : \E y \in calls : x.id = y.id
  <2>1. CASE calls' = calls \ {c}
    BY <1>6, <2>1 DEF Sending
  <2>2. CASE Becomes(c, Settling(c))
    BY <1>1, <1>6, <2>2, SettlingCall DEF Sending, Becomes
  <2> QED BY <1>6, <2>1, <2>2
<1>7. CASE Switched(c)
  BY <1>4, <1>5, <1>6, <1>7 DEF Switched
<1>8. CASE PortSaved(c)
  <2> DEFINE switches == {x \in calls : x.op = "enable" /\ x.id = c.id /\ c.seen}
  <2>1. CASE c.result = Fine
    <3>1. Invalidates /\ calls' = ((calls \ {c}) \ switches) \cup LetGo(switches) /\ UNCHANGED <<deleting, dialog>>
      BY <1>8, <2>1 DEF PortSaved
    <3>2. switches \in SUBSET CallType /\ switches \subseteq calls /\ \A x \in switches : x.op # "add"
      BY <1>1
    <3> HIDE DEF switches
    <3>3. Sending' = {x \in (calls \ {c}) \ switches : x.op = "add" /\ x.seen}
      BY <3>1, <3>2, SendingLetGo
    <3>4. UNCHANGED Sending
      BY <1>8, <3>2, <3>3 DEF Sending, PortSaved
    <3>5. \A x \in calls' : \E y \in calls : x.id = y.id
      BY <3>1, <3>2, LetGoCalls DEF Same
    <3> QED BY <1>4, <3>1, <3>4, <3>5
  <2>2. CASE c.result # Fine
    BY <1>5, <1>6, <1>8, <2>2 DEF PortSaved
  <2> QED BY <2>1, <2>2
<1>9. CASE Removed(c)
  BY <1>4, <1>5, <1>6, <1>9 DEF Removed, screen
<1>10. CASE Added(c) /\ AddFailed(c)
  <2> DEFINE d == Settling(c)
  <2>1. d.at = "settling" /\ d.op = c.op /\ d.id = c.id /\ d.seen = c.seen /\ calls' = (calls \ {c}) \cup {d}
    BY <1>1, <1>10, SettlingCall DEF AddFailed, Becomes
  <2>2. Invalidates /\ UNCHANGED <<deleting, dialog>> /\ c.op = "add"
    BY <1>10 DEF Added, AddFailed
  <2> HIDE DEF d
  <2>3. \A x \in calls' : \E y \in calls : x.id = y.id
    BY <2>1
  <2>4. CASE c.seen
    <3>1. Sending' = (Sending \ {c}) \cup {d}
      BY <2>1, <2>2, <2>4 DEF Sending
    <3>2. fetch' = "asked" /\ UNCHANGED rows /\ \A i \in Ids : answer'[i] = Gone
      BY <2>2 DEF Invalidates
    <3>3. Known'
      BY <1>1, <1>2, <2>3, <3>2 DEF Known
    <3>4. DialogInv'
      BY <1>2, <2>2, <2>4, <3>1 DEF DialogInv, Sending
    <3>5. AddedIsSafe'
      BY <1>2, <1>3, <2>1, <2>2, <2>3, <3>1 DEF AddedIsSafe
    <3>6. AddedIsRead'
      BY <3>1, <3>2 DEF AddedIsRead
    <3> QED BY <3>3, <3>4, <3>5, <3>6 DEF RetryInv
  <2>5. CASE ~c.seen
    <3>1. UNCHANGED Sending
      BY <2>1, <2>5 DEF Sending
    <3> QED BY <1>4, <2>2, <2>3, <3>1
  <2> QED BY <2>4, <2>5, <1>1 DEF CallType
<1>11. CASE Added(c) /\ c.result = Fine /\ PortAdded(c)
  <2> DEFINE e == [Head(c.queue) EXCEPT !.local = 0]
             added == IF c.seen THEN dialog.added \cup {e} ELSE dialog.added
             d == [c EXCEPT !.at = "sent", !.queue = Tail(@), !.result = Fine]
             later == {x \in calls \ {c} : x.op = "add"}
  <2>1. c.op = "add" /\ c.result = Fine /\ UNCHANGED deleting /\ c.seen \in BOOLEAN
    BY <1>1, <1>11 DEF Added, CallType
  <2>2. Head(c.queue) \in Sent
    BY <1>1, HeadIsSent DEF CallType
  <2>3. CASE Becomes(c, d) /\ dialog' = [dialog EXCEPT !.added = added] /\ UNCHANGED config
    <3>1. /\ d.at = "sent" /\ d.op = c.op /\ d.id = c.id /\ d.seen = c.seen /\ calls' = (calls \ {c}) \cup {d}
          /\ UNCHANGED <<rows, fetch, answer>>
      BY <1>1, <2>3 DEF CallType, Becomes, config
    <3>2. e.target = Head(c.queue).target /\ e.remote = Head(c.queue).remote
      BY <2>2 DEF Sent
    <3> HIDE DEF d, e
    <3>3. dialog'.added = added /\ dialog'.open = dialog.open
      BY <2>3 DEF TypeInv, ScreenTypes, DialogType
    <3>4. \A x \in calls' : \E y \in calls : x.id = y.id
      BY <3>1
    <3>5. CASE ~c.seen
      <4>1. UNCHANGED Sending
        BY <3>1, <3>5 DEF Sending
      <4> QED BY <1>1, <2>1, <3>1, <3>3, <3>4, <3>5, <4>1, RetryFrame
    <3>6. CASE c.seen
      <4>1. Sending' = (Sending \ {c}) \cup {d} /\ c \in Sending
        BY <2>1, <3>1, <3>6 DEF Sending
      <4>2. Known'
        BY <1>1, <1>2, <3>1, <3>4 DEF Known
      <4>3. DialogInv'
        BY <1>2, <2>1, <3>3, <4>1 DEF DialogInv
      <4>4. Safe(e)
        <5>1. Safe(Head(c.queue))
          BY <1>1, <1>2, <2>1, <4>1 DEF AddedIsSafe
        <5> QED BY <3>2, <5>1 DEF Safe, SameTarget
      <4>5. \A f \in added : Safe(f)'
        BY <1>2, <1>3, <3>4, <3>6, <4>4 DEF AddedIsSafe
      <4>6. AddedIsSafe'
        <5>1. \A x \in Sending' : x.at = "served" => x \in Sending
          BY <3>1, <4>1
        <5> QED BY <1>2, <1>3, <3>3, <3>4, <4>5, <5>1 DEF AddedIsSafe
      <4>7. AddedIsRead'
        BY <1>2, <3>1, <4>1 DEF AddedIsRead
      <4> QED BY <4>2, <4>3, <4>6, <4>7 DEF RetryInv
    <3> QED BY <2>1, <3>5, <3>6
  <2>4. CASE Invalidates /\ calls' = ((calls \ {c}) \ later) \cup LetGo(later) /\ dialog' = Shut
    <3>1. later \in SUBSET CallType /\ later \subseteq calls
      BY <1>1
    <3>2. Sending' = {x \in (calls \ {c}) \ later : x.op = "add" /\ x.seen}
      <4> HIDE DEF later
      <4> QED BY <2>4, <3>1, SendingLetGo
    <3>3. Sending' = {}
      BY <3>2
    <3>4. \A x \in calls' : \E y \in calls : x.id = y.id
      <4> HIDE DEF later
      <4> QED BY <2>4, <3>1, LetGoCalls DEF Same
    <3>5. dialog'.added = {} /\ ~dialog'.open
      BY <2>4 DEF Shut
    <3>6. fetch' = "asked" /\ UNCHANGED rows /\ \A i \in Ids : answer'[i] = Gone
      BY <2>4 DEF Invalidates
    <3>7. Known'
      BY <1>1, <1>2, <3>4, <3>6 DEF Known
    <3> QED BY <3>3, <3>5, <3>6, <3>7 DEF RetryInv, DialogInv, AddedIsSafe, AddedIsRead
  <2> QED BY <1>11, <2>3, <2>4 DEF PortAdded
<1> QED BY <1>7, <1>8, <1>9, <1>10, <1>11 DEF Answered, Added

LEMMA RetryLands ==
  ASSUME TypeInv, RetryInv, ConfigLands
  PROVE  RetryInv'
<1> DEFINE left == {i \in Ids : answer[i] = Gone}
           awaiting == {c \in calls : c.at = "settling"}
           lost == {c \in calls \ awaiting : c.op # "add" /\ c.id \in left}
           stay == (calls \ awaiting) \ lost
<1>1. /\ rows' = answer /\ fetch = "read" /\ fetch' = "idle" /\ answer' = [i \in Ids |-> Gone]
      /\ calls' = stay \cup LetGo(lost)
      /\ deleting' = IF deleting \in left THEN 0 ELSE deleting
      /\ UNCHANGED <<saved, minted>>
  BY DEF ConfigLands, server
<1>2. dialog'.added = dialog.added /\ dialog'.open = dialog.open
  <2>1. \/ \E c \in calls : dialog' = [dialog EXCEPT !.error = c.result]
        \/ UNCHANGED dialog
    BY DEF ConfigLands
  <2> QED BY <2>1 DEF TypeInv, ScreenTypes, DialogType
<1>3. lost \in SUBSET CallType /\ stay \subseteq calls
  BY DEF TypeInv, CallTypes
<1>4. Sending' = {x \in stay : x.op = "add" /\ x.seen}
  <2> HIDE DEF stay, lost
  <2> QED BY <1>1, <1>3, SendingLetGo
<1>5. Sending' = {x \in Sending : x.at # "settling"}
  BY <1>4 DEF Sending
<1>6. \A x \in calls' : \E y \in calls : x.id = y.id
  <2>1. lost \subseteq calls
    OBVIOUS
  <2> HIDE DEF stay, lost
  <2> QED BY <1>1, <1>3, <2>1, LetGoCalls DEF Same
<1> HIDE DEF left, awaiting, lost, stay
<1>7. Known /\ DialogInv /\ AddedIsSafe /\ AddedIsRead
  BY DEF RetryInv
<1>8. Known'
  BY <1>1, <1>6, <1>7 DEF Known
<1>9. DialogInv'
  BY <1>1, <1>2, <1>5, <1>7 DEF DialogInv
<1>10. \A f : Safe(f) => Safe(f)'
  BY <1>1, <1>6 DEF Safe
<1>11. AddedIsSafe'
  BY <1>2, <1>5, <1>7, <1>10 DEF AddedIsSafe
<1>12. AddedIsRead'
  <2>1. ASSUME Sending' = {} PROVE \A f \in dialog.added : Within(rows', f)
    <3>1. \A c \in Sending : c.at = "settling"
      BY <1>5, <2>1
    <3> QED BY <1>1, <1>7, <3>1 DEF AddedIsRead
  <2>2. \A c \in Sending' : c.at # "settling"
    BY <1>5
  <2> QED BY <1>1, <1>2, <2>1, <2>2 DEF AddedIsRead, Within
<1> QED BY <1>8, <1>9, <1>11, <1>12 DEF RetryInv

LEMMA RetryReads ==
  ASSUME TypeInv, RetryInv, ConfigReads
  PROVE  RetryInv'
<1>1. fetch' = "read" /\ answer' = saved /\ UNCHANGED <<saved, minted, rows, calls, deleting, dialog>>
  BY DEF ConfigReads, server, screen
<1>2. Known /\ DialogInv /\ AddedIsSafe /\ AddedIsRead
  BY DEF RetryInv
<1>3. \A f : Safe(f) => Within(answer', f) /\ Safe(f)'
  BY <1>1 DEF Safe, Within
<1>4. UNCHANGED Sending
  BY <1>1 DEF Sending
<1>5. Known'
  BY <1>1, <1>2 DEF Known
<1>6. AddedIsSafe'
  BY <1>1, <1>2, <1>3, <1>4 DEF AddedIsSafe
<1>7. AddedIsRead'
  BY <1>1, <1>2, <1>3, <1>4 DEF AddedIsRead, AddedIsSafe, Within
<1> QED BY <1>1, <1>2, <1>4, <1>5, <1>6, <1>7 DEF RetryInv, DialogInv

\* While no dialog is open nothing is added and nothing sent, so that the rows are free to act on.
LEMMA RetryClosed ==
  ASSUME TypeInv, RetryInv, ~dialog.open \/ ~dialog'.open, UNCHANGED <<saved, minted, rows, answer, fetch>>,
         dialog'.added = {}, Sending' = {}, dialog'.open => deleting' = 0,
         \A d \in calls' : d.id <= minted
  PROVE  RetryInv'
BY DEF RetryInv, Known, DialogInv, AddedIsSafe, AddedIsRead

LEMMA RetryRows ==
  ASSUME TypeInv, RetryInv, NEW i \in Ids, RowStep(i)
  PROVE  RetryInv'
<1>1. Known /\ DialogInv
  BY DEF RetryInv
<1>2. UNCHANGED <<saved, minted, rows, answer, fetch, dialog>> /\ RowsFree
  BY DEF RowStep, UserSwitches, UserEdits, UserSavesPort, UserTakesFree, UserOpensDelete, Saves, Sends, Stays, server, config
<1>3. dialog.added = {} /\ Sending = {} /\ ~dialog.open
  BY <1>1, <1>2 DEF DialogInv, RowsFree
<1>4. ASSUME NEW op \in {"enable", "save"}, NEW q, Sends(Call(op, i, q)), rows[i] # Gone PROVE RetryInv'
  <2>1. Sending' = {}
    BY <1>3, <1>4 DEF Sending, Sends, Call
  <2>2. \A d \in calls' : d.id <= minted
    BY <1>1, <1>4 DEF Known, Sends, Call
  <2> QED BY <1>2, <1>3, <2>1, <2>2, RetryClosed
<1>5. CASE UNCHANGED calls
  <2>1. Sending' = {}
    BY <1>3, <1>5 DEF Sending
  <2>2. \A d \in calls' : d.id <= minted
    BY <1>1, <1>5 DEF Known
  <2> QED BY <1>2, <1>3, <2>1, <2>2, RetryClosed
<1>6. CASE UserSwitches(i)
  BY <1>4, <1>6 DEF UserSwitches
<1>7. ASSUME NEW f, Saves(i, f) PROVE RetryInv'
  BY <1>4, <1>7 DEF Saves
<1> QED BY <1>5, <1>6, <1>7 DEF RowStep, UserEdits, UserSavesPort, UserTakesFree, UserOpensDelete, Stays

LEMMA RetryDialog ==
  ASSUME TypeInv, RetryInv, DialogStep
  PROVE  RetryInv'
<1>1. Known /\ DialogInv /\ AddedIsSafe /\ AddedIsRead /\ dialog \in DialogType
  BY DEF RetryInv, TypeInv, ScreenTypes
<1>2. ASSUME NEW d, ChangesDialog(d), d.added = dialog.added, d.open = dialog.open PROVE RetryInv'
  <2>1. UNCHANGED <<saved, minted, rows, answer, fetch, calls, deleting>> /\ dialog' = d
    BY <1>2 DEF ChangesDialog, server, config
  <2>2. UNCHANGED Sending
    BY <2>1 DEF Sending
  <2> QED BY <1>2, <2>1, <2>2, RetryFrame
<1>3. CASE UserDeletes
  <2>1. UNCHANGED <<saved, minted, rows, answer, fetch, deleting, dialog>> /\ deleting # 0
    BY <1>3 DEF UserDeletes, Sends, server, config, screen
  <2>2. dialog.added = {} /\ ~dialog.open /\ Sending = {}
    BY <1>1, <2>1 DEF DialogInv
  <2>3. Sending' = {}
    BY <1>3, <2>2 DEF UserDeletes, Sends, Call, Sending
  <2>4. deleting <= minted
    BY <1>1, <2>1 DEF Known, TypeInv, ScreenTypes
  <2>5. \A d \in calls' : d.id <= minted
    BY <1>1, <1>3, <2>4 DEF UserDeletes, Sends, Call, Known
  <2> QED BY <2>1, <2>2, <2>3, <2>5, RetryClosed
<1>4. CASE UserKeeps
  <2>1. UNCHANGED <<saved, minted, rows, answer, fetch, calls, dialog>> /\ deleting # 0
    BY <1>4 DEF UserKeeps, Stays, server, config
  <2>2. dialog.added = {} /\ ~dialog.open /\ Sending = {}
    BY <1>1, <2>1 DEF DialogInv
  <2>3. Sending' = {} /\ \A d \in calls' : d.id <= minted
    BY <1>1, <2>1, <2>2 DEF Sending, Known
  <2> QED BY <2>1, <2>2, <2>3, RetryClosed
<1>5. CASE UserAdds
  <2>1. PICK q : Sends(Call("add", 0, q))
    BY <1>5 DEF UserAdds
  <2> DEFINE c == Call("add", 0, q)
  <2>2. c.op = "add" /\ c.id = 0 /\ c.at = "sent" /\ c.seen
    BY DEF Call
  <2>3. /\ calls' = calls \cup {c} /\ UNCHANGED <<saved, minted, rows, answer, fetch, deleting>> /\ dialog.open
        /\ dialog' = [dialog EXCEPT !.error = Fine]
    BY <1>5, <2>1 DEF UserAdds, Sends, server, config
  <2>4. dialog'.added = dialog.added /\ dialog'.open = dialog.open
    BY <1>1, <2>3 DEF DialogType
  <2> HIDE DEF c
  <2>5. Sending' = Sending \cup {c} /\ 0 <= minted /\ 0 \notin Ids
    BY <2>2, <2>3, IdsAreNumbers DEF Sending, TypeInv, ServiceTypes
  <2>6. \A f : Safe(f) => Safe(f)'
    BY <2>2, <2>3, <2>5 DEF Safe
  <2>7. Known'
    BY <1>1, <2>2, <2>3, <2>5 DEF Known
  <2>8. DialogInv'
    BY <1>1, <2>3, <2>4 DEF DialogInv
  <2>9. AddedIsSafe'
    BY <1>1, <2>2, <2>4, <2>5, <2>6 DEF AddedIsSafe
  <2>10. AddedIsRead'
    BY <1>1, <2>2, <2>3, <2>5 DEF AddedIsRead
  <2> QED BY <2>7, <2>8, <2>9, <2>10 DEF RetryInv
<1>6. CASE UserClosesAdd
  <2> DEFINE adds == {c \in calls : c.op = "add"}
  <2>1. /\ calls' = (calls \ adds) \cup LetGo(adds) /\ dialog' = Shut
        /\ UNCHANGED <<saved, minted, rows, answer, fetch, deleting>>
    BY <1>6 DEF UserClosesAdd, server, config
  <2>2. adds \in SUBSET CallType /\ adds \subseteq calls
    BY DEF TypeInv, CallTypes
  <2>3. Sending' = {x \in calls \ adds : x.op = "add" /\ x.seen}
    <3> HIDE DEF adds
    <3> QED BY <2>1, <2>2, SendingLetGo
  <2>4. Sending' = {}
    BY <2>3
  <2>5. \A d \in calls' : d.id <= minted
    <3> HIDE DEF adds
    <3> QED BY <1>1, <2>1, <2>2, LetGoCalls DEF Known, Same
  <2>6. dialog'.added = {} /\ ~dialog'.open
    BY <2>1 DEF Shut
  <2> QED BY <2>1, <2>4, <2>5, <2>6, RetryClosed
<1>7. ASSUME NEW t, UserOpensAdd(t) PROVE RetryInv'
  <2>1. UNCHANGED <<saved, minted, rows, answer, fetch, calls, deleting>> /\ RowsFree /\ dialog'.added = {}
    BY <1>7 DEF UserOpensAdd, Stays, server, config, Shut
  <2>2. Sending' = {} /\ ~dialog.open /\ deleting' = 0
    BY <1>1, <2>1 DEF Sending, DialogInv, RowsFree
  <2>3. \A d \in calls' : d.id <= minted
    BY <1>1, <2>1 DEF Known
  <2> QED BY <2>1, <2>2, <2>3, RetryClosed
<1>8. ASSUME NEW t, UserPicksTarget(t) PROVE RetryInv'
  BY <1>1, <1>2, <1>8 DEF UserPicksTarget, DialogType
<1>9. ASSUME NEW r, UserTicks(r) PROVE RetryInv'
  BY <1>1, <1>2, <1>9 DEF UserTicks, DialogType
<1>10. ASSUME NEW r, NEW p, UserTypes(r, p) PROVE RetryInv'
  BY <1>1, <1>2, <1>10 DEF UserTypes, DialogType
<1>11. ASSUME NEW r, UserTakesOther(r) PROVE RetryInv'
  BY <1>1, <1>2, <1>11 DEF UserTakesOther, DialogType
<1> QED BY <1>3, <1>4, <1>5, <1>6, <1>7, <1>8, <1>9, <1>10, <1>11 DEF DialogStep

LEMMA RetryStep == TypeInv /\ RetryInv /\ [Next]_vars => RetryInv'
<1> SUFFICES ASSUME TypeInv, RetryInv, [Next]_vars
             PROVE  RetryInv'
  OBVIOUS
<1>1. CASE UNCHANGED <<saved, minted, rows, answer, fetch, calls, deleting, dialog>>
  <2>1. UNCHANGED Sending
    BY <1>1 DEF Sending
  <2> QED BY <1>1, <2>1, RetryFrame
<1>2. ASSUME NEW p \in Locals, OtherProgram(p) PROVE RetryInv'
  BY <1>1, <1>2 DEF OtherProgram, config, screen
<1>3. CASE UNCHANGED vars
  BY <1>1, <1>3 DEF vars
<1> QED BY <1>2, <1>3, RetryServed, RetryAnswered, RetryReads, RetryLands, RetryRows, RetryDialog DEF Next

\* Nothing but the user's Add makes a dialog that sends nothing send.
LEMMA OnlyAddSends ==
  ASSUME TypeInv, [Next]_vars, ~UserAdds, Sending = {}
  PROVE  Sending' = {}
<1>1. calls \subseteq CallType
  BY DEF TypeInv, CallTypes
<1>2. ASSUME \A d \in calls' : d.op = "add" /\ d.seen => \E c \in calls : c.op = "add" /\ c.seen
      PROVE  Sending' = {}
  BY <1>2 DEF Sending
<1>3. CASE calls' \subseteq calls
  BY <1>2, <1>3 
<1>4. ASSUME NEW c \in calls, NEW d, d.op = c.op, d.seen = c.seen, Becomes(c, d) PROVE Sending' = {}
  BY <1>2, <1>4 DEF Becomes
<1>5. ASSUME NEW C, C \subseteq calls, NEW S \in SUBSET CallType, calls' = C \cup LetGo(S) PROVE Sending' = {}
  BY <1>5, SendingLetGo DEF Sending
<1>6. ASSUME NEW op, op # "add", NEW i, NEW q, Sends(Call(op, i, q)) PROVE Sending' = {}
  BY <1>2, <1>6 DEF Sends, Call
<1>7. ASSUME NEW c \in calls, Served(c) PROVE Sending' = {}
  <2>1. PICK r \in Results : calls' = (calls \ {c}) \cup {[c EXCEPT !.at = "served", !.result = r]}
    BY <1>7, ServedSaves DEF ServedAs
  <2> QED BY <1>1, <1>4, <2>1, ServedCall DEF Becomes
<1>8. ASSUME NEW c \in calls, Answered(c) PROVE Sending' = {}
  <2> DEFINE switches == {x \in calls : x.op = "enable" /\ x.id = c.id /\ c.seen}
             later == {x \in calls \ {c} : x.op = "add"}
             d == [c EXCEPT !.at = "sent", !.queue = Tail(@), !.result = Fine]
  <2>1. CASE calls' = calls \ {c}
    BY <1>3, <2>1
  <2>2. CASE Becomes(c, Settling(c))
    BY <1>1, <1>4, <2>2, SettlingCall
  <2>3. CASE calls' = ((calls \ {c}) \ switches) \cup LetGo(switches)
    BY <1>1, <1>5, <2>3
  <2>4. CASE calls' = ((calls \ {c}) \ later) \cup LetGo(later)
    BY <1>1, <1>5, <2>4
  <2>5. CASE Becomes(c, d)
    <3>1. d.op = c.op /\ d.seen = c.seen
      BY <1>1 DEF CallType
    <3> HIDE DEF d
    <3> QED BY <1>4, <2>5, <3>1
  <2> QED BY <1>8, <2>1, <2>2, <2>3, <2>4, <2>5 DEF Answered, Switched, PortSaved, Removed, Added, AddFailed, PortAdded
<1>9. CASE ConfigLands
  <2> DEFINE awaiting == {c \in calls : c.at = "settling"}
             lost == {c \in calls \ awaiting : c.op # "add" /\ c.id \in {i \in Ids : answer[i] = Gone}}
  <2>1. calls' = ((calls \ awaiting) \ lost) \cup LetGo(lost)
    BY <1>9 DEF ConfigLands
  <2> QED BY <1>1, <1>5, <2>1
<1>10. ASSUME NEW i \in Ids, RowStep(i) PROVE Sending' = {}
  BY <1>3, <1>6, <1>10 DEF RowStep, UserSwitches, UserEdits, UserSavesPort, UserTakesFree, UserOpensDelete, Saves, Stays
<1>11. CASE UserClosesAdd
  <2> DEFINE adds == {c \in calls : c.op = "add"}
  <2>1. calls' = (calls \ adds) \cup LetGo(adds)
    BY <1>11 DEF UserClosesAdd
  <2> QED BY <1>1, <1>5, <2>1
<1>12. CASE UserDeletes
  BY <1>6, <1>12 DEF UserDeletes
<1>13. CASE DialogStep /\ ~UserClosesAdd /\ ~UserDeletes
  BY <1>3, <1>13 DEF DialogStep, UserKeeps, UserOpensAdd, UserPicksTarget, UserTicks, UserTakesOther, UserTypes,
                     ChangesDialog, Stays
<1>14. CASE ConfigReads \/ UNCHANGED vars \/ \E p \in Locals : OtherProgram(p)
  BY <1>3, <1>14 DEF ConfigReads, OtherProgram, vars
<1> QED BY <1>7, <1>8, <1>9, <1>10, <1>11, <1>12, <1>13, <1>14 DEF Next

LEMMA SendsTheRestStep ==
  ASSUME TypeInv, RetryInv, [Next]_vars
  PROVE  SendsTheRest
<1> SUFFICES ASSUME Sending = {}, NEW c \in Sending', NEW f \in dialog.added, NEW k \in DOMAIN c.queue,
                    SameTarget(f, c.queue[k])
             PROVE  FALSE
  BY DEF SendsTheRest
<1>1. UserAdds
  BY OnlyAddSends
<1>2. PICK q \in Ascending(Ticked) : Sends(Call("add", 0, [n \in DOMAIN q |-> PortAt(q[n])]))
  BY <1>1 DEF UserAdds
<1>3. c = Call("add", 0, [n \in DOMAIN q |-> PortAt(q[n])])
  BY <1>2 DEF Sends, Sending
<1>4. k \in DOMAIN q /\ c.queue[k] = PortAt(q[k])
  BY <1>3 DEF Call
<1>5. q[k] \in Ticked
  <2>1. Ticked # {}
    BY <1>1 DEF UserAdds
  <2> QED BY <1>2, <1>4, <2>1, QueueOfTicked
<1>6. PortAt(q[k]).target = dialog.target /\ PortAt(q[k]).remote = q[k]
  BY DEF PortAt
<1>7. f.target = dialog.target /\ f.remote = q[k]
  BY <1>4, <1>6 DEF SameTarget
<1>8. Within(rows, f)
  BY DEF RetryInv, AddedIsRead
<1>9. Existing(q[k])
  BY <1>7, <1>8 DEF Existing, Within, SameTarget
<1> QED BY <1>5, <1>9 DEF Ticked

(* A retry of the dialog adds only the rest, whatever became of the ports it had added (forwards.tsx:338). *)
THEOREM RetriesAddTheRest == Spec => RetryAddsRest
<1>1. TypeInv /\ RetryInv /\ [Next]_vars => [SendsTheRest]_vars
  BY SendsTheRestStep
<1> QED BY TypeInit, TypeStep, RetryInit, RetryStep, <1>1, PTL DEF Spec, RetryAddsRest
================================================================================
