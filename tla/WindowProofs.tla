----------------------------- MODULE WindowProofs ------------------------------
(***************************************************************************)
(* What the window keeps of a session it draws, and of where its user is.  *)
(*                                                                         *)
(* Screen, for any number of chunks, keys and windows: a session that is   *)
(* not in the store has no terminal, keys arrive as typed, and output is   *)
(* drawn in order and whole.  The first rests on every event saying        *)
(* something (EventsSay).  The second rests on one write at a time per     *)
(* window (OneWriteEach), which what was received comes before and what    *)
(* waits comes after.  The last two rest on OutputInv: what is on its way  *)
(* is the chunks from the next one due on, and a screen is some chunks     *)
(* from before the tail, the tail, and what follows (Laid).                *)
(*                                                                         *)
(* Nav, for any Clusters, objects and number of places.  NavInv says that  *)
(* the place, the detail and the history are those of one Cluster and view *)
(* (Placed), that what is beside the list is what the store has            *)
(* (OpenIsShown), and that one step back undoes a walk (WalkUndone).  That *)
(* a key has one taker rests on the catalog of Commands alone: each takes  *)
(* only what is its own (Owns), and no two own the same key at one place.  *)
(***************************************************************************)
EXTENDS Screen, Nav, Integers, FiniteSetTheorems, WellFoundedInduction, TLAPS

--------------------------------------------------------------------------------
(* The terminal. *)

Event == [chunk : Nat, state : {"none", "live", "ended"}]
Says(e) == e.chunk = NoChunk => e.state # "none"
Telling == {e \in Event : Says(e)}
EventsSay == events \in Seq(Telling) /\ tail \in Seq(Nat) /\ emitting \in Nat

TermInv == EventsSay /\ TerminalGoes

LEMMA Tellings ==
  /\ Status("live") \in Telling /\ Status("ended") \in Telling
  /\ \A c \in Nat \ {NoChunk} : Output(c) \in Telling
BY DEF Status, Output, Telling, Event, Says, NoChunk

LEMMA EmitTells ==
  ASSUME EventsSay, NEW e \in Seq(Telling), Emit(e)
  PROVE  events' \in Seq(Telling)
BY DEF EventsSay, Emit

LEMMA TermInit == Init => TermInv
BY DEF Init, TermInv, EventsSay, TerminalGoes, NoChunk

LEMMA TermStep == TermInv /\ [Next]_vars => TermInv'
<1> SUFFICES ASSUME TermInv, [Next]_vars
             PROVE  EventsSay' /\ TerminalGoes'
  BY DEF TermInv
<1> USE DEF TermInv
<1>1. CASE Keeps
  <2>1. (IF tail = <<>> THEN <<Status("live")>> ELSE <<>>) \in Seq(Telling)
    BY Tellings
  <2>2. events' \in Seq(Telling)
    BY <1>1, <2>1, EmitTells DEF Keeps
  <2>3. tail' \in Seq(Nat) /\ emitting' \in Nat
    BY <1>1 DEF Keeps, EventsSay, Produced
  <2> QED BY <1>1, <2>2, <2>3 DEF Keeps, EventsSay, TerminalGoes, store
<1>2. CASE EmitsChunk
  <2>1. <<Output(emitting)>> \in Seq(Telling)
    BY <1>2, Tellings DEF EmitsChunk, EventsSay
  <2>2. events' \in Seq(Telling)
    BY <1>2, <2>1, EmitTells DEF EmitsChunk
  <2> QED BY <1>2, <2>2 DEF EmitsChunk, EventsSay, TerminalGoes, store, NoChunk
<1>3. CASE Exits
  BY <1>3 DEF Exits, EventsSay, TerminalGoes, store
<1>4. CASE TellsEnd
  <2>1. <<Status("ended")>> \in Seq(Telling)
    BY Tellings
  <2>2. Emit(<<Status("ended")>>)
    BY <1>4 DEF TellsEnd
  <2>3. events' \in Seq(Telling)
    BY <2>1, <2>2, EmitTells
  <2> QED BY <1>4, <2>3 DEF TellsEnd, EventsSay, TerminalGoes, store
<1>5. CASE StopShell
  BY <1>5 DEF StopShell, EventsSay, TerminalGoes, store
<1>6. CASE ShellStatuses
  BY <1>6 DEF ShellStatuses, EventsSay, TerminalGoes, store, service
<1>7. CASE ShellTail
  BY <1>7 DEF ShellTail, EventsSay, TerminalGoes, store, service
<1>8. CASE HandlesEvent
  <2>1. Head(events) \in Telling /\ events' \in Seq(Telling)
    BY <1>8 DEF HandlesEvent, EventsSay
  <2>2. EventsSay'
    BY <1>8, <2>1 DEF HandlesEvent, EventsSay, service
  <2>3. TerminalGoes'
    <3>1. CASE Head(events).chunk # NoChunk
      BY <1>8, <3>1 DEF HandlesEvent, WriteSessionOutput, Drawn, IsOpen, TerminalGoes
    <3>2. CASE Head(events).chunk = NoChunk
      BY <1>8, <3>2, <2>1 DEF HandlesEvent, SetStatus, TerminalGoes, Telling, Says
    <3> QED BY <3>1, <3>2
  <2> QED BY <2>2, <2>3
<1>9. CASE HandlesStatuses
  BY <1>9 DEF HandlesStatuses, SetStatus, EventsSay, TerminalGoes, service
<1>10. CASE RestoreSession
  BY <1>10 DEF RestoreSession, Drawn, IsOpen, EventsSay, TerminalGoes, service
<1>11. CASE Reload
  BY <1>11 DEF Reload, EventsSay, TerminalGoes, service
<1>12. CASE Loads
  BY <1>12 DEF Loads, EventsSay, TerminalGoes, service, store
<1>13. CASE UserCloses
  BY <1>13 DEF UserCloses, EventsSay, TerminalGoes, service
<1>14. CASE UserTypes
  BY <1>14 DEF UserTypes, EventsSay, TerminalGoes, service, store
<1>15. CASE \E w \in writes : WriteShell(w) \/ WriteEnds(w)
  BY <1>15 DEF WriteShell, WriteEnds, EventsSay, TerminalGoes, service, store
<1>16. CASE UNCHANGED vars
  BY <1>16 DEF vars, EventsSay, TerminalGoes
<1> QED BY <1>1, <1>2, <1>3, <1>4, <1>5, <1>6, <1>7, <1>8, <1>9, <1>10, <1>11, <1>12, <1>13, <1>14,
           <1>15, <1>16 DEF Next

(* No late chunk and no late tail makes the terminal of a closed session again (terminal.tsx:184). *)
THEOREM NoLateTerminal == Spec => []TerminalGoes
<1>1. TermInv => TerminalGoes
  BY DEF TermInv
<1> QED BY TermInit, TermStep, <1>1, PTL DEF Spec

--------------------------------------------------------------------------------
(* The keys. *)

TypedKey == [window : Nat, n : Nat]
Before(s, t) == \A i \in DOMAIN s, j \in DOMAIN t : s[i].window = t[j].window => s[i].n < t[j].n
Ordered(s) == \A i, j \in DOMAIN s : i < j /\ s[i].window = s[j].window => s[i].n < s[j].n
\* The keys of a window come from it, none later than the last one typed.
TypedIn(s, v, last, n) == \A i \in DOMAIN s : s[i].window = v /\ (v = last => s[i].n <= n)
Typed(s, v) == TypedIn(s, v, window, typed)

WriteType == [window : Nat, keys : Seq(TypedKey), at : {"sent", "served"}]
KeyTypes ==
  /\ window \in Nat /\ typed \in Nat /\ sending \in BOOLEAN
  /\ received \in Seq(TypedKey) /\ queuedIn \in Seq(TypedKey) /\ writes \subseteq WriteType

OneWriteEach ==
  /\ \A w, x \in writes : w.window = x.window => w = x
  /\ \A w \in writes : w.window <= window /\ (w.window = window => sending)
WriteInOrder(w) ==
  /\ Typed(w.keys, w.window) /\ Ordered(w.keys)
  /\ w.at = "sent" => Before(received, w.keys)
  /\ w.window = window => Before(w.keys, queuedIn)
WaitInOrder ==
  /\ Typed(queuedIn, window) /\ Ordered(queuedIn) /\ Before(received, queuedIn)
  /\ ~sending => queuedIn = <<>>
ReceivedInOrder ==
  /\ Ordered(received)
  /\ \A i \in DOMAIN received : received[i].window <= window
                                /\ (received[i].window = window => received[i].n <= typed)

KeysInv == KeyTypes /\ OneWriteEach /\ (\A w \in writes : WriteInOrder(w)) /\ WaitInOrder /\ ReceivedInOrder

LEMMA Concat ==
  ASSUME NEW S, NEW s \in Seq(S), NEW t \in Seq(S)
  PROVE  /\ s \o t \in Seq(S) /\ Len(s \o t) = Len(s) + Len(t)
         /\ \A i \in DOMAIN (s \o t) : \/ i \in DOMAIN s /\ (s \o t)[i] = s[i]
                                       \/ i > Len(s) /\ i - Len(s) \in DOMAIN t /\ (s \o t)[i] = t[i - Len(s)]
OBVIOUS

LEMMA OrderedConcat ==
  ASSUME NEW s \in Seq(TypedKey), NEW t \in Seq(TypedKey), Ordered(s), Ordered(t), Before(s, t)
  PROVE  Ordered(s \o t)
<1> SUFFICES ASSUME NEW i \in DOMAIN (s \o t), NEW j \in DOMAIN (s \o t), i < j,
                    (s \o t)[i].window = (s \o t)[j].window
             PROVE  (s \o t)[i].n < (s \o t)[j].n
  BY DEF Ordered
<1>1. i \in Int /\ j \in Int /\ Len(s) \in Nat
  BY Concat
<1>2. CASE i \in DOMAIN s /\ (s \o t)[i] = s[i] /\ j \in DOMAIN s /\ (s \o t)[j] = s[j]
  BY <1>2 DEF Ordered
<1>3. CASE i \in DOMAIN s /\ (s \o t)[i] = s[i] /\ j - Len(s) \in DOMAIN t /\ (s \o t)[j] = t[j - Len(s)]
  BY <1>3 DEF Before
<1>4. CASE i > Len(s) /\ i - Len(s) \in DOMAIN t /\ (s \o t)[i] = t[i - Len(s)]
  <2>1. j > Len(s) /\ j \notin DOMAIN s
    BY <1>1, <1>4
  <2>2. j - Len(s) \in DOMAIN t /\ (s \o t)[j] = t[j - Len(s)]
    BY <2>1, Concat
  <2>3. i - Len(s) < j - Len(s)
    BY <1>1
  <2> QED BY <1>4, <2>2, <2>3 DEF Ordered
<1> QED BY <1>2, <1>3, <1>4, Concat

LEMMA BeforeConcat ==
  ASSUME NEW s \in Seq(TypedKey), NEW t \in Seq(TypedKey), NEW u \in Seq(TypedKey), Before(s, u), Before(t, u)
  PROVE  Before(s \o t, u)
<1> SUFFICES ASSUME NEW i \in DOMAIN (s \o t), NEW j \in DOMAIN u, (s \o t)[i].window = u[j].window
             PROVE  (s \o t)[i].n < u[j].n
  BY DEF Before
<1>1. CASE i \in DOMAIN s /\ (s \o t)[i] = s[i]
  BY <1>1 DEF Before
<1>2. CASE i - Len(s) \in DOMAIN t /\ (s \o t)[i] = t[i - Len(s)]
  BY <1>2 DEF Before
<1> QED BY <1>1, <1>2, Concat

LEMMA ConcatBefore ==
  ASSUME NEW s \in Seq(TypedKey), NEW t \in Seq(TypedKey), NEW u \in Seq(TypedKey), Before(u, s), Before(u, t)
  PROVE  Before(u, s \o t)
<1> SUFFICES ASSUME NEW i \in DOMAIN u, NEW j \in DOMAIN (s \o t), u[i].window = (s \o t)[j].window
             PROVE  u[i].n < (s \o t)[j].n
  BY DEF Before
<1>1. CASE j \in DOMAIN s /\ (s \o t)[j] = s[j]
  BY <1>1 DEF Before
<1>2. CASE j - Len(s) \in DOMAIN t /\ (s \o t)[j] = t[j - Len(s)]
  BY <1>2 DEF Before
<1> QED BY <1>1, <1>2, Concat

LEMMA BeforeNext ==
  ASSUME NEW s \in Seq(TypedKey), NEW v \in Nat, NEW n \in Nat, \A i \in DOMAIN s : s[i].window = v => s[i].n <= n
  PROVE  Before(s, <<[window |-> v, n |-> n + 1]>>)
<1> DEFINE k == [window |-> v, n |-> n + 1]
<1>1. <<k>>[1] = k /\ DOMAIN <<k>> = {1} /\ k.window = v /\ k.n = n + 1
  OBVIOUS
<1> SUFFICES ASSUME NEW i \in DOMAIN s, s[i].window = v
             PROVE  s[i].n < n + 1
  BY <1>1 DEF Before
<1>2. s[i] \in TypedKey
  OBVIOUS
<1> QED BY <1>2 DEF TypedKey

LEMMA TypedOn ==
  ASSUME NEW s \in Seq(TypedKey), NEW v \in Nat, NEW last \in Nat, NEW n \in Nat, TypedIn(s, v, last, n)
  PROVE  TypedIn(s, v, last, n + 1) /\ (v <= last => \A m \in Nat : TypedIn(s, v, last + 1, m))
<1>1. ASSUME NEW i \in DOMAIN s
      PROVE  s[i].n \in Nat
  <2>1. s[i] \in TypedKey
    OBVIOUS
  <2> QED BY <2>1 DEF TypedKey
<1> QED BY <1>1 DEF TypedIn

LEMMA KeysInit == Init => KeysInv
<1> SUFFICES ASSUME Init PROVE KeysInv
  OBVIOUS
<1>1. received = <<>> /\ queuedIn = <<>> /\ writes = {} /\ window = 1 /\ typed = 0 /\ sending = FALSE
  BY DEF Init
<1>2. KeyTypes
  <2>1. received \in Seq(TypedKey) /\ queuedIn \in Seq(TypedKey) /\ writes \subseteq WriteType
    BY <1>1
  <2> QED BY <1>1, <2>1 DEF KeyTypes
<1>3. OneWriteEach /\ (\A w \in writes : WriteInOrder(w))
  BY <1>1 DEF OneWriteEach
<1>4. WaitInOrder /\ ReceivedInOrder
  BY <1>1 DEF WaitInOrder, ReceivedInOrder, Typed, TypedIn, Ordered, Before
<1> QED BY <1>2, <1>3, <1>4 DEF KeysInv

LEMMA TypesStep ==
  ASSUME KeysInv, UserTypes
  PROVE  KeysInv'
<1> DEFINE k == [window |-> window, n |-> typed + 1]
<1>1. /\ KeyTypes /\ OneWriteEach /\ (\A w \in writes : WriteInOrder(w)) /\ WaitInOrder /\ ReceivedInOrder
      /\ typed' = typed + 1 /\ window' = window /\ received' = received /\ SendInput(<<k>>)
  BY DEF KeysInv, UserTypes, page
<1>2. <<k>> \in Seq(TypedKey) /\ Ordered(<<k>>) /\ Before(received, <<k>>) /\ Before(queuedIn, <<k>>)
  <2>1. k \in TypedKey
    BY <1>1 DEF KeyTypes, TypedKey
  <2>2. <<k>> \in Seq(TypedKey) /\ DOMAIN <<k>> = {1} /\ <<k>>[1] = k
    BY <2>1
  <2>3. Before(received, <<k>>) /\ Before(queuedIn, <<k>>)
    BY <1>1, BeforeNext DEF ReceivedInOrder, WaitInOrder, Typed, TypedIn, KeyTypes
  <2>4. Ordered(<<k>>)
    BY <2>2 DEF Ordered
  <2> QED BY <2>2, <2>3, <2>4
<1>3. ASSUME NEW s, s \in Seq(TypedKey), NEW i \in DOMAIN s, s[i].n <= typed
      PROVE  s[i].n <= typed + 1
  <2>1. s[i] \in TypedKey
    BY <1>3
  <2>2. s[i].n \in Nat /\ typed \in Nat
    BY <1>1, <2>1 DEF TypedKey, KeyTypes
  <2> QED BY <1>3, <2>2
<1>4. ReceivedInOrder'
  BY <1>1, <1>3 DEF ReceivedInOrder, KeyTypes, Ordered
<1> HIDE DEF k
<1>5. CASE sending /\ queuedIn' = queuedIn \o <<k>> /\ UNCHANGED <<writes, sending>>
  <2>1. KeyTypes'
    BY <1>1, <1>2, <1>5 DEF KeyTypes
  <2>2. OneWriteEach'
    BY <1>1, <1>5 DEF OneWriteEach
  <2>3. ASSUME NEW w \in writes PROVE WriteInOrder(w)'
    <3>1. WriteInOrder(w) /\ w.keys \in Seq(TypedKey) /\ w.window \in Nat
      BY <1>1 DEF KeyTypes, WriteType
    <3>2. w.window = window => Before(w.keys, queuedIn \o <<k>>)
      <4>1. SUFFICES ASSUME w.window = window
                     PROVE  Before(w.keys, queuedIn \o <<k>>)
        OBVIOUS
      <4>2. \A i \in DOMAIN w.keys : w.keys[i].window = window => w.keys[i].n <= typed
        BY <3>1, <4>1 DEF WriteInOrder, Typed, TypedIn
      <4>3. Before(w.keys, <<k>>) /\ Before(w.keys, queuedIn)
        BY <1>1, <3>1, <4>1, <4>2, BeforeNext DEF WriteInOrder, KeyTypes, k
      <4> QED BY <1>1, <1>2, <3>1, <4>3, ConcatBefore DEF KeyTypes
    <3>3. Typed(w.keys, w.window)'
      BY <1>1, <3>1, TypedOn DEF WriteInOrder, Typed, KeyTypes
    <3> QED BY <1>1, <1>5, <3>1, <3>2, <3>3 DEF WriteInOrder
  <2>4. WaitInOrder'
    <3>1. Ordered(queuedIn \o <<k>>) /\ Before(received, queuedIn \o <<k>>)
      BY <1>1, <1>2, OrderedConcat, ConcatBefore DEF WaitInOrder, KeyTypes
    <3>2. ASSUME NEW i \in DOMAIN (queuedIn \o <<k>>)
          PROVE  (queuedIn \o <<k>>)[i].window = window /\ (queuedIn \o <<k>>)[i].n <= typed + 1
      <4>1. CASE i \in DOMAIN queuedIn /\ (queuedIn \o <<k>>)[i] = queuedIn[i]
        <5>1. TypedIn(queuedIn, window, window, typed + 1)
          BY <1>1, TypedOn DEF WaitInOrder, Typed, KeyTypes
        <5> QED BY <4>1, <5>1 DEF TypedIn
      <4>2. CASE i - Len(queuedIn) \in DOMAIN <<k>> /\ (queuedIn \o <<k>>)[i] = <<k>>[i - Len(queuedIn)]
        <5>1. (queuedIn \o <<k>>)[i] = k
          BY <4>2
        <5> QED BY <1>1, <5>1 DEF k, KeyTypes
      <4> QED BY <1>1, <1>2, <4>1, <4>2, Concat DEF KeyTypes
    <3>3. Typed(queuedIn, window)'
      BY <1>1, <1>5, <3>2 DEF Typed, TypedIn
    <3> QED BY <1>1, <1>5, <3>1, <3>3 DEF WaitInOrder
  <2>5. \A w \in writes' : WriteInOrder(w)'
    BY <1>5, <2>3
  <2> QED BY <1>4, <2>1, <2>2, <2>4, <2>5 DEF KeysInv
<1>6. CASE ~sending /\ sending' = TRUE /\ writes' = writes \cup {Write(<<k>>)} /\ UNCHANGED queuedIn
  <2> DEFINE x == Write(<<k>>)
  <2>1. x \in WriteType /\ x.window = window /\ x.keys = <<k>>
    BY <1>1, <1>2 DEF Write, WriteType, KeyTypes
  <2>2. queuedIn = <<>> /\ \A w \in writes : w.window # window
    BY <1>1, <1>6 DEF WaitInOrder, OneWriteEach
  <2>3. KeyTypes'
    BY <1>1, <1>6, <2>1 DEF KeyTypes
  <2>4. OneWriteEach'
    BY <1>1, <1>6, <2>1, <2>2 DEF OneWriteEach, KeyTypes
  <2>5. ASSUME NEW w \in writes PROVE WriteInOrder(w)'
    <3>1. WriteInOrder(w) /\ w.keys \in Seq(TypedKey) /\ w.window \in Nat /\ w.window # window
      BY <1>1, <2>2 DEF KeyTypes, WriteType
    <3>2. Typed(w.keys, w.window)'
      BY <1>1, <3>1, TypedOn DEF WriteInOrder, Typed, KeyTypes
    <3> QED BY <1>1, <1>6, <3>1, <3>2 DEF WriteInOrder
  <2>6. ASSUME NEW w \in writes', w = x PROVE WriteInOrder(w)'
    <3>1. Before(<<k>>, queuedIn)
      BY <2>2 DEF Before
    <3>2. TypedIn(<<k>>, window, window, typed + 1)
      BY <1>1 DEF TypedIn, k, KeyTypes
    <3>3. w.keys = <<k>> /\ w.window = window
      BY <2>1, <2>6
    <3>4. Typed(w.keys, w.window)'
      BY <1>1, <3>2, <3>3 DEF Typed
    <3> QED BY <1>1, <1>2, <1>6, <3>1, <3>3, <3>4 DEF WriteInOrder
  <2>7. WaitInOrder'
    <3>1. Typed(queuedIn, window)'
      BY <1>1, <1>6, <2>2 DEF Typed, TypedIn
    <3> QED BY <1>1, <1>6, <3>1 DEF WaitInOrder
  <2> HIDE DEF x
  <2>8. \A w \in writes' : WriteInOrder(w)'
    BY <1>6, <2>5, <2>6 DEF x
  <2> QED BY <1>4, <2>3, <2>4, <2>7, <2>8 DEF KeysInv
<1> QED BY <1>1, <1>5, <1>6 DEF SendInput

LEMMA ServedStep ==
  ASSUME KeysInv, NEW w \in writes, WriteShell(w)
  PROVE  KeysInv'
<1> DEFINE x == [w EXCEPT !.at = "served"]
<1>1. /\ KeyTypes /\ OneWriteEach /\ (\A u \in writes : WriteInOrder(u)) /\ WaitInOrder /\ ReceivedInOrder
      /\ UNCHANGED <<window, typed, sending, queuedIn>>
      /\ writes' = (writes \ {w}) \cup {x} /\ w.at = "sent"
      /\ received' = received \/ received' = received \o w.keys
  BY DEF KeysInv, WriteShell, page
<1>2. w \in WriteType /\ w.keys \in Seq(TypedKey) /\ w.window \in Nat /\ WriteInOrder(w)
  BY <1>1 DEF KeyTypes, WriteType
<1>3. x \in WriteType /\ x.window = w.window /\ x.keys = w.keys /\ x.at = "served"
  BY <1>2 DEF WriteType
<1> HIDE DEF x
<1>4. w.window <= window /\ (w.window = window => sending) /\ \A u \in writes : u.window = w.window => u = w
  BY <1>1 DEF OneWriteEach
<1>5. KeyTypes'
  <2>1. received \o w.keys \in Seq(TypedKey)
    BY <1>1, <1>2 DEF KeyTypes
  <2>2. received' \in Seq(TypedKey)
    BY <1>1, <2>1 DEF KeyTypes
  <2>3. writes' \subseteq WriteType
    BY <1>1, <1>3 DEF KeyTypes
  <2> QED BY <1>1, <2>2, <2>3 DEF KeyTypes
<1>6. OneWriteEach'
  BY <1>1, <1>3, <1>4 DEF OneWriteEach
<1>7. ASSUME NEW s \in Seq(TypedKey), Before(received, s), Before(w.keys, s)
      PROVE  Before(received', s)
  BY <1>1, <1>2, <1>7, BeforeConcat DEF KeyTypes
<1>8. ASSUME NEW s \in Seq(TypedKey), NEW v \in Nat, v # w.window, TypedIn(s, v, window, typed)
      PROVE  Before(w.keys, s)
  BY <1>2, <1>8 DEF WriteInOrder, Typed, TypedIn, Before
<1>9. ASSUME NEW u \in writes' PROVE WriteInOrder(u)'
  <2>1. CASE u = x
    BY <1>1, <1>2, <1>3, <2>1 DEF WriteInOrder, Typed
  <2>2. CASE u \in writes /\ u # w
    <3>1. u.keys \in Seq(TypedKey) /\ u.window \in Nat /\ WriteInOrder(u) /\ u.window # w.window
      BY <1>1, <1>4, <2>2 DEF KeyTypes, WriteType
    <3>2. u.at = "sent" => Before(received', u.keys)
      BY <1>7, <1>8, <3>1 DEF WriteInOrder, Typed
    <3> QED BY <1>1, <3>1, <3>2 DEF WriteInOrder, Typed
  <2> QED BY <1>1, <2>1, <2>2
<1>10. WaitInOrder'
  <2>1. Before(w.keys, queuedIn)
    BY <1>1, <1>2, <1>8 DEF WaitInOrder, WriteInOrder, Typed, KeyTypes
  <2>2. Before(received', queuedIn)
    BY <1>1, <1>7, <2>1 DEF WaitInOrder, KeyTypes
  <2> QED BY <1>1, <2>2 DEF WaitInOrder, Typed
<1>11. ReceivedInOrder'
  <2>1. CASE received' = received
    BY <1>1, <2>1 DEF ReceivedInOrder, Ordered
  <2>2. CASE received' = received \o w.keys
    <3>1. Ordered(received \o w.keys)
      BY <1>1, <1>2, OrderedConcat DEF ReceivedInOrder, WriteInOrder, KeyTypes
    <3>2. ASSUME NEW i \in DOMAIN (received \o w.keys)
          PROVE  LET e == (received \o w.keys)[i] IN e.window <= window /\ (e.window = window => e.n <= typed)
      <4>1. CASE i \in DOMAIN received /\ (received \o w.keys)[i] = received[i]
        BY <1>1, <4>1 DEF ReceivedInOrder
      <4>2. CASE i - Len(received) \in DOMAIN w.keys /\ (received \o w.keys)[i] = w.keys[i - Len(received)]
        BY <1>2, <1>4, <4>2 DEF WriteInOrder, Typed, TypedIn
      <4> QED BY <1>1, <1>2, <4>1, <4>2, Concat DEF KeyTypes
    <3>3. Ordered(received)'
      BY <2>2, <3>1 DEF Ordered
    <3> QED BY <1>1, <2>2, <3>2, <3>3 DEF ReceivedInOrder
  <2> QED BY <1>1, <2>1, <2>2
<1> QED BY <1>5, <1>6, <1>9, <1>10, <1>11 DEF KeysInv

LEMMA EndsStep ==
  ASSUME KeysInv, NEW w \in writes, WriteEnds(w)
  PROVE  KeysInv'
<1>1. /\ KeyTypes /\ OneWriteEach /\ (\A u \in writes : WriteInOrder(u)) /\ WaitInOrder /\ ReceivedInOrder
      /\ UNCHANGED <<window, typed, received>>
  BY DEF KeysInv, WriteEnds, page
<1>2. ReceivedInOrder'
  BY <1>1 DEF ReceivedInOrder, Ordered
<1>3. CASE /\ writes' = writes \ {w} /\ UNCHANGED queuedIn
           /\ UNCHANGED sending \/ (w.window = window /\ queuedIn = <<>> /\ sending' = FALSE)
  <2>1. KeyTypes'
    BY <1>1, <1>3 DEF KeyTypes
  <2>2. OneWriteEach'
    BY <1>1, <1>3 DEF OneWriteEach
  <2>3. \A u \in writes' : WriteInOrder(u)'
    BY <1>1, <1>3 DEF WriteInOrder, Typed
  <2>4. WaitInOrder'
    BY <1>1, <1>3 DEF WaitInOrder, Typed
  <2> QED BY <1>2, <2>1, <2>2, <2>3, <2>4 DEF KeysInv
<1>4. CASE /\ w.window = window /\ queuedIn # <<>>
           /\ writes' = (writes \ {w}) \cup {Write(queuedIn)} /\ queuedIn' = <<>> /\ UNCHANGED sending
  <2> DEFINE x == Write(queuedIn)
  <2>1. x \in WriteType /\ x.window = window /\ x.keys = queuedIn /\ x.at = "sent"
    BY <1>1 DEF Write, WriteType, KeyTypes
  <2> HIDE DEF x
  <2>2. sending /\ \A u \in writes : u.window = window => u = w
    BY <1>1, <1>4 DEF WaitInOrder, OneWriteEach
  <2>3. KeyTypes'
    BY <1>1, <1>4, <2>1 DEF KeyTypes, x
  <2>4. writes' = (writes \ {w}) \cup {x}
    BY <1>4 DEF x
  <2>5. OneWriteEach'
    BY <1>1, <1>4, <2>1, <2>2, <2>4 DEF OneWriteEach, KeyTypes
  <2>6. \A s : Before(s, queuedIn')
    BY <1>4 DEF Before
  <2>7. ASSUME NEW u \in writes' PROVE WriteInOrder(u)'
    <3>1. CASE u = x
      BY <1>1, <2>1, <2>6, <3>1 DEF WaitInOrder, WriteInOrder, Typed
    <3>2. CASE u \in writes
      BY <1>1, <2>6, <3>2 DEF WriteInOrder, Typed
    <3> QED BY <2>4, <3>1, <3>2
  <2>8. WaitInOrder'
    BY <1>1, <1>4, <2>2, <2>6 DEF WaitInOrder, Typed, TypedIn, Ordered
  <2> QED BY <1>2, <2>3, <2>5, <2>7, <2>8 DEF KeysInv
<1> QED BY <1>3, <1>4 DEF WriteEnds

\* The writes of the window that is gone are of an older one; those it had typed wait no more.
LEMMA ReloadStep ==
  ASSUME KeysInv, Reload
  PROVE  KeysInv'
<1>1. /\ KeyTypes /\ OneWriteEach /\ (\A u \in writes : WriteInOrder(u)) /\ WaitInOrder /\ ReceivedInOrder
      /\ UNCHANGED <<received, writes>> /\ window' = window + 1 /\ typed' = 0
      /\ sending' = FALSE /\ queuedIn' = <<>>
  BY DEF KeysInv, Reload
<1>2. KeyTypes'
  <2>1. queuedIn' \in Seq(TypedKey)
    BY <1>1
  <2>2. sending' \in BOOLEAN
    BY <1>1
  <2>3. window' \in Nat /\ typed' \in Nat
    BY <1>1 DEF KeyTypes
  <2>4. received' \in Seq(TypedKey) /\ writes' \subseteq WriteType
    BY <1>1 DEF KeyTypes
  <2> QED BY <2>1, <2>2, <2>3, <2>4 DEF KeyTypes
<1>3. \A w \in writes : w.window \in Nat /\ w.window <= window /\ w.keys \in Seq(TypedKey)
  BY <1>1 DEF KeyTypes, OneWriteEach, WriteType
<1>4. OneWriteEach'
  <2>1. ASSUME NEW w \in writes PROVE w.window <= window + 1 /\ w.window # window + 1
    BY <1>1, <1>3 DEF KeyTypes
  <2> QED BY <1>1, <2>1 DEF OneWriteEach
<1>5. ASSUME NEW w \in writes PROVE WriteInOrder(w)'
  <2>1. Typed(w.keys, w.window)'
    BY <1>1, <1>3, TypedOn DEF WriteInOrder, Typed, KeyTypes
  <2>2. Before(w.keys, queuedIn')
    BY <1>1 DEF Before
  <2> QED BY <1>1, <2>1, <2>2 DEF WriteInOrder
<1>6. WaitInOrder'
  BY <1>1 DEF WaitInOrder, Typed, TypedIn, Ordered, Before
<1>7. ReceivedInOrder'
  <2>1. ASSUME NEW i \in DOMAIN received
        PROVE  received[i].window <= window + 1 /\ received[i].window # window + 1
    <3>1. received[i] \in TypedKey
      BY <1>1 DEF KeyTypes
    <3>2. received[i].window \in Nat /\ window \in Nat /\ received[i].window <= window
      BY <1>1, <3>1 DEF ReceivedInOrder, TypedKey, KeyTypes
    <3> QED BY <3>2
  <2> QED BY <1>1, <2>1 DEF ReceivedInOrder, Ordered
<1> QED BY <1>1, <1>2, <1>4, <1>5, <1>6, <1>7 DEF KeysInv

LEMMA StillStep ==
  ASSUME KeysInv, UNCHANGED <<input, window>>
  PROVE  KeysInv'
BY DEF input, KeysInv, KeyTypes, OneWriteEach, WriteInOrder, WaitInOrder, ReceivedInOrder, Typed, Ordered

LEMMA KeysStep == KeysInv /\ [Next]_vars => KeysInv'
<1> SUFFICES ASSUME KeysInv, [Next]_vars
             PROVE  KeysInv'
  OBVIOUS
<1>1. CASE UserTypes
  BY <1>1, TypesStep
<1>2. CASE Reload
  BY <1>2, ReloadStep
<1>3. CASE \E w \in writes : WriteShell(w) \/ WriteEnds(w)
  BY <1>3, ServedStep, EndsStep
<1>4. CASE Keeps \/ EmitsChunk \/ Exits \/ TellsEnd \/ StopShell \/ ShellStatuses \/ ShellTail
  BY <1>4, StillStep DEF Keeps, EmitsChunk, Exits, TellsEnd, StopShell, ShellStatuses, ShellTail, page
<1>5. CASE HandlesEvent \/ HandlesStatuses \/ RestoreSession \/ Loads \/ UserCloses
  BY <1>5, StillStep DEF HandlesEvent, HandlesStatuses, RestoreSession, Loads, UserCloses, page
<1>6. CASE UNCHANGED vars
  BY <1>6, StillStep DEF vars, input
<1> QED BY <1>1, <1>2, <1>3, <1>4, <1>5, <1>6 DEF Next

(* The keys of a window arrive in the order they were typed, in any order of the calls (terminal.tsx:170). *)
THEOREM KeysArriveInOrder == Spec => []KeysInOrder
<1>1. KeysInv => KeysInOrder
  BY DEF KeysInv, ReceivedInOrder, Ordered, KeysInOrder
<1> QED BY KeysInit, KeysStep, <1>1, PTL DEF Spec
--------------------------------------------------------------------------------
(* The output. *)

OutChunks == {events[i].chunk : i \in DOMAIN events} \ {NoChunk}
\* Kept, and not yet handled by the window that is loaded.
Pending == OutChunks \cup ({emitting} \ {NoChunk})
\* The next chunk to be handled.
Due == CHOOSE n \in 1..Produced + 1 : Pending = n..Produced

Flows ==
  /\ \A i \in DOMAIN tail : tail[i] = i
  /\ emitting \in {NoChunk, Produced}
  /\ Due \in 1..Produced + 1 /\ Pending = Due..Produced
  /\ \A i, j \in DOMAIN events : i < j /\ events[i].chunk # NoChunk /\ events[j].chunk # NoChunk
                                  => events[i].chunk < events[j].chunk
  /\ emitting # NoChunk => emitting \notin OutChunks
  /\ ~loaded => events = <<>>

\* A shell is told to have started before its first chunk, and to have ended after its last.
Tells ==
  /\ registered => run = "running"
  /\ run # "running" => emitting = NoChunk
  /\ \A i \in DOMAIN events : events[i].state = "live" =>
       Due = 1 /\ \A j \in DOMAIN events : events[j].chunk # NoChunk => i < j
  /\ \A i \in DOMAIN events : events[i].state = "ended" =>
       run = "ended" /\ \A j \in DOMAIN events : events[j].chunk # NoChunk \/ events[j].state = "live" => j < i
  /\ shown = "ended" => run = "ended" /\ Pending = {} /\ \A i \in DOMAIN events : events[i].state # "live"

\* The calls of a window that was loaded, one after the other.
Asks ==
  /\ window \in Nat \ {0} /\ shown \in {"none", "live", "ended"}
  /\ statuses \in {"idle", "asked", "absent", "present"}
  /\ window = 1 => loaded /\ statuses = "idle" /\ tailCall = "idle"
  /\ ~loaded => statuses = "idle" /\ tailCall = "idle" /\ shown = "none"
  /\ statuses # "idle" => tailCall = "idle"
  /\ restoring <=> tailCall # "idle"
  /\ ~restoring => queuedOut = <<>>
  /\ statuses = "absent" \/ tailCall = "failed" => ~registered
  /\ closed => shown = "none"
  /\ loaded /\ registered /\ statuses = "idle" /\ ~closed => shown = "live"

\* Before its tail is asked for, a window has drawn every chunk there was.
Fresh == /\ \A i \in DOMAIN screen : screen[i] = i
         /\ screen # <<>> \/ shown = "live" => Len(screen) + 1 = Due
\* While it is, what waits follows what was drawn, if anything was.
Waits == /\ \A i \in DOMAIN screen : screen[i] = i
         /\ \E q \in Nat \ {0} :
              /\ q + Len(queuedOut) = Due /\ (screen = <<>> \/ q = Len(screen) + 1)
              /\ \A i \in DOMAIN queuedOut : queuedOut[i] = q + i - 1
              /\ tailCall = "read" => /\ \A i \in DOMAIN tailRead : tailRead[i] = i
                                      /\ q <= Len(tailRead) + 1 /\ Len(tailRead) <= Produced
              /\ tailCall = "failed" => tailRead = <<>>
\* m chunks from before the tail, t of the tail, and the chunks from q on.
Laid(m, t, q) ==
  /\ m + t <= Len(screen) /\ m < q
  /\ \A i \in DOMAIN screen : screen[i] = IF i <= m THEN i ELSE IF i <= m + t THEN i - m ELSE q + i - m - t - 1
  /\ screen # <<>> \/ shown = "live" => q + Len(screen) - m - t = Due
  /\ q <= t + 1 \/ (t = 0 /\ (m = 0 \/ q = m + 1) /\ ~registered)
Drawing == \E m, t \in Nat, q \in Nat \ {0} : Laid(m, t, q)

DrawnInOrder ==
  /\ screen \in Seq(Nat) /\ queuedOut \in Seq(Nat) /\ tailRead \in Seq(Nat)
  /\ window = 1 \/ statuses # "idle" \/ ~loaded => Fresh
  /\ IF restoring THEN Waits ELSE Drawing

\* Every chunk kept is drawn or will be: it waits, an event brings it, or the tail does.
Elements(s) == {s[i] : i \in DOMAIN s}
TailComes == statuses \in {"asked", "present"} \/ tailCall = "asked"
Brought == Elements(screen) \cup Pending \cup Elements(queuedOut) \cup (IF tailCall = "read" THEN Elements(tailRead) ELSE {})
NothingMissed ==
  /\ loaded /\ registered /\ ~closed /\ ~TailComes => 1..Produced \subseteq Brought
  /\ Elements(screen) \cup Elements(queuedOut) \cup Elements(tailRead) \subseteq 1..Produced

OutputInv == EventsSay /\ TerminalGoes /\ Flows /\ Tells /\ Asks /\ DrawnInOrder /\ NothingMissed

LEMMA Appended ==
  ASSUME NEW S, NEW s \in Seq(S), NEW e \in S
  PROVE  /\ Append(s, e) \in Seq(S) /\ Len(Append(s, e)) = Len(s) + 1
         /\ \A i \in DOMAIN s : i \in DOMAIN Append(s, e) /\ Append(s, e)[i] = s[i]
         /\ Append(s, e)[Len(s) + 1] = e /\ Len(s) + 1 \in DOMAIN Append(s, e)
         /\ \A i \in DOMAIN Append(s, e) : \/ i \in DOMAIN s /\ Append(s, e)[i] = s[i] /\ i \in Nat /\ i < Len(s) + 1
                                           \/ i = Len(s) + 1 /\ Append(s, e)[i] = e
<1> DEFINE a == Append(s, e)
<1>1. a \in Seq(S) /\ Len(a) = Len(s) + 1 /\ a[Len(s) + 1] = e /\ \A i \in 1..Len(s) : a[i] = s[i]
  OBVIOUS
<1>2. DOMAIN a = 1..Len(a) /\ DOMAIN s = 1..Len(s) /\ Len(s) \in Nat
  BY <1>1
<1> HIDE DEF a
<1>3. \A i \in 1..(Len(s) + 1) : (i \in 1..Len(s) /\ i \in Nat /\ i < Len(s) + 1) \/ i = Len(s) + 1
  BY <1>2
<1>4. a \in Seq(S) /\ Len(a) = Len(s) + 1 /\ (\A i \in DOMAIN s : i \in DOMAIN a /\ a[i] = s[i])
      /\ a[Len(s) + 1] = e /\ Len(s) + 1 \in DOMAIN a
  BY <1>1, <1>2
<1>5. \A i \in DOMAIN a : (i \in DOMAIN s /\ a[i] = s[i] /\ i \in Nat /\ i < Len(s) + 1) \/ (i = Len(s) + 1 /\ a[i] = e)
  BY <1>1, <1>2, <1>3
<1> QED BY <1>4, <1>5 DEF a

LEMMA Shifted ==
  ASSUME NEW S, NEW s \in Seq(S), s # <<>>
  PROVE  /\ Tail(s) \in Seq(S) /\ Len(Tail(s)) = Len(s) - 1 /\ Len(s) \in Nat \ {0}
         /\ 1 \in DOMAIN s /\ Head(s) = s[1]
         /\ \A i \in DOMAIN Tail(s) : i \in Nat /\ i + 1 \in DOMAIN s /\ Tail(s)[i] = s[i + 1]
         /\ \A i \in DOMAIN s : i = 1 \/ (i - 1 \in DOMAIN Tail(s) /\ Tail(s)[i - 1] = s[i])
OBVIOUS

LEMMA EmitAppends ==
  ASSUME EventsSay, NEW e \in Telling, Emit(<<e>>)
  PROVE  IF loaded THEN events' = Append(events, e) ELSE events' = events
BY DEF Emit, EventsSay

LEMMA ChosenDue ==
  ASSUME NEW P \in Nat, NEW S, NEW n \in 1..P + 1, S = n..P
  PROVE  (CHOOSE k \in 1..P + 1 : S = k..P) = n
<1>1. ASSUME NEW k \in 1..P + 1, S = k..P
      PROVE  k = n
  <2>1. CASE k < n
    <3>1. k \in k..P /\ k \notin n..P
      BY <2>1
    <3> QED BY <1>1, <3>1
  <2>2. CASE n < k
    <3>1. n \in n..P /\ n \notin k..P
      BY <2>2
    <3> QED BY <1>1, <3>1
  <2> QED BY <2>1, <2>2
<1> QED BY <1>1

LEMMA NewDue ==
  ASSUME NEW n \in 1..Produced' + 1, Produced' \in Nat, Pending' = n..Produced'
  PROVE  Due' = n /\ Due' \in 1..Produced' + 1 /\ Pending' = Due'..Produced'
<1>1. Due' = CHOOSE k \in 1..Produced' + 1 : Pending' = k..Produced'
  BY DEF Due
<1>2. Due' = n
  BY <1>1, ChosenDue
<1> QED BY <1>2

LEMMA Sizes == EventsSay => Produced \in Nat
BY DEF EventsSay, Produced

LEMMA KeepsFlows ==
  ASSUME OutputInv, Keeps
  PROVE  Flows' /\ Tells' /\ Due' = Due /\ Produced' = Produced + 1 /\ Pending' = Pending \cup {Produced'}
<1>1. /\ EventsSay /\ Flows /\ Tells /\ Asks /\ Produced \in Nat /\ emitting = NoChunk /\ run = "running"
      /\ tail' = Append(tail, Produced + 1) /\ emitting' = Produced + 1
      /\ UNCHANGED <<run, registered, loaded, shown>>
  BY Sizes DEF OutputInv, Keeps, page, store
<1>2. Produced' = Produced + 1 /\ \A i \in DOMAIN tail' : tail'[i] = i
  <2>1. tail \in Seq(Nat) /\ \A i \in DOMAIN tail : tail[i] = i
    BY <1>1 DEF EventsSay, Flows
  <2> QED BY <1>1, <2>1 DEF Produced
<1>3. OutChunks = Due..Produced /\ Due \in 1..Produced + 1
  BY <1>1 DEF Flows, Pending
<1>4. CASE tail = <<>> /\ loaded
  <2>1. Produced = 0 /\ Due = 1 /\ OutChunks = {}
    BY <1>3, <1>4 DEF Produced
  <2>2. \A i \in DOMAIN events : events[i].chunk = NoChunk
    BY <2>1 DEF OutChunks
  <2> DEFINE e == Status("live")
  <2>3. e \in Telling /\ e.chunk = NoChunk /\ e.state = "live"
    BY Tellings DEF Status
  <2> HIDE DEF e
  <2>4. events \in Seq(Telling) /\ events' = Append(events, e)
    <3>1. Emit(<<Status("live")>>)
      BY <1>4 DEF Keeps
    <3> QED BY <1>1, <1>4, <2>3, <3>1, EmitAppends DEF EventsSay, e
  <2>5. \A i \in DOMAIN events' : events'[i].chunk = NoChunk
                                  /\ (events'[i].state = "ended" => i \in DOMAIN events /\ events[i].state = "ended")
    BY <2>2, <2>3, <2>4
  <2>6. Pending' = 1..Produced' /\ OutChunks' = {}
    BY <1>1, <1>2, <2>1, <2>5 DEF Pending, OutChunks, NoChunk
  <2>7. Due' = 1 /\ Due' \in 1..Produced' + 1 /\ Pending' = Due'..Produced'
    BY <1>1, <1>2, <2>6, NewDue
  <2>8. Flows'
    BY <1>1, <1>2, <1>4, <2>5, <2>6, <2>7 DEF Flows
  <2>9. Tells'
    BY <1>1, <2>5, <2>7 DEF Tells
  <2> QED BY <1>1, <1>2, <1>3, <2>1, <2>6, <2>7, <2>8, <2>9 DEF Pending
<1>5. CASE ~(tail = <<>> /\ loaded)
  <2>1. events' = events
    BY <1>1, <1>5 DEF Keeps, Emit, EventsSay
  <2>2. OutChunks' = OutChunks
    BY <2>1 DEF OutChunks
  <2>3. Pending' = Due..Produced' /\ Pending' = Pending \cup {Produced'}
    BY <1>1, <1>2, <1>3, <2>2 DEF Pending, NoChunk
  <2>4. Due' = Due /\ Due' \in 1..Produced' + 1 /\ Pending' = Due'..Produced'
    BY <1>1, <1>2, <1>3, <2>3, NewDue
  <2>5. emitting' \notin OutChunks'
    BY <1>1, <1>3, <2>2
  <2>6. Flows'
    BY <1>1, <1>2, <2>1, <2>4, <2>5 DEF Flows
  <2>7. Tells'
    BY <1>1, <2>1, <2>4 DEF Tells
  <2> QED BY <1>2, <2>3, <2>4, <2>6, <2>7
<1> QED BY <1>4, <1>5

LEMMA EmitsFlows ==
  ASSUME OutputInv, EmitsChunk
  PROVE  Flows' /\ Tells' /\ Produced' = Produced /\ (loaded => Due' = Due /\ Pending' = Pending)
<1>1. /\ EventsSay /\ Flows /\ Tells /\ Asks /\ Produced \in Nat /\ emitting = Produced /\ emitting # NoChunk
      /\ emitting' = NoChunk /\ run = "running" /\ UNCHANGED <<run, registered, loaded, shown, tail>>
  BY Sizes DEF OutputInv, EmitsChunk, page, store, Flows, Tells
<1>2. Produced' = Produced /\ Produced > 0
  BY <1>1 DEF Produced, NoChunk
<1>3. Pending = OutChunks \cup {Produced} /\ Pending = Due..Produced /\ Due \in 1..Produced + 1
  BY <1>1 DEF Flows, Pending
<1>4. CASE loaded
  <2> DEFINE e == Output(emitting)
  <2>1. e \in Telling /\ e.chunk = Produced /\ e.state = "none"
    BY <1>1, Tellings DEF Output, EventsSay
  <2> HIDE DEF e
  <2>2. events \in Seq(Telling) /\ events' = Append(events, e)
    BY <1>1, <1>4, <2>1, EmitAppends DEF EmitsChunk, EventsSay, e
  <2>3. \A i \in DOMAIN events' : \/ i \in DOMAIN events /\ events'[i] = events[i]
                                  \/ i = Len(events) + 1 /\ events'[i] = e
    BY <2>1, <2>2, Appended
  <2>4. \A i \in DOMAIN events : i \in DOMAIN events' /\ events'[i] = events[i] /\ i \in Nat /\ i < Len(events) + 1
    BY <2>2
  <2>5. Len(events) + 1 \in DOMAIN events' /\ events'[Len(events) + 1] = e
    BY <2>2
  <2>6. OutChunks' = OutChunks \cup {Produced}
    <3>1. OutChunks' \subseteq OutChunks \cup {Produced}
      BY <2>1, <2>3 DEF OutChunks
    <3>2. OutChunks \subseteq OutChunks'
      BY <2>4 DEF OutChunks
    <3>3. Produced \in OutChunks'
      BY <1>2, <2>1, <2>5 DEF OutChunks, NoChunk
    <3> QED BY <3>1, <3>2, <3>3
  <2>7. Pending' = Due..Produced' /\ Pending' = Pending
    BY <1>1, <1>2, <1>3, <2>6 DEF Pending
  <2>8. Due' = Due /\ Due' \in 1..Produced' + 1 /\ Pending' = Due'..Produced'
    BY <1>1, <1>2, <1>3, <2>7, NewDue
  <2>9. ASSUME NEW i \in DOMAIN events', NEW j \in DOMAIN events', i < j, events'[i].chunk # NoChunk, events'[j].chunk # NoChunk
        PROVE  events'[i].chunk < events'[j].chunk
    <3>1. i \in DOMAIN events /\ events'[i] = events[i]
      BY <2>2, <2>3, <2>9
    <3>2. CASE j \in DOMAIN events /\ events'[j] = events[j]
      BY <1>1, <2>9, <3>1, <3>2 DEF Flows
    <3>3. CASE events'[j] = e
      <4>1. events[i].chunk \in OutChunks /\ Produced \notin OutChunks
        BY <1>1, <2>9, <3>1 DEF OutChunks, Flows
      <4>2. events[i].chunk \in Due..Produced /\ events[i].chunk # Produced
        BY <1>3, <4>1
      <4> QED BY <1>1, <1>3, <2>1, <3>1, <3>3, <4>2
    <3> QED BY <2>3, <3>2, <3>3
  <2>10. Flows'
    BY <1>1, <1>2, <1>4, <2>8, <2>9 DEF Flows
  <2>11. ASSUME NEW i \in DOMAIN events'
         PROVE  /\ events'[i].state # "ended"
                /\ events'[i].state = "live" => Due' = 1 /\ \A j \in DOMAIN events' : events'[j].chunk # NoChunk => i < j
    <3>1. CASE i \in DOMAIN events /\ events'[i] = events[i]
      <4>1. events[i].state # "ended" /\ (events[i].state = "live" => Due = 1 /\ \A j \in DOMAIN events : events[j].chunk # NoChunk => i < j)
        BY <1>1, <3>1 DEF Tells
      <4> QED BY <2>3, <2>4, <2>8, <3>1, <4>1
    <3>2. CASE events'[i] = e
      BY <2>1, <3>2
    <3> QED BY <2>3, <3>1, <3>2
  <2>12. Tells'
    BY <1>1, <2>11 DEF Tells
  <2> QED BY <1>2, <2>7, <2>8, <2>10, <2>12
<1>5. CASE ~loaded
  <2>1. events = <<>> /\ events' = <<>> /\ shown = "none"
    BY <1>1, <1>5 DEF EmitsChunk, Emit, Flows, Asks
  <2>2. Pending' = (Produced' + 1)..Produced' /\ OutChunks' = {}
    BY <1>1, <1>2, <2>1 DEF Pending, OutChunks
  <2>3. Due' \in 1..Produced' + 1 /\ Pending' = Due'..Produced'
    BY <1>1, <1>2, <2>2, NewDue
  <2>4. Flows'
    BY <1>1, <1>2, <2>1, <2>2, <2>3 DEF Flows
  <2>5. Tells'
    BY <1>1, <2>1 DEF Tells
  <2> QED BY <1>2, <1>5, <2>4, <2>5
<1> QED BY <1>4, <1>5

LEMMA EndFlows ==
  ASSUME OutputInv, TellsEnd
  PROVE  Flows' /\ Tells' /\ Due' = Due /\ Produced' = Produced /\ Pending' = Pending
<1>1. /\ EventsSay /\ Flows /\ Tells /\ Asks /\ Produced \in Nat /\ run = "leaving" /\ run' = "ended"
      /\ UNCHANGED <<registered, loaded, shown, tail, emitting>>
  BY Sizes DEF OutputInv, TellsEnd, page, store
<1>2. \A i \in DOMAIN events : events[i].state # "ended"
  BY <1>1 DEF Tells
<1>3. CASE ~loaded
  <2>1. events' = events
    BY <1>1, <1>3 DEF TellsEnd, Emit
  <2>2. Produced' = Produced /\ OutChunks' = OutChunks
    BY <1>1, <2>1 DEF Produced, OutChunks
  <2>3. Pending' = Pending
    BY <1>1, <2>2 DEF Pending
  <2>4. Due' = Due
    BY <2>2, <2>3 DEF Due
  <2>5. Flows'
    BY <1>1, <2>1, <2>2, <2>3, <2>4 DEF Flows
  <2>6. events = <<>> /\ shown = "none"
    BY <1>1, <1>3 DEF Flows, Asks
  <2>7. Tells'
    BY <1>1, <2>1, <2>6 DEF Tells
  <2> QED BY <2>2, <2>3, <2>4, <2>5, <2>7
<1>4. CASE loaded
  <2> DEFINE e == Status("ended")
  <2>1. e \in Telling /\ e.chunk = NoChunk /\ e.state = "ended"
    BY Tellings DEF Status
  <2> HIDE DEF e
  <2>2. events \in Seq(Telling) /\ events' = Append(events, e)
    <3>1. Emit(<<Status("ended")>>)
      BY DEF TellsEnd
    <3> QED BY <1>1, <1>4, <2>1, <3>1, EmitAppends DEF EventsSay, e
  <2>3. \A i \in DOMAIN events' : \/ i \in DOMAIN events /\ events'[i] = events[i] /\ i \in Nat /\ i < Len(events) + 1
                                  \/ i = Len(events) + 1 /\ events'[i] = e
    BY <2>1, <2>2, Appended
  <2>4. \A i \in DOMAIN events : i \in DOMAIN events' /\ events'[i] = events[i]
    BY <2>1, <2>2, Appended
  <2>5. OutChunks' = OutChunks
    BY <2>1, <2>3, <2>4 DEF OutChunks
  <2>6. Due' = Due /\ Produced' = Produced /\ Pending' = Pending
    BY <1>1, <2>5 DEF Due, Pending, Produced
  <2>7. Flows'
    BY <1>1, <1>4, <2>1, <2>3, <2>5, <2>6 DEF Flows
  <2>8. \A i \in DOMAIN events' : events'[i].state = "live" =>
          Due' = 1 /\ \A j \in DOMAIN events' : events'[j].chunk # NoChunk => i < j
    BY <1>1, <2>1, <2>3, <2>6 DEF Tells
  <2>9. \A i \in DOMAIN events' : events'[i].state = "ended" =>
          \A j \in DOMAIN events' : events'[j].chunk # NoChunk \/ events'[j].state = "live" => j < i
    BY <1>2, <2>1, <2>3
  <2>10. shown # "ended"
    BY <1>1 DEF Tells
  <2> QED BY <1>1, <2>6, <2>7, <2>8, <2>9, <2>10 DEF Tells
<1> QED BY <1>3, <1>4

\* The chunk handled is the one that was due.
LEMMA HandlesFlows ==
  ASSUME OutputInv, HandlesEvent
  PROVE  /\ Flows' /\ Tells' /\ Produced' = Produced /\ loaded
         /\ \/ /\ Head(events).chunk # NoChunk /\ Head(events).chunk = Due /\ Due \in Pending
               /\ Due' = Due + 1 /\ Pending' = Pending \ {Due}
            \/ Head(events).chunk = NoChunk /\ Due' = Due /\ Pending' = Pending
<1>1. /\ EventsSay /\ Flows /\ Tells /\ Asks /\ Produced \in Nat /\ events # <<>> /\ events' = Tail(events)
      /\ UNCHANGED <<run, registered, loaded, tail, emitting, closed>> /\ loaded
  BY Sizes DEF OutputInv, HandlesEvent, page, service, Flows
<1>2. /\ events \in Seq(Telling) /\ 1 \in DOMAIN events /\ Head(events) = events[1]
      /\ \A i \in DOMAIN events' : i \in Nat /\ i + 1 \in DOMAIN events /\ events'[i] = events[i + 1]
      /\ \A i \in DOMAIN events : i = 1 \/ (i - 1 \in DOMAIN events' /\ events'[i - 1] = events[i])
      /\ \A i \in DOMAIN events' : i >= 1
  BY <1>1, Shifted DEF EventsSay
<1>3. \A i \in DOMAIN events : events[i].chunk \in Nat /\ (events[i].chunk = NoChunk => events[i].state \in {"live", "ended"})
  BY <1>2 DEF Telling, Event, Says
<1>4. Produced' = Produced
  BY <1>1 DEF Produced
<1>5. Pending = Due..Produced /\ Due \in 1..Produced + 1
  BY <1>1 DEF Flows
<1> DEFINE c == Head(events).chunk
<1>6. c = NoChunk => OutChunks' = OutChunks
  BY <1>2 DEF OutChunks
<1>7. c # NoChunk => OutChunks' = OutChunks \ {c} /\ c \in OutChunks /\ \A d \in OutChunks : c <= d
  <2> SUFFICES ASSUME c # NoChunk
               PROVE  OutChunks' = OutChunks \ {c} /\ c \in OutChunks /\ \A d \in OutChunks : c <= d
    OBVIOUS
  <2>1. c \in OutChunks /\ c \in Nat
    BY <1>2, <1>3 DEF OutChunks
  <2>2. ASSUME NEW i \in DOMAIN events, i # 1, events[i].chunk # NoChunk PROVE c < events[i].chunk
    <3>1. 1 < i
      BY <1>2, <2>2
    <3> QED BY <1>1, <1>2, <2>2, <3>1 DEF Flows
  <2>3. \A d \in OutChunks : c <= d
    <3>1. SUFFICES ASSUME NEW i \in DOMAIN events, events[i].chunk # NoChunk PROVE c <= events[i].chunk
      BY DEF OutChunks
    <3>2. CASE i = 1
      BY <1>2, <2>1, <3>2
    <3>3. CASE i # 1
      BY <1>3, <2>1, <2>2, <3>1, <3>3
    <3> QED BY <3>2, <3>3
  <2>4. ASSUME NEW d \in OutChunks' PROVE d \in OutChunks /\ d # c
    <3>1. PICK i \in DOMAIN events' : d = events'[i].chunk /\ d # NoChunk
      BY <2>4 DEF OutChunks
    <3>2. i + 1 \in DOMAIN events /\ i + 1 # 1 /\ d = events[i + 1].chunk
      BY <1>2, <3>1
    <3>3. c < d
      BY <2>2, <3>1, <3>2
    <3> QED BY <1>3, <2>1, <3>1, <3>2, <3>3 DEF OutChunks
  <2>5. ASSUME NEW d \in OutChunks, d # c PROVE d \in OutChunks'
    <3>1. PICK i \in DOMAIN events : d = events[i].chunk /\ d # NoChunk
      BY DEF OutChunks
    <3>2. i # 1
      BY <1>2, <2>5, <3>1
    <3>3. i - 1 \in DOMAIN events' /\ d = events'[i - 1].chunk
      BY <1>2, <3>1, <3>2
    <3> QED BY <3>1, <3>3 DEF OutChunks
  <2> QED BY <2>1, <2>3, <2>4, <2>5
<1>8. c # NoChunk => c = Due /\ Due \in Pending /\ Pending' = Pending \ {Due}
  <2> SUFFICES ASSUME c # NoChunk PROVE c = Due /\ Due \in Pending /\ Pending' = Pending \ {Due}
    OBVIOUS
  <2>1. c \in Pending /\ \A d \in Pending : c <= d
    <3>1. c \in Due..Produced
      BY <1>5, <1>7 DEF Pending
    <3>2. emitting # NoChunk => emitting = Produced
      BY <1>1 DEF Flows
    <3> QED BY <1>5, <1>7, <3>1, <3>2 DEF Pending
  <2>2. c = Due
    <3>1. c \in Due..Produced /\ Due \in Due..Produced
      BY <1>1, <1>5, <2>1
    <3> QED BY <1>1, <1>5, <2>1, <3>1
  <2>3. emitting # NoChunk => emitting # c
    BY <1>1, <1>7 DEF Flows
  <2> QED BY <1>1, <1>7, <2>1, <2>2, <2>3 DEF Pending
<1>9. c = NoChunk => Pending' = Pending
  BY <1>1, <1>6 DEF Pending
<1>10. /\ Due' \in 1..Produced' + 1 /\ Pending' = Due'..Produced'
       /\ Due' = IF c # NoChunk THEN Due + 1 ELSE Due
  <2>1. CASE c # NoChunk
    <3>1. Pending' = (Due + 1)..Produced' /\ Due + 1 \in 1..Produced' + 1
      <4>1. Due \in Due..Produced /\ Pending' = (Due..Produced) \ {Due}
        BY <1>5, <1>8, <2>1
      <4>2. (Due..Produced) \ {Due} = (Due + 1)..Produced
        BY <1>1, <1>5
      <4> QED BY <1>1, <1>4, <1>5, <4>1, <4>2
    <3> QED BY <1>1, <1>4, <2>1, <3>1, NewDue
  <2>2. CASE c = NoChunk
    BY <1>1, <1>4, <1>5, <1>9, <2>2, NewDue
  <2> QED BY <2>1, <2>2
<1>11. Flows'
  <2>1. \A i, j \in DOMAIN events' : i < j /\ events'[i].chunk # NoChunk /\ events'[j].chunk # NoChunk
                                     => events'[i].chunk < events'[j].chunk
    BY <1>1, <1>2 DEF Flows
  <2>2. emitting' # NoChunk => emitting' \notin OutChunks'
    BY <1>1, <1>6, <1>7 DEF Flows
  <2> QED BY <1>1, <1>4, <1>10, <2>1, <2>2 DEF Flows
<1>12. ASSUME NEW i \in DOMAIN events', events'[i].state = "live"
       PROVE  c = NoChunk /\ Due = 1 /\ \A j \in DOMAIN events' : events'[j].chunk # NoChunk => i < j
  <2>1. i + 1 \in DOMAIN events /\ events[i + 1].state = "live" /\ i \in Nat /\ i >= 1
    BY <1>2, <1>12
  <2>2. Due = 1 /\ \A j \in DOMAIN events : events[j].chunk # NoChunk => i + 1 < j
    BY <1>1, <2>1 DEF Tells
  <2>3. c = NoChunk
    BY <1>2, <2>1, <2>2
  <2> QED BY <1>2, <2>1, <2>2, <2>3
<1>13. ASSUME NEW i \in DOMAIN events', events'[i].state = "ended"
       PROVE  run = "ended" /\ \A j \in DOMAIN events' : events'[j].chunk # NoChunk \/ events'[j].state = "live" => j < i
  <2>1. i + 1 \in DOMAIN events /\ events[i + 1].state = "ended" /\ i \in Nat
    BY <1>2, <1>13
  <2>2. run = "ended" /\ \A j \in DOMAIN events : events[j].chunk # NoChunk \/ events[j].state = "live" => j < i + 1
    BY <1>1, <2>1 DEF Tells
  <2> QED BY <1>2, <2>1, <2>2
<1>14. ASSUME shown' = "ended"
       PROVE  run = "ended" /\ Pending' = {} /\ \A i \in DOMAIN events' : events'[i].state # "live"
  <2>1. CASE shown = "ended"
    BY <1>1, <1>2, <1>8, <1>9, <2>1 DEF Tells
  <2>2. CASE shown # "ended"
    <3>1. c = NoChunk /\ events[1].state = "ended"
      BY <1>2, <1>14, <2>2 DEF HandlesEvent, SetStatus
    <3>2. run = "ended" /\ \A j \in DOMAIN events : events[j].chunk # NoChunk \/ events[j].state = "live" => j < 1
      BY <1>1, <1>2, <3>1 DEF Tells
    <3>3. OutChunks = {} /\ emitting = NoChunk
      BY <1>1, <1>2, <3>2 DEF OutChunks, Tells
    <3> QED BY <1>2, <1>9, <3>1, <3>2, <3>3 DEF Pending
  <2> QED BY <2>1, <2>2
<1>15. Tells'
  BY <1>1, <1>10, <1>12, <1>13, <1>14 DEF Tells
<1> QED BY <1>1, <1>4, <1>8, <1>9, <1>10, <1>11, <1>15

\* What is not yet handled is only that, unless a chunk is handled or the window that would is reloaded or not there.
SameFlow == UNCHANGED <<tail, emitting, events, loaded>>

LEMMA SameFlows ==
  ASSUME EventsSay, Flows, SameFlow
  PROVE  Flows' /\ Due' = Due /\ Produced' = Produced /\ Pending' = Pending
BY DEF SameFlow, Flows, Due, Pending, OutChunks, Produced

LEMMA ReloadFlows ==
  ASSUME OutputInv, Reload
  PROVE  Flows' /\ Tells' /\ Produced' = Produced
<1>1. /\ EventsSay /\ Flows /\ Tells /\ Produced \in Nat /\ events' = <<>> /\ shown' = "none"
      /\ UNCHANGED <<run, registered, tail, emitting>>
  BY Sizes DEF OutputInv, Reload, service
<1>2. OutChunks' = {} /\ Produced' = Produced
  BY <1>1 DEF OutChunks, Produced
<1>3. Pending' = {emitting} \ {NoChunk} /\ emitting \in {NoChunk, Produced}
  BY <1>1, <1>2 DEF Pending, Flows
<1>4. Due' \in 1..Produced' + 1 /\ Pending' = Due'..Produced'
  <2>1. CASE emitting = NoChunk
    <3>1. Pending' = (Produced' + 1)..Produced'
      BY <1>1, <1>2, <1>3, <2>1
    <3> QED BY <1>1, <1>2, <3>1, NewDue
  <2>2. CASE emitting # NoChunk
    <3>1. Pending' = Produced'..Produced' /\ Produced' \in 1..Produced' + 1
      BY <1>1, <1>2, <1>3, <2>2 DEF NoChunk
    <3> QED BY <1>1, <1>2, <3>1, NewDue
  <2> QED BY <2>1, <2>2
<1>5. Flows'
  BY <1>1, <1>2, <1>4 DEF Flows
<1> QED BY <1>1, <1>2, <1>5 DEF Tells

LEMMA LoadsFlows ==
  ASSUME OutputInv, Loads
  PROVE  Flows' /\ Tells' /\ Due' = Due /\ Produced' = Produced /\ Pending' = Pending
<1>1. /\ Flows /\ Tells /\ UNCHANGED <<run, registered, tail, emitting, events, shown>>
  BY DEF OutputInv, Loads, service, store
<1>2. Due' = Due /\ Produced' = Produced /\ Pending' = Pending /\ OutChunks' = OutChunks
  BY <1>1 DEF Due, Pending, OutChunks, Produced
<1>3. loaded' = TRUE
  BY DEF Loads
<1> QED BY <1>1, <1>2, <1>3 DEF Flows, Tells

\* The steps that leave the events alone.
Quiet == \/ Exits \/ StopShell \/ ShellStatuses \/ ShellTail \/ HandlesStatuses \/ RestoreSession
         \/ UserCloses \/ UserTypes \/ UNCHANGED vars
         \/ \E w \in writes : WriteShell(w) \/ WriteEnds(w)

LEMMA QuietFlows ==
  ASSUME OutputInv, Quiet
  PROVE  Flows' /\ Tells' /\ Due' = Due /\ Produced' = Produced /\ Pending' = Pending /\ loaded' = loaded
<1>1. EventsSay /\ Flows /\ Tells /\ Asks
  BY DEF OutputInv
<1>2. SameFlow
  BY DEF SameFlow, Quiet, Exits, StopShell, ShellStatuses, ShellTail, HandlesStatuses, RestoreSession, UserCloses,
         UserTypes, vars, WriteShell, WriteEnds, service, page
<1>3. Flows' /\ Due' = Due /\ Produced' = Produced /\ Pending' = Pending
  BY <1>1, <1>2, SameFlows
<1>4. /\ shown' = "ended" => shown = "ended"
      /\ \/ run' = run /\ (registered' => registered)
         \/ run = "running" /\ emitting = NoChunk /\ run' = "leaving" /\ registered' = FALSE
  BY DEF Quiet, Exits, StopShell, ShellStatuses, ShellTail, HandlesStatuses, RestoreSession, UserCloses,
         UserTypes, vars, WriteShell, WriteEnds, service, store, SetStatus
<1>5. Tells'
  BY <1>1, <1>2, <1>3, <1>4 DEF Tells, SameFlow
<1> QED BY <1>2, <1>3, <1>5 DEF SameFlow

LEMMA FlowsStep ==
  ASSUME OutputInv, [Next]_vars
  PROVE  Flows' /\ Tells'
BY KeepsFlows, EmitsFlows, EndFlows, HandlesFlows, ReloadFlows, LoadsFlows, QuietFlows DEF Next, Quiet

LEMMA AsksStep ==
  ASSUME OutputInv, [Next]_vars
  PROVE  Asks'
<1>1. EventsSay /\ Flows /\ Tells /\ Asks
  BY DEF OutputInv
<1>2. CASE Keeps \/ EmitsChunk \/ Exits \/ TellsEnd \/ StopShell \/ UserTypes \/ UNCHANGED vars
           \/ \E w \in writes : WriteShell(w) \/ WriteEnds(w)
  <2>1. /\ UNCHANGED <<window, loaded, shown, closed, statuses, tailCall, restoring, queuedOut>>
        /\ registered' => registered
    BY <1>2 DEF Keeps, EmitsChunk, Exits, TellsEnd, StopShell, UserTypes, vars, WriteShell, WriteEnds,
                page, store, calls, output, service
  <2> QED BY <1>1, <2>1 DEF Asks
<1>3. CASE ShellStatuses
  BY <1>1, <1>3 DEF ShellStatuses, Asks, page, store, output, service
<1>4. CASE ShellTail
  BY <1>1, <1>4 DEF ShellTail, Asks, page, store, output, service
<1>5. CASE HandlesEvent
  <2>1. /\ UNCHANGED <<window, loaded, closed, statuses, tailCall, restoring, registered>>
        /\ loaded /\ events # <<>>
    BY <1>1, <1>5 DEF HandlesEvent, Flows, page, calls, service
  <2>2. ~restoring => queuedOut' = queuedOut
    BY <1>5 DEF HandlesEvent, WriteSessionOutput
  <2>3. CASE Head(events).chunk # NoChunk
    <3>1. shown' = shown
      BY <1>5, <2>3 DEF HandlesEvent
    <3> QED BY <1>1, <2>1, <2>2, <3>1 DEF Asks
  <2>4. CASE Head(events).chunk = NoChunk
    <3>1. events \in Seq(Telling) /\ Head(events) = events[1] /\ 1 \in DOMAIN events /\ Head(events) \in Telling
      BY <1>1, <2>1 DEF EventsSay
    <3>2. Head(events).state \in {"live", "ended"}
      BY <2>4, <3>1 DEF Telling, Event, Says
    <3>3. Head(events).state = "ended" => ~registered
      BY <1>1, <3>1 DEF Tells
    <3>4. shown' = IF closed THEN shown ELSE Head(events).state
      BY <1>5, <2>4 DEF HandlesEvent, SetStatus
    <3> QED BY <1>1, <2>1, <2>2, <3>2, <3>3, <3>4 DEF Asks
  <2> QED BY <2>3, <2>4
<1>6. CASE HandlesStatuses
  <2>1. loaded /\ window # 1 /\ UNCHANGED <<window, loaded, closed, registered>> /\ statuses' = "idle"
    BY <1>1, <1>6 DEF HandlesStatuses, Asks, page, service
  <2>2. CASE statuses = "absent" /\ UNCHANGED <<shown, tailCall, output>>
    BY <1>1, <2>1, <2>2 DEF Asks, output
  <2>3. CASE SetStatus("live") /\ restoring' = TRUE /\ queuedOut' = <<>> /\ tailCall' = "asked"
    BY <1>1, <2>1, <2>3 DEF Asks, SetStatus
  <2> QED BY <1>6, <2>2, <2>3 DEF HandlesStatuses
<1>7. CASE RestoreSession
  BY <1>1, <1>7 DEF RestoreSession, Asks, page, service
<1>8. CASE Reload
  <2>1. window' \in Nat \ {0} /\ window' # 1
    BY <1>1, <1>8 DEF Reload, Asks
  <2> QED BY <1>8, <2>1 DEF Reload, Asks
<1>9. CASE Loads
  BY <1>1, <1>9 DEF Loads, Asks, store, output, service
<1>10. CASE UserCloses
  BY <1>1, <1>10 DEF UserCloses, Asks, page, calls, output, service
<1> QED BY <1>2, <1>3, <1>4, <1>5, <1>6, <1>7, <1>8, <1>9, <1>10 DEF Next

\* An empty screen is in order.
LEMMA EmptyDrawn ==
  ASSUME screen' = <<>>, shown' # "live"
  PROVE  Fresh' /\ Drawing'
<1>1. DOMAIN screen' = {} /\ Len(screen') = 0
  OBVIOUS
<1>2. Laid(0, 0, 1)'
  BY <1>1 DEF Laid
<1>3. Fresh'
  BY <1>1 DEF Fresh
<1> QED BY <1>2, <1>3 DEF Drawing

\* Steps that draw nothing and show nothing.
LEMMA StillDrawn ==
  ASSUME OutputInv, loaded, Due' = Due, Produced \in Nat, Produced' \in {Produced, Produced + 1}, registered' => registered,
         UNCHANGED <<screen, shown, output, tailCall, tailRead, statuses, window, loaded>>
  PROVE  DrawnInOrder'
<1>1. DrawnInOrder /\ UNCHANGED <<restoring, queuedOut>>
  BY DEF OutputInv, output
<1>2. Fresh => Fresh'
  BY DEF Fresh
<1>3. Drawing => Drawing'
  BY DEF Drawing, Laid
<1>4. Waits => Waits'
  <2> SUFFICES ASSUME Waits PROVE Waits'
    OBVIOUS
  <2>1. PICK q \in Nat \ {0} :
              /\ q + Len(queuedOut) = Due /\ (screen = <<>> \/ q = Len(screen) + 1)
              /\ \A i \in DOMAIN queuedOut : queuedOut[i] = q + i - 1
              /\ tailCall = "read" => /\ \A i \in DOMAIN tailRead : tailRead[i] = i
                                      /\ q <= Len(tailRead) + 1 /\ Len(tailRead) <= Produced
              /\ tailCall = "failed" => tailRead = <<>>
    BY DEF Waits
  <2>2. Len(tailRead) <= Produced => Len(tailRead) <= Produced'
    BY <1>1 DEF DrawnInOrder
  <2> QED BY <1>1, <2>1, <2>2 DEF Waits
<1> QED BY <1>1, <1>2, <1>3, <1>4 DEF DrawnInOrder

LEMMA ChunkDrawn ==
  ASSUME OutputInv, HandlesEvent, Head(events).chunk # NoChunk
  PROVE  DrawnInOrder'
<1>1. /\ EventsSay /\ Flows /\ Tells /\ Asks /\ DrawnInOrder /\ TerminalGoes /\ Produced \in Nat
      /\ UNCHANGED <<shown, statuses, tailCall, tailRead, window, loaded, registered, restoring>>
  BY Sizes DEF OutputInv, HandlesEvent, page, calls, service
<1>2. loaded /\ Head(events).chunk = Due /\ Due \in Pending /\ Due' = Due + 1 /\ Produced' = Produced
  BY HandlesFlows DEF NoChunk
<1>3. Due \in Nat \ {0}
  BY <1>1 DEF Flows
<1>4. WriteSessionOutput(Due)
  BY <1>2 DEF HandlesEvent
<1>5. /\ screen \in Seq(Nat) /\ queuedOut \in Seq(Nat) /\ tailRead \in Seq(Nat)
      /\ (window = 1 \/ statuses # "idle" => Fresh) /\ IF restoring THEN Waits ELSE Drawing
  BY <1>1 DEF DrawnInOrder
<1>6. CASE restoring
  <2>1. queuedOut' = Append(queuedOut, Due) /\ screen' = screen
    BY <1>4, <1>6 DEF WriteSessionOutput
  <2>2. /\ queuedOut' \in Seq(Nat) /\ Len(queuedOut') = Len(queuedOut) + 1 /\ Len(queuedOut) \in Nat
        /\ \A i \in DOMAIN queuedOut' : \/ i \in DOMAIN queuedOut /\ queuedOut'[i] = queuedOut[i]
                                        \/ i = Len(queuedOut) + 1 /\ queuedOut'[i] = Due
    BY <1>3, <1>5, <2>1, Appended
  <2>3. PICK q \in Nat \ {0} :
              /\ q + Len(queuedOut) = Due /\ (screen = <<>> \/ q = Len(screen) + 1)
              /\ \A i \in DOMAIN queuedOut : queuedOut[i] = q + i - 1
              /\ tailCall = "read" => /\ \A i \in DOMAIN tailRead : tailRead[i] = i
                                      /\ q <= Len(tailRead) + 1 /\ Len(tailRead) <= Produced
              /\ tailCall = "failed" => tailRead = <<>>
    BY <1>5, <1>6 DEF Waits
  <2>4. \A i \in DOMAIN queuedOut' : queuedOut'[i] = q + i - 1
    <3>1. Due = q + (Len(queuedOut) + 1) - 1
      BY <2>2, <2>3
    <3> QED BY <2>2, <2>3, <3>1
  <2>5. q + Len(queuedOut') = Due'
    BY <1>2, <2>2, <2>3
  <2>6. \A i \in DOMAIN screen' : screen'[i] = i
    BY <1>5, <1>6, <2>1 DEF Waits
  <2>7. Waits'
    BY <1>1, <1>2, <2>1, <2>3, <2>4, <2>5, <2>6 DEF Waits
  <2>8. ~(window = 1 \/ statuses # "idle" \/ ~loaded)
    BY <1>1, <1>2, <1>6 DEF Asks
  <2> QED BY <1>1, <1>5, <1>6, <2>1, <2>2, <2>7, <2>8 DEF DrawnInOrder
<1>7. CASE ~restoring /\ shown = "none"
  <2>1. screen' = <<>> /\ shown' = "none" /\ queuedOut' = queuedOut
    BY <1>1, <1>4, <1>7 DEF WriteSessionOutput, Drawn, IsOpen, TerminalGoes
  <2>2. Fresh' /\ Drawing'
    BY <2>1, EmptyDrawn
  <2>3. screen' \in Seq(Nat)
    BY <2>1
  <2> QED BY <1>1, <1>5, <1>7, <2>1, <2>2, <2>3 DEF DrawnInOrder
<1>8. CASE ~restoring /\ shown = "live"
  <2>1. screen' = screen \o <<Due>> /\ queuedOut' = queuedOut
    BY <1>4, <1>8 DEF WriteSessionOutput, Drawn, IsOpen
  <2>2. screen' = Append(screen, Due)
    BY <1>3, <1>5, <2>1
  <2>3. /\ screen' \in Seq(Nat) /\ Len(screen') = Len(screen) + 1 /\ Len(screen) \in Nat
        /\ \A i \in DOMAIN screen' : \/ i \in DOMAIN screen /\ screen'[i] = screen[i]
                                     \/ i = Len(screen) + 1 /\ screen'[i] = Due
    BY <1>3, <1>5, <2>2, Appended
  <2>4. Fresh => Fresh'
    BY <1>2, <1>3, <1>8, <2>3 DEF Fresh
  <2>5. Drawing'
    <3>1. PICK m \in Nat, t \in Nat, q \in Nat \ {0} : Laid(m, t, q)
      BY <1>5, <1>8 DEF Drawing
    <3>2. q + Len(screen) - m - t = Due /\ m + t <= Len(screen)
      BY <1>8, <3>1 DEF Laid
    <3>3. q + Len(screen') - m - t = Due' /\ m + t <= Len(screen')
      BY <1>2, <2>3, <3>2
    <3>4. ASSUME NEW i \in DOMAIN screen'
          PROVE  screen'[i] = IF i <= m THEN i ELSE IF i <= m + t THEN i - m ELSE q + i - m - t - 1
      <4>1. CASE i \in DOMAIN screen /\ screen'[i] = screen[i]
        BY <3>1, <4>1 DEF Laid
      <4>2. CASE i = Len(screen) + 1 /\ screen'[i] = Due
        BY <2>3, <3>2, <4>2
      <4> QED BY <2>3, <4>1, <4>2
    <3>5. Laid(m, t, q)'
      BY <1>1, <3>1, <3>3, <3>4 DEF Laid
    <3> QED BY <3>5 DEF Drawing
  <2> QED BY <1>1, <1>2, <1>5, <1>8, <2>1, <2>3, <2>4, <2>5 DEF DrawnInOrder
<1>9. CASE ~restoring /\ shown = "ended"
  BY <1>1, <1>2, <1>9 DEF Tells
<1> QED BY <1>1, <1>6, <1>7, <1>8, <1>9 DEF Asks

LEMMA StatusDrawn ==
  ASSUME OutputInv, HandlesEvent, Head(events).chunk = NoChunk
  PROVE  DrawnInOrder'
<1>1. /\ EventsSay /\ Flows /\ Tells /\ Asks /\ DrawnInOrder /\ TerminalGoes /\ Produced \in Nat /\ events # <<>>
      /\ UNCHANGED <<screen, queuedOut, statuses, tailCall, tailRead, window, loaded, registered, restoring>>
      /\ shown' = IF closed THEN shown ELSE Head(events).state
  BY Sizes DEF OutputInv, HandlesEvent, SetStatus, page, calls, service
<1>2. loaded /\ Due' = Due /\ Produced' = Produced
  BY HandlesFlows
<1>3. 1 \in DOMAIN events /\ Head(events) = events[1]
  BY <1>1 DEF EventsSay
<1>4. shown' = "live" => shown = "live" \/ Due = 1
  BY <1>1, <1>3 DEF Tells
<1>5. Waits => Waits'
  BY <1>1, <1>2 DEF Waits
<1>6. Fresh => Fresh'
  <2>1. screen = <<>> => Len(screen) = 0
    OBVIOUS
  <2> QED BY <1>1, <1>2, <1>4, <2>1 DEF Fresh
<1>7. Drawing => Drawing'
  <2>1. CASE screen = <<>> /\ shown # "live"
    <3>1. DOMAIN screen' = {} /\ Len(screen') = 0
      BY <1>1, <2>1
    <3>2. Laid(0, 0, 1)'
      BY <1>1, <1>2, <1>4, <2>1, <3>1 DEF Laid
    <3> QED BY <3>2 DEF Drawing
  <2>2. CASE screen # <<>> \/ shown = "live"
    BY <1>1, <1>2, <2>2 DEF Drawing, Laid
  <2> QED BY <2>1, <2>2
<1> QED BY <1>1, <1>5, <1>6, <1>7 DEF DrawnInOrder

LEMMA TailAsked ==
  ASSUME OutputInv, HandlesStatuses
  PROVE  DrawnInOrder'
<1>1. /\ Asks /\ DrawnInOrder /\ Flows /\ UNCHANGED <<screen, tailRead, window, loaded, registered>>
      /\ loaded /\ window # 1 /\ statuses' = "idle" /\ ~restoring
  BY DEF OutputInv, HandlesStatuses, Asks, page, service
<1>2. Due' = Due /\ Produced' = Produced /\ Due \in Nat \ {0}
  BY QuietFlows DEF Quiet, OutputInv, Flows
<1>3. Fresh /\ Drawing
  BY <1>1 DEF DrawnInOrder, HandlesStatuses
<1>4. CASE statuses = "absent" /\ UNCHANGED <<shown, tailCall, output>>
  <2>1. Drawing'
    BY <1>1, <1>2, <1>3, <1>4 DEF Drawing, Laid
  <2> QED BY <1>1, <1>4, <2>1 DEF DrawnInOrder, output
<1>5. CASE restoring' = TRUE /\ queuedOut' = <<>> /\ tailCall' = "asked"
  <2>1. Len(queuedOut') = 0 /\ DOMAIN queuedOut' = {} /\ queuedOut' \in Seq(Nat)
    BY <1>5
  <2>2. screen = <<>> \/ Due = Len(screen) + 1
    BY <1>1, <1>3 DEF Fresh, DrawnInOrder
  <2>3. Waits'
    BY <1>1, <1>2, <1>3, <1>5, <2>1, <2>2 DEF Waits, Fresh
  <2> QED BY <1>1, <1>5, <2>1, <2>3 DEF DrawnInOrder
<1> QED BY <1>4, <1>5 DEF HandlesStatuses

LEMMA TailIsRead ==
  ASSUME OutputInv, ShellTail
  PROVE  DrawnInOrder'
<1>1. /\ EventsSay /\ Flows /\ Asks /\ DrawnInOrder /\ Produced \in Nat
      /\ UNCHANGED <<screen, queuedOut, restoring, shown, statuses, window, loaded>>
      /\ restoring /\ statuses = "idle" /\ loaded /\ window # 1
      /\ tailCall' = IF registered THEN "read" ELSE "failed"
      /\ tailRead' = IF registered THEN tail ELSE <<>>
  BY Sizes DEF OutputInv, ShellTail, Asks, page, store, output
<1>2. Due' = Due /\ Produced' = Produced /\ Due <= Produced + 1 /\ Due \in Nat
  BY <1>1, QuietFlows DEF Quiet, Flows
<1>3. PICK q \in Nat \ {0} : /\ q + Len(queuedOut) = Due /\ (screen = <<>> \/ q = Len(screen) + 1)
                             /\ \A i \in DOMAIN queuedOut : queuedOut[i] = q + i - 1
  BY <1>1 DEF DrawnInOrder, Waits
<1>4. tail \in Seq(Nat) /\ Len(tail) = Produced /\ \A i \in DOMAIN tail : tail[i] = i
  BY <1>1 DEF EventsSay, Flows, Produced
<1>5. q <= Produced + 1
  BY <1>1, <1>2, <1>3 DEF DrawnInOrder
<1>6. (\A i \in DOMAIN screen : screen[i] = i) /\ queuedOut \in Seq(Nat) /\ screen \in Seq(Nat)
  BY <1>1 DEF DrawnInOrder, Waits
<1>7. CASE registered
  <2>1. tailCall' = "read" /\ tailRead' = tail
    BY <1>1, <1>7
  <2>2. /\ \A i \in DOMAIN tailRead' : tailRead'[i] = i
        /\ q <= Len(tailRead') + 1 /\ Len(tailRead') <= Produced'
    BY <1>1, <1>2, <1>4, <1>5, <2>1
  <2>3. Waits'
    BY <1>1, <1>2, <1>3, <1>6, <2>1, <2>2 DEF Waits
  <2> QED BY <1>1, <1>4, <1>6, <2>1, <2>3 DEF DrawnInOrder
<1>8. CASE ~registered
  <2>1. tailCall' = "failed" /\ tailRead' = <<>> /\ tailRead' \in Seq(Nat)
    BY <1>1, <1>8
  <2>2. Waits'
    BY <1>1, <1>2, <1>3, <1>6, <2>1 DEF Waits
  <2> QED BY <1>1, <1>6, <2>1, <2>2 DEF DrawnInOrder
<1> QED BY <1>7, <1>8

\* The tail follows what was drawn, and what waited follows the tail.
LEMMA TailDrawn ==
  ASSUME OutputInv, RestoreSession
  PROVE  DrawnInOrder'
<1>1. /\ EventsSay /\ Flows /\ Asks /\ DrawnInOrder /\ TerminalGoes /\ Produced \in Nat
      /\ UNCHANGED <<shown, statuses, window, loaded, registered>> /\ restoring' = FALSE
      /\ queuedOut' = <<>> /\ tailRead' = <<>> /\ tailCall \in {"failed", "read"} /\ restoring
      /\ statuses = "idle" /\ loaded /\ window # 1
      /\ screen' = Drawn(tailRead \o queuedOut)
  BY Sizes DEF OutputInv, RestoreSession, Asks, page, store, output, service
<1>2. Due' = Due
  BY <1>1, QuietFlows DEF Quiet
<1>3. screen \in Seq(Nat) /\ queuedOut \in Seq(Nat) /\ tailRead \in Seq(Nat) /\ Waits
  BY <1>1 DEF DrawnInOrder
<1>4. queuedOut' \in Seq(Nat) /\ tailRead' \in Seq(Nat)
  BY <1>1
<1>5. CASE shown = "none"
  <2>1. screen' = <<>> /\ shown' # "live" /\ screen' \in Seq(Nat)
    BY <1>1, <1>5 DEF Drawn, IsOpen, TerminalGoes
  <2>2. Drawing'
    BY <2>1, EmptyDrawn
  <2> QED BY <1>1, <1>4, <2>1, <2>2 DEF DrawnInOrder
<1>6. CASE shown # "none"
  <2> DEFINE more == tailRead \o queuedOut
             all == screen \o more
             m == Len(screen)
             t == Len(tailRead)
  <2>1. screen' = all
    BY <1>1, <1>6 DEF Drawn, IsOpen
  <2>2. PICK q \in Nat \ {0} :
              /\ q + Len(queuedOut) = Due /\ (screen = <<>> \/ q = m + 1)
              /\ \A i \in DOMAIN queuedOut : queuedOut[i] = q + i - 1
              /\ tailCall = "read" => /\ \A i \in DOMAIN tailRead : tailRead[i] = i
                                      /\ q <= t + 1 /\ t <= Produced
              /\ tailCall = "failed" => tailRead = <<>>
    BY <1>3 DEF Waits
  <2>3. \A i \in DOMAIN screen : screen[i] = i
    BY <1>3 DEF Waits
  <2>4. /\ more \in Seq(Nat) /\ Len(more) = t + Len(queuedOut) /\ t \in Nat /\ m \in Nat /\ Len(queuedOut) \in Nat
        /\ all \in Seq(Nat) /\ Len(all) = m + Len(more)
    BY <1>3, Concat
  <2>5. \A i \in DOMAIN more : i \in Nat \ {0} /\
            (\/ i <= t /\ i \in DOMAIN tailRead /\ more[i] = tailRead[i]
             \/ i > t /\ i - t \in DOMAIN queuedOut /\ more[i] = queuedOut[i - t])
    BY <1>3, Concat
  <2>6. \A i \in DOMAIN all : i \in Nat \ {0} /\
            (\/ i <= m /\ i \in DOMAIN screen /\ all[i] = screen[i]
             \/ i > m /\ i - m \in DOMAIN more /\ all[i] = more[i - m])
    <3>1. more \in Seq(Nat)
      BY <2>4
    <3> HIDE DEF more
    <3> QED BY <1>3, <3>1, Concat
  <2>7. t = 0 \/ (tailCall = "read" /\ \A i \in DOMAIN tailRead : tailRead[i] = i)
    BY <1>1, <2>2
  <2> HIDE DEF more, all, m, t
  <2>8. ASSUME NEW i \in DOMAIN all
        PROVE  all[i] = IF i <= m THEN i ELSE IF i <= m + t THEN i - m ELSE q + i - m - t - 1
    <3>1. CASE i <= m
      BY <2>3, <2>4, <2>6, <3>1, SMTT(20)
    <3>2. CASE i > m
      <4>1. i - m \in DOMAIN more /\ all[i] = more[i - m] /\ i \in Nat
        BY <2>4, <2>6, <3>2
      <4>2. CASE i - m <= t
        <5>1. i - m \in DOMAIN tailRead /\ more[i - m] = tailRead[i - m] /\ t # 0
          BY <2>4, <2>5, <3>2, <4>1, <4>2
        <5>2. all[i] = i - m
          BY <2>7, <4>1, <5>1
        <5> QED BY <2>4, <3>2, <4>1, <4>2, <5>2
      <4>3. CASE i - m > t
        <5>1. i - m - t \in DOMAIN queuedOut /\ more[i - m] = queuedOut[i - m - t]
          BY <2>4, <2>5, <4>1, <4>3, SMTT(20)
        <5>2. all[i] = q + (i - m - t) - 1
          BY <2>2, <4>1, <5>1
        <5> QED BY <2>4, <3>2, <4>1, <4>3, <5>2
      <4> QED BY <2>4, <4>1, <4>2, <4>3
    <3> QED BY <2>4, <2>6, <3>1, <3>2
  <2>9. m < q
    BY <2>2, <2>4 DEF m
  <2>10. q + Len(all) - m - t = Due /\ m + t <= Len(all)
    BY <1>1, <2>2, <2>4 DEF Flows
  <2>11. q <= t + 1 \/ (t = 0 /\ (m = 0 \/ q = m + 1) /\ ~registered)
    <3>1. CASE tailCall = "read"
      BY <2>2, <3>1
    <3>2. CASE tailCall = "failed"
      <4>1. t = 0 /\ ~registered
        BY <1>1, <2>2, <3>2 DEF t, Asks
      <4>2. m = 0 \/ q = m + 1
        BY <2>2 DEF m
      <4> QED BY <4>1, <4>2
    <3> QED BY <1>1, <3>1, <3>2
  <2>12. PICK a \in Nat, b \in Nat : a = m /\ b = t
    BY <2>4
  <2>13. Laid(a, b, q)'
    <3>1. /\ a + b <= Len(all) /\ a < q
          /\ \A i \in DOMAIN all : all[i] = IF i <= a THEN i ELSE IF i <= a + b THEN i - a ELSE q + i - a - b - 1
          /\ q + Len(all) - a - b = Due
          /\ q <= b + 1 \/ (b = 0 /\ (a = 0 \/ q = a + 1) /\ ~registered)
      BY <2>8, <2>9, <2>10, <2>11, <2>12
    <3>2. /\ a + b <= Len(screen') /\ a < q
          /\ \A i \in DOMAIN screen' : screen'[i] = IF i <= a THEN i ELSE IF i <= a + b THEN i - a ELSE q + i - a - b - 1
          /\ q + Len(screen') - a - b = Due'
          /\ q <= b + 1 \/ (b = 0 /\ (a = 0 \/ q = a + 1) /\ ~registered')
      BY <1>1, <1>2, <2>1, <3>1
    <3> QED BY <3>2 DEF Laid
  <2>14. Drawing'
    BY <2>13 DEF Drawing
  <2> QED BY <1>1, <1>4, <2>1, <2>4, <2>14 DEF DrawnInOrder
<1> QED BY <1>5, <1>6

LEMMA DrawnStep ==
  ASSUME OutputInv, [Next]_vars
  PROVE  DrawnInOrder'
<1>1. /\ EventsSay /\ Flows /\ Tells /\ Asks /\ DrawnInOrder /\ TerminalGoes /\ Produced \in Nat
      /\ \A s : s = <<>> => s \in Seq(Nat)
  <2>1. <<>> \in Seq(Nat)
    OBVIOUS
  <2>2. \A s : s = <<>> => s \in Seq(Nat)
    BY <2>1
  <2> QED BY <2>2, Sizes DEF OutputInv
<1>2. CASE Keeps \/ EmitsChunk \/ TellsEnd \/ Exits \/ StopShell \/ UserTypes \/ UNCHANGED vars
           \/ \E w \in writes : WriteShell(w) \/ WriteEnds(w)
  <2>1. /\ UNCHANGED <<screen, shown, output, tailCall, tailRead, statuses, window, loaded>>
        /\ registered' => registered
    BY <1>2 DEF Keeps, EmitsChunk, Exits, TellsEnd, StopShell, UserTypes, vars, WriteShell, WriteEnds,
                page, store, calls, output, service
  <2>2. CASE loaded
    <3>1. Due' = Due /\ Produced' \in {Produced, Produced + 1}
      BY <1>2, <2>2, KeepsFlows, EmitsFlows, EndFlows, QuietFlows DEF Quiet
    <3> QED BY <1>1, <2>1, <2>2, <3>1, StillDrawn
  <2>3. CASE ~loaded
    <3>1. shown' = "none" /\ screen' = <<>> /\ ~restoring
      BY <1>1, <2>1, <2>3 DEF Asks, TerminalGoes
    <3>2. Fresh' /\ Drawing'
      BY <3>1, EmptyDrawn
    <3> QED BY <1>1, <2>1, <3>1, <3>2 DEF DrawnInOrder, output
  <2> QED BY <2>2, <2>3
<1>3. CASE ShellStatuses
  <2>1. /\ UNCHANGED <<screen, shown, restoring, queuedOut, tailCall, tailRead, window, loaded, registered>>
        /\ Fresh /\ ~restoring
    BY <1>1, <1>3 DEF ShellStatuses, DrawnInOrder, Asks, page, store, output, service
  <2>2. Due' = Due
    BY <1>3, QuietFlows DEF Quiet
  <2>3. Fresh' /\ (Drawing => Drawing')
    BY <2>1, <2>2 DEF Fresh, Drawing, Laid
  <2> QED BY <1>1, <2>1, <2>3 DEF DrawnInOrder
<1>4. CASE HandlesEvent
  BY <1>4, ChunkDrawn, StatusDrawn
<1>5. CASE HandlesStatuses \/ ShellTail \/ RestoreSession
  BY <1>5, TailAsked, TailIsRead, TailDrawn
<1>6. CASE Reload
  <2>1. screen' = <<>> /\ shown' = "none" /\ restoring' = FALSE /\ queuedOut' = <<>> /\ tailRead' = <<>>
    BY <1>6 DEF Reload
  <2>2. Fresh' /\ Drawing'
    BY <2>1, EmptyDrawn
  <2> QED BY <1>1, <2>1, <2>2 DEF DrawnInOrder
<1>7. CASE Loads
  <2>1. UNCHANGED <<screen, shown, restoring, queuedOut, tailRead>> /\ shown = "none" /\ screen = <<>> /\ ~restoring
    BY <1>1, <1>7 DEF Loads, Asks, TerminalGoes, store, output
  <2>2. Fresh' /\ Drawing'
    BY <2>1, EmptyDrawn
  <2> QED BY <1>1, <2>1, <2>2 DEF DrawnInOrder
<1>8. CASE UserCloses
  <2>1. /\ screen' = <<>> /\ shown' = "none"
        /\ UNCHANGED <<restoring, queuedOut, tailCall, tailRead, statuses, window, loaded, registered>>
    BY <1>8 DEF UserCloses, page, calls, output, service
  <2>2. Fresh' /\ Drawing'
    BY <2>1, EmptyDrawn
  <2>3. Due' = Due /\ Produced' = Produced
    BY <1>8, QuietFlows DEF Quiet
  <2>4. DOMAIN screen' = {}
    BY <2>1
  <2>5. Waits => Waits'
    BY <2>1, <2>3, <2>4 DEF Waits
  <2> QED BY <1>1, <2>1, <2>2, <2>5 DEF DrawnInOrder
<1> QED BY <1>2, <1>3, <1>4, <1>5, <1>6, <1>7, <1>8 DEF Next

LEMMA ConcatElements ==
  ASSUME NEW s \in Seq(Nat), NEW t \in Seq(Nat)
  PROVE  Elements(s \o t) = Elements(s) \cup Elements(t)
<1>1. \A i \in DOMAIN s : i \in DOMAIN (s \o t) /\ (s \o t)[i] = s[i]
  OBVIOUS
<1>2. \A i \in DOMAIN t : i + Len(s) \in DOMAIN (s \o t) /\ (s \o t)[i + Len(s)] = t[i]
  OBVIOUS
<1>3. Elements(s \o t) \subseteq Elements(s) \cup Elements(t)
  BY Concat DEF Elements
<1>4. Elements(s) \subseteq Elements(s \o t) /\ Elements(t) \subseteq Elements(s \o t)
  BY <1>1, <1>2 DEF Elements
<1> QED BY <1>3, <1>4

LEMMA NoElements == \A s : s = <<>> => Elements(s) = {}
BY DEF Elements

LEMMA OneElement == \A c \in Nat : <<c>> \in Seq(Nat) /\ Elements(<<c>>) = {c}
BY DEF Elements

LEMMA ChunkMissedNot ==
  ASSUME OutputInv, HandlesEvent, Head(events).chunk # NoChunk
  PROVE  NothingMissed'
<1>1. /\ Flows /\ Tells /\ Asks /\ NothingMissed /\ Produced \in Nat /\ DrawnInOrder
      /\ UNCHANGED <<shown, closed, statuses, tailCall, tailRead, loaded, registered>>
  BY Sizes DEF OutputInv, HandlesEvent, page, calls, service
<1>2. /\ loaded /\ Head(events).chunk = Due /\ Due \in Pending /\ Produced' = Produced
      /\ Pending' = Pending \ {Due}
  BY HandlesFlows DEF NoChunk
<1>3. Due \in 1..Produced /\ Due \in Nat
  BY <1>1, <1>2 DEF Flows
<1>4. WriteSessionOutput(Due) /\ screen \in Seq(Nat) /\ queuedOut \in Seq(Nat)
  BY <1>1, <1>2 DEF HandlesEvent, DrawnInOrder
<1> DEFINE d == <<Due>>
<1>5. d \in Seq(Nat) /\ Elements(d) = {Due}
  BY <1>3, OneElement
<1>6. CASE restoring
  <2>1. queuedOut' = Append(queuedOut, Due) /\ screen' = screen
    BY <1>4, <1>6 DEF WriteSessionOutput
  <2>2. queuedOut' = queuedOut \o d
    BY <1>3, <1>4, <2>1
  <2> HIDE DEF d
  <2>3. Elements(queuedOut') = Elements(queuedOut) \cup {Due}
    BY <1>4, <1>5, <2>2, ConcatElements
  <2> QED BY <1>1, <1>2, <1>3, <2>1, <2>3 DEF NothingMissed, Brought, TailComes
<1>7. CASE ~restoring /\ shown # "none"
  <2>1. screen' = screen \o d /\ queuedOut' = queuedOut
    BY <1>4, <1>7 DEF WriteSessionOutput, Drawn, IsOpen
  <2> HIDE DEF d
  <2>2. Elements(screen') = Elements(screen) \cup {Due}
    BY <1>4, <1>5, <2>1, ConcatElements
  <2> QED BY <1>1, <1>2, <1>3, <2>1, <2>2 DEF NothingMissed, Brought, TailComes
<1>8. CASE ~restoring /\ shown = "none"
  <2>1. screen' = screen /\ queuedOut' = queuedOut
    BY <1>4, <1>8 DEF WriteSessionOutput, Drawn, IsOpen
  <2>2. ~(loaded /\ registered /\ ~closed /\ statuses = "idle")
    BY <1>1, <1>8 DEF Asks
  <2>3. TailComes' <=> TailComes
    BY <1>1 DEF TailComes
  <2>4. ~(loaded' /\ registered' /\ ~closed' /\ ~TailComes')
    <3>1. registered => statuses # "absent"
      BY <1>1 DEF Asks
    <3>2. statuses \in {"idle", "absent", "asked", "present"}
      BY <1>1 DEF Asks
    <3> QED BY <1>1, <2>2, <2>3, <3>1, <3>2 DEF TailComes
  <2> QED BY <1>1, <1>2, <2>1, <2>4 DEF NothingMissed
<1> QED BY <1>6, <1>7, <1>8

LEMMA MissedStep ==
  ASSUME OutputInv, [Next]_vars
  PROVE  NothingMissed'
<1>1. /\ EventsSay /\ Flows /\ Tells /\ Asks /\ DrawnInOrder /\ NothingMissed /\ Produced \in Nat
  BY Sizes DEF OutputInv
<1> DEFINE Screens == <<screen, queuedOut, tailRead, statuses, tailCall, closed>>
<1>2. CASE Keeps
  <2>1. UNCHANGED Screens /\ UNCHANGED <<loaded, registered>>
    BY <1>2 DEF Keeps, page, store, calls, output
  <2>2. Produced' = Produced + 1 /\ Pending' = Pending \cup {Produced'}
    BY <1>2, KeepsFlows
  <2>3. 1..Produced' = (1..Produced) \cup {Produced'}
    BY <1>1, <2>2
  <2> QED BY <1>1, <2>1, <2>2, <2>3 DEF NothingMissed, Brought, TailComes
<1>3. CASE EmitsChunk
  <2>1. UNCHANGED Screens /\ UNCHANGED <<loaded, registered>>
    BY <1>3 DEF EmitsChunk, page, store, calls, output
  <2>2. Produced' = Produced /\ (loaded => Pending' = Pending)
    BY <1>3, EmitsFlows
  <2> QED BY <1>1, <2>1, <2>2 DEF NothingMissed, Brought, TailComes
<1>4. CASE TellsEnd \/ Exits \/ StopShell \/ UserTypes \/ UNCHANGED vars \/ \E w \in writes : WriteShell(w) \/ WriteEnds(w)
  <2>1. UNCHANGED Screens /\ loaded' = loaded /\ (registered' => registered)
    BY <1>4 DEF TellsEnd, Exits, StopShell, UserTypes, vars, WriteShell, WriteEnds, page, store, calls, output, service
  <2>2. Produced' = Produced /\ Pending' = Pending
    BY <1>4, EndFlows, QuietFlows DEF Quiet
  <2> QED BY <1>1, <2>1, <2>2 DEF NothingMissed, Brought, TailComes
<1>5. CASE ShellStatuses
  <2>1. /\ UNCHANGED <<screen, queuedOut, tailRead, tailCall, closed, loaded, registered>> /\ statuses = "asked"
        /\ statuses' = IF registered THEN "present" ELSE "absent"
    BY <1>5 DEF ShellStatuses, page, store, output, service
  <2>2. Produced' = Produced /\ Pending' = Pending
    BY <1>5, QuietFlows DEF Quiet
  <2> QED BY <1>1, <2>1, <2>2 DEF NothingMissed, Brought, TailComes
<1>6. CASE ShellTail
  <2>1. /\ UNCHANGED <<screen, queuedOut, statuses, closed, loaded, registered>>
        /\ tailCall' = IF registered THEN "read" ELSE "failed"
        /\ tailRead' = IF registered THEN tail ELSE <<>>
    BY <1>6 DEF ShellTail, page, store, output, service
  <2>2. Produced' = Produced /\ Pending' = Pending
    BY <1>6, QuietFlows DEF Quiet
  <2>3. Elements(tail) = 1..Produced
    BY <1>1 DEF Elements, EventsSay, Flows, Produced
  <2> QED BY <1>1, <2>1, <2>2, <2>3, NoElements DEF NothingMissed, Brought, TailComes
<1>7. CASE HandlesEvent
  <2>1. CASE Head(events).chunk # NoChunk
    BY <1>7, <2>1, ChunkMissedNot
  <2>2. CASE Head(events).chunk = NoChunk
    <3>1. UNCHANGED Screens /\ UNCHANGED <<loaded, registered>>
      BY <1>7, <2>2 DEF HandlesEvent, page, calls, service
    <3>2. Produced' = Produced /\ Pending' = Pending
      BY <1>7, <2>2, HandlesFlows
    <3> QED BY <1>1, <3>1, <3>2 DEF NothingMissed, Brought, TailComes
  <2> QED BY <2>1, <2>2
<1>8. CASE HandlesStatuses
  <2>1. UNCHANGED <<screen, tailRead, closed, loaded, registered>> /\ statuses \in {"absent", "present"} /\ Produced' = Produced
    BY <1>8, QuietFlows DEF Quiet, HandlesStatuses, page, service
  <2>2. CASE statuses = "absent" /\ UNCHANGED <<shown, tailCall, output>>
    <3>1. ~registered /\ queuedOut' = queuedOut
      BY <1>1, <2>2 DEF Asks, output
    <3> QED BY <1>1, <2>1, <3>1 DEF NothingMissed
  <2>3. CASE queuedOut' = <<>> /\ tailCall' = "asked"
    BY <1>1, <2>1, <2>3, NoElements DEF NothingMissed, TailComes
  <2> QED BY <1>8, <2>2, <2>3 DEF HandlesStatuses
<1>9. CASE RestoreSession
  <2>1. /\ UNCHANGED <<shown, statuses, closed, loaded, registered>> /\ tailCall \in {"failed", "read"}
        /\ queuedOut' = <<>> /\ tailRead' = <<>> /\ screen' = Drawn(tailRead \o queuedOut)
    BY <1>9 DEF RestoreSession, page, service
  <2>2. Produced' = Produced /\ Pending' = Pending
    BY <1>9, QuietFlows DEF Quiet
  <2>3. screen \in Seq(Nat) /\ queuedOut \in Seq(Nat) /\ tailRead \in Seq(Nat) /\ tailRead \o queuedOut \in Seq(Nat)
    BY <1>1, Concat DEF DrawnInOrder
  <2>4. Elements(queuedOut') = {} /\ Elements(tailRead') = {}
    BY <2>1, NoElements
  <2>5. CASE shown # "none"
    <3>1. screen' = screen \o (tailRead \o queuedOut)
      BY <2>1, <2>5 DEF Drawn, IsOpen
    <3>2. Elements(screen') = Elements(screen) \cup Elements(tailRead) \cup Elements(queuedOut)
      <4>1. Elements(tailRead \o queuedOut) = Elements(tailRead) \cup Elements(queuedOut)
        BY <2>3, ConcatElements
      <4> DEFINE more == tailRead \o queuedOut
      <4>2. more \in Seq(Nat) /\ screen' = screen \o more
        BY <2>3, <3>1
      <4> HIDE DEF more
      <4>3. Elements(screen') = Elements(screen) \cup Elements(more)
        BY <2>3, <4>2, ConcatElements
      <4> QED BY <4>1, <4>3 DEF more
    <3> QED BY <1>1, <2>1, <2>2, <2>4, <3>2 DEF NothingMissed, Brought, TailComes, Asks
  <2>6. CASE shown = "none"
    <3>1. screen' = screen
      BY <2>1, <2>6 DEF Drawn, IsOpen
    <3>2. ~(loaded /\ registered /\ ~closed)
      BY <1>1, <2>1, <2>6 DEF Asks
    <3> QED BY <1>1, <2>1, <2>2, <2>4, <3>1, <3>2 DEF NothingMissed
  <2> QED BY <2>5, <2>6
<1>10. CASE Reload
  <2>1. ~loaded' /\ screen' = <<>> /\ queuedOut' = <<>> /\ tailRead' = <<>>
    BY <1>10 DEF Reload
  <2> QED BY <2>1, NoElements DEF NothingMissed
<1>11. CASE Loads
  <2>1. UNCHANGED <<screen, queuedOut, tailRead>> /\ statuses' = "asked" /\ Produced' = Produced
    BY <1>11, LoadsFlows DEF Loads, store, output
  <2> QED BY <1>1, <2>1 DEF NothingMissed, TailComes
<1>12. CASE UserCloses
  <2>1. UNCHANGED <<queuedOut, tailRead>> /\ closed' = TRUE /\ screen' = <<>> /\ Produced' = Produced
    BY <1>12, QuietFlows DEF Quiet, UserCloses, calls, output
  <2> QED BY <1>1, <2>1, NoElements DEF NothingMissed
<1> QED BY <1>2, <1>3, <1>4, <1>5, <1>6, <1>7, <1>8, <1>9, <1>10, <1>11, <1>12 DEF Next

LEMMA OutputInit == Init => OutputInv
<1> SUFFICES ASSUME Init PROVE OutputInv
  OBVIOUS
<1>1. /\ run = "running" /\ registered = TRUE /\ tail = <<>> /\ emitting = NoChunk /\ events = <<>>
      /\ window = 1 /\ loaded = TRUE /\ shown = "live" /\ closed = FALSE /\ screen = <<>>
      /\ statuses = "idle" /\ tailCall = "idle" /\ tailRead = <<>> /\ restoring = FALSE /\ queuedOut = <<>>
  BY DEF Init
<1>2. EventsSay /\ TerminalGoes
  BY TermInit DEF TermInv
<1>3. Produced = 0 /\ OutChunks = {} /\ Pending = 1..Produced
  BY <1>1 DEF Produced, OutChunks, Pending
<1>4. Due = 1
  BY <1>3, ChosenDue DEF Due
<1>5. Flows /\ Tells /\ Asks
  BY <1>1, <1>3, <1>4 DEF Flows, Tells, Asks, NoChunk
<1>6. Len(screen) = 0 /\ DOMAIN screen = {} /\ screen \in Seq(Nat) /\ queuedOut \in Seq(Nat) /\ tailRead \in Seq(Nat)
  BY <1>1
<1>7. Fresh /\ Laid(0, 0, 1)
  BY <1>1, <1>4, <1>6 DEF Fresh, Laid
<1>8. DrawnInOrder
  BY <1>1, <1>6, <1>7 DEF DrawnInOrder, Drawing
<1>9. NothingMissed
  BY <1>1, <1>3, NoElements DEF NothingMissed
<1> QED BY <1>2, <1>5, <1>8, <1>9 DEF OutputInv

LEMMA OutputStep == OutputInv /\ [Next]_vars => OutputInv'
<1> SUFFICES ASSUME OutputInv, [Next]_vars PROVE OutputInv'
  OBVIOUS
<1>1. EventsSay' /\ TerminalGoes'
  BY TermStep DEF OutputInv, TermInv
<1> QED BY <1>1, FlowsStep, AsksStep, DrawnStep, MissedStep DEF OutputInv

LEMMA FewTimes ==
  ASSUME NEW S, NEW a, NEW b, S \subseteq {a, b}
  PROVE  Cardinality(S) \in Nat /\ Cardinality(S) <= 2 /\ (a = b => Cardinality(S) <= 1)
<1>1. IsFiniteSet({a}) /\ Cardinality({a}) = 1
  BY FS_Singleton
<1>2. {a, b} = {a} \cup {b}
  OBVIOUS
<1>3. IsFiniteSet({a, b}) /\ Cardinality({a, b}) = IF b \in {a} THEN 1 ELSE 2
  BY <1>1, <1>2, FS_AddElement
<1>4. IsFiniteSet(S) /\ Cardinality(S) <= Cardinality({a, b})
  BY <1>3, FS_Subset
<1>5. Cardinality(S) \in Nat
  BY <1>4, FS_CardinalityType
<1> QED BY <1>3, <1>4, <1>5

LEMMA OrderOfDrawn == OutputInv => OutputInOrder
<1> SUFFICES ASSUME OutputInv PROVE OutputInOrder
  OBVIOUS
<1>1. Asks /\ DrawnInOrder /\ screen \in Seq(Nat) /\ Len(screen) \in Nat
  BY DEF OutputInv, DrawnInOrder
<1>2. CASE restoring \/ window = 1
  <2>1. \A i \in DOMAIN screen : screen[i] = i
    BY <1>1, <1>2 DEF Asks, DrawnInOrder, Waits, Fresh
  <2>2. screen # <<>> => screen[1] = 1
    BY <1>1, <2>1
  <2>3. \A i \in 2..Len(screen) : screen[i] <= screen[i - 1] + 1
    BY <1>1, <2>1
  <2>4. \A c \in Chunks : Times(c) <= IF window = 1 THEN 1 ELSE 2
    <3>1. SUFFICES ASSUME NEW c \in Chunks PROVE Times(c) \in Nat /\ Times(c) <= 1
      OBVIOUS
    <3>2. {i \in DOMAIN screen : screen[i] = c} \subseteq {c, c}
      BY <2>1
    <3> QED BY <3>2, FewTimes DEF Times
  <2> QED BY <2>2, <2>3, <2>4 DEF OutputInOrder
<1>3. CASE ~restoring /\ window # 1
  <2>1. PICK m \in Nat, t \in Nat, q \in Nat \ {0} : Laid(m, t, q)
    BY <1>1, <1>3 DEF DrawnInOrder, Drawing
  <2>2. \A i \in 1..Len(screen) : screen[i] = IF i <= m THEN i ELSE IF i <= m + t THEN i - m ELSE q + i - m - t - 1
    BY <1>1, <2>1 DEF Laid
  <2>3. m < q /\ (q <= t + 1 \/ (t = 0 /\ (m = 0 \/ q = m + 1) /\ ~registered))
    BY <2>1 DEF Laid
  <2>4. screen # <<>> => screen[1] = 1 \/ ~registered
    <3>1. SUFFICES ASSUME screen # <<>> PROVE screen[1] = 1 \/ ~registered
      OBVIOUS
    <3>2. 1 \in 1..Len(screen)
      BY <1>1, <3>1
    <3> QED BY <2>2, <2>3, <3>2
  <2>5. \A i \in 2..Len(screen) : screen[i] <= screen[i - 1] + 1
    <3>1. SUFFICES ASSUME NEW i \in 2..Len(screen) PROVE screen[i] <= screen[i - 1] + 1
      OBVIOUS
    <3>2. i \in 1..Len(screen) /\ i - 1 \in 1..Len(screen) /\ i \in Int
      BY <1>1
    <3>3. /\ screen[i] = IF i <= m THEN i ELSE IF i <= m + t THEN i - m ELSE q + i - m - t - 1
          /\ screen[i - 1] = IF i - 1 <= m THEN i - 1 ELSE IF i - 1 <= m + t THEN i - 1 - m ELSE q + (i - 1) - m - t - 1
      BY <2>2, <3>2
    <3> QED BY <1>1, <2>3, <3>2, <3>3
  <2>6. \A c \in Chunks : Times(c) <= IF window = 1 THEN 1 ELSE 2
    <3>1. SUFFICES ASSUME NEW c \in Chunks PROVE Times(c) <= 2
      BY <1>3
    <3>2. c \in Int
      BY ScreenAssumption DEF Chunks
    \* Not both before the tail and after it.
    <3>3. ASSUME NEW i \in DOMAIN screen, screen[i] = c
          PROVE  i \in {m + c, IF c <= m THEN c ELSE m + t + 1 + c - q}
      <4>1. i \in 1..Len(screen) /\ i \in Int
        BY <1>1, <3>3
      <4>2. c = IF i <= m THEN i ELSE IF i <= m + t THEN i - m ELSE q + i - m - t - 1
        BY <2>2, <3>3, <4>1
      <4> QED BY <2>3, <3>2, <4>1, <4>2
    <3>4. {i \in DOMAIN screen : screen[i] = c} \subseteq {m + c, IF c <= m THEN c ELSE m + t + 1 + c - q}
      BY <3>3
    <3> QED BY <3>4, FewTimes DEF Times
  <2> QED BY <2>4, <2>5, <2>6 DEF OutputInOrder
<1> QED BY <1>2, <1>3

LEMMA WholeOnceHandled == OutputInv => OutputIsWhole
<1> SUFFICES ASSUME OutputInv, loaded, registered, emitting = NoChunk, events = <<>>,
                    shown = "live", statuses = "idle", tailCall = "idle"
             PROVE  Elements(screen) = 1..Produced
  BY DEF OutputIsWhole, Elements
<1>1. Asks /\ NothingMissed
  BY DEF OutputInv
<1>2. Pending = {} /\ ~closed /\ queuedOut = <<>> /\ ~TailComes
  BY <1>1 DEF Asks, Pending, OutChunks, TailComes
<1> QED BY <1>1, <1>2, NoElements DEF NothingMissed, Brought

(* Output is drawn in order, once, and twice only where a reloaded window drew live output before the tail       *)
(* (terminal.tsx:198).                                                                                            *)
THEOREM OutputIsInOrder == Spec => []OutputInOrder
BY OutputInit, OutputStep, OrderOfDrawn, PTL DEF Spec

(* Whatever was emitted while a window loaded, before it knew of the session or while the tail was read, is drawn *)
(* once everything was handled (terminal.tsx:191).                                                                *)
THEOREM AllOutputIsDrawn == Spec => []OutputIsWhole
BY OutputInit, OutputStep, WholeOnceHandled, PTL DEF Spec

--------------------------------------------------------------------------------
(* The navigation: what is sound of the store, the history and the detail. *)

UIs == [selected : Clusters \cup {None}, routes : BOOLEAN, tab : Tabs, detail : Details]
\* A detail is one of the Cluster and of the view it is beside.
Sound(u) ==
  u \in UIs /\ (u.detail # NoDetail => u.detail.cluster = u.selected /\ u.tab = ViewOf(u.detail.object))
SoundPlaces ==
  {p \in Places : p.detail # NoDetail => p.detail.cluster = p.cluster /\ p.tab = ViewOf(p.detail.object)}

\* The places are sound, no more than may be kept, and the user is at one of them as soon as there is one.
HistoryOK(h) ==
  /\ h \in [places : Seq(SoundPlaces), at : Nat]
  /\ Len(h.places) <= MaxPlaces /\ h.at <= Len(h.places) /\ (h.at = 0 <=> h.places = <<>>)
AtPlace(h, u) == u.selected # None => h.at > 0 /\ Same(h.places[h.at], Here(u))
Placed == Sound(ui) /\ HistoryOK(history) /\ AtPlace(history, ui)

\* The detail beside the list is the one of the store, and an object that the list has is beside it.
OpenIsShown ==
  /\ open \in Objects \cup {None} /\ editing \in BOOLEAN
  /\ open # None => Mounted(ui, known, up) /\ ui.detail.object = open
  /\ Mounted(ui, known, up) /\ ui.detail.object \in Rows(ui, lists) => open = ui.detail.object

\* What the palette runs is a Cluster, a view or an object of one, or a step back or forward.
ItemOK(x) ==
  /\ x.kind \in {"none", "cluster", "command", "view", "object"}
  /\ x.kind \in {"cluster", "view", "object"} => x.cluster \in Clusters
  /\ x.kind = "view" => x.to \in Tabs
  /\ x.kind = "object" => x.to \in Objects

Around ==
  /\ config \subseteq Clusters /\ known \subseteq Clusters /\ up \subseteq Clusters
  /\ fetch \in [stage : {"idle", "sent", "answered"}, got : SUBSET Clusters]
  /\ lists \in [Clusters -> SUBSET Objects]
  /\ palette = [phase |-> palette.phase, chosen |-> palette.chosen]
  /\ palette.phase \in {"closed", "open", "closing"} /\ ItemOK(palette.chosen)
  /\ removal \in [stage : {"none", "sent", "done"}, cluster : Clusters \cup {None}]
  /\ acts \in Nat

WalkInv == walk.on \in BOOLEAN /\ WalkUndone
NavInv == Around /\ Placed /\ OpenIsShown /\ WalkInv

-----------------------------------------------------------------------------
(* What the steps are made of. *)

LEMMA Blank == NoDetail \in Details /\ None \notin Clusters /\ None \notin Objects /\ \A c \in Clusters, o \in Objects :
                  [cluster |-> c, object |-> o] \in Details /\ [cluster |-> c, object |-> o] # NoDetail
BY NavAssumption DEF NavAssumption, Details, NoDetail

LEMMA TabsAre == Tabs = {"overview", "nodes", "events", "forwards"} /\ \A o \in Objects : ViewOf(o) \in Tabs
<1>1. DOMAIN mainTabs = 1..4 /\ mainTabs[1] = "overview" /\ mainTabs[2] = "nodes" /\ mainTabs[3] = "events" /\ mainTabs[4] = "forwards"
  BY DEF mainTabs
<1>2. 1..4 = {1, 2, 3, 4}
  OBVIOUS
<1> QED BY <1>1, <1>2 DEF Tabs, ViewOf

\* A detail of the store is of a Cluster and an object.
LEMMA DetailIs ==
  ASSUME NEW u, Sound(u), u.detail # NoDetail
  PROVE  u.detail.object \in Objects /\ u.selected \in Clusters /\ u.detail.cluster = u.selected
BY Blank DEF Sound, UIs, Details

LEMMA SelectingSound ==
  ASSUME NEW u, Sound(u), NEW c \in Clusters \cup {None}
  PROVE  Sound(Selecting(u, c)) /\ Selecting(u, c).selected = c
<1>1. Selecting(u, c) = [u EXCEPT !.selected = c, !.routes = FALSE, !.detail = IF c = u.selected THEN u.detail ELSE NoDetail]
  BY DEF Selecting
<1>2. CASE c = u.selected
  BY <1>1, <1>2 DEF Sound, UIs
<1>3. CASE c # u.selected
  BY <1>1, <1>3, Blank DEF Sound, UIs
<1> QED BY <1>2, <1>3

LEMMA TabSound ==
  ASSUME NEW u, Sound(u), NEW t \in Tabs
  PROVE  Sound(SelectingTab(u, t)) /\ SelectingTab(u, t).selected = u.selected
BY Blank DEF SelectingTab, Sound, UIs

LEMMA OpeningSound ==
  ASSUME NEW c \in Clusters, NEW o \in Objects
  PROVE  Sound(Opening(c, o)) /\ Opening(c, o).selected = c /\ Opening(c, o).tab = ViewOf(o) /\ Opening(c, o).detail.object = o
BY Blank, TabsAre DEF Opening, Sound, UIs

LEMMA ClosingSound ==
  ASSUME NEW u, Sound(u)
  PROVE  Sound(Closing(u))
BY Blank DEF Closing, Sound, UIs

LEMMA PlaceSound ==
  ASSUME NEW u, Sound(u), u.selected # None
  PROVE  Here(u) \in SoundPlaces /\ Same(Here(u), Here(u))
BY DEF Here, Sound, UIs, SoundPlaces, Places, Same

\* The last n of a sequence: all of it, or the rest of it without the first ones.
LEMMA LastIs ==
  ASSUME NEW S, NEW s \in Seq(S), NEW n \in Nat \ {0}, Len(s) <= n + 1, Len(s) > 0
  PROVE  /\ Last(s, n) \in Seq(S) /\ Len(Last(s, n)) <= n /\ Len(Last(s, n)) > 0
         /\ Last(s, n)[Len(Last(s, n))] = s[Len(s)]
         /\ n > 1 /\ Len(s) > 1 => Len(Last(s, n)) > 1 /\ Last(s, n)[Len(Last(s, n)) - 1] = s[Len(s) - 1]
<1>1. CASE Len(s) <= n
  BY <1>1 DEF Last
<1>2. CASE Len(s) > n
  <2>1. Last(s, n) = SubSeq(s, 2, n + 1) /\ Len(s) = n + 1
    BY <1>2 DEF Last
  <2>2. Last(s, n) \in Seq(S) /\ Len(Last(s, n)) = n /\ \A i \in 1..n : Last(s, n)[i] = s[i + 1]
    BY <2>1
  <2> QED BY <2>1, <2>2
<1> QED BY <1>1, <1>2

\* A place is added behind the one the user is at, unless it is the same.
LEMMA VisitedIs ==
  ASSUME NEW h, HistoryOK(h), NEW u, Sound(u)
  PROVE  /\ HistoryOK(Visited(h, u)) /\ AtPlace(Visited(h, u), u)
         /\ u.selected # None /\ h.at > 0 /\ ~Same(h.places[h.at], Here(u))
            => Visited(h, u).at > 1 /\ Visited(h, u).places[Visited(h, u).at - 1] = h.places[h.at]
<1>0. MaxPlaces \in Nat /\ MaxPlaces > 1
  BY NavAssumption DEF NavAssumption
<1>1. CASE u.selected = None \/ (h.at > 0 /\ Same(h.places[h.at], Here(u)))
  BY <1>1 DEF Visited, AtPlace
<1>2. CASE u.selected # None /\ ~(h.at > 0 /\ Same(h.places[h.at], Here(u)))
  <2> DEFINE kept == SubSeq(h.places, 1, h.at)
             s == Append(kept, Here(u))
             places == Last(s, MaxPlaces)
  <2>1. h.places \in Seq(SoundPlaces) /\ h.at \in Nat /\ h.at <= Len(h.places) /\ Len(h.places) <= MaxPlaces /\ Here(u) \in SoundPlaces
    BY <1>2, PlaceSound DEF HistoryOK
  <2>2. kept \in Seq(SoundPlaces) /\ Len(kept) = h.at /\ \A i \in 1..h.at : kept[i] = h.places[i]
    BY <2>1
  <2>3. /\ s \in Seq(SoundPlaces) /\ Len(s) = h.at + 1 /\ s[h.at + 1] = Here(u)
        /\ h.at > 0 => s[h.at] = h.places[h.at]
    BY <2>1, <2>2
  <2>4. Visited(h, u) = [places |-> places, at |-> Len(places)]
    BY <1>2 DEF Visited
  <2> HIDE DEF s
  <2>5. /\ places \in Seq(SoundPlaces) /\ Len(places) <= MaxPlaces /\ Len(places) > 0
        /\ places[Len(places)] = Here(u)
        /\ h.at > 0 => Len(places) > 1 /\ places[Len(places) - 1] = h.places[h.at]
    <3>1. MaxPlaces \in Nat \ {0} /\ Len(s) <= MaxPlaces + 1 /\ Len(s) > 0
      BY <1>0, <2>1, <2>3
    <3>2. /\ places \in Seq(SoundPlaces) /\ Len(places) <= MaxPlaces /\ Len(places) > 0
          /\ places[Len(places)] = s[Len(s)]
          /\ MaxPlaces > 1 /\ Len(s) > 1 => Len(places) > 1 /\ places[Len(places) - 1] = s[Len(s) - 1]
      BY <2>3, <3>1, LastIs
    <3> HIDE DEF places
    <3> QED BY <1>0, <2>1, <2>3, <3>2
  <2> HIDE DEF places
  <2>6. HistoryOK(Visited(h, u))
    BY <2>4, <2>5 DEF HistoryOK
  <2> QED BY <1>2, <2>4, <2>5, <2>6, PlaceSound DEF AtPlace
<1> QED BY <1>1, <1>2

\* What is beside the list is worked out of the store whenever something is drawn.
LEMMA RendersIs ==
  ASSUME Sound(ui)', known' \subseteq Clusters, lists' \in [Clusters -> SUBSET Objects], Renders
  PROVE  OpenIsShown'
<1>1. PICK last : open' = Inspected(ui', known', up', lists', last)
  BY DEF Renders
<1>2. editing' \in BOOLEAN
  BY DEF Renders
<1> DEFINE here == /\ Mounted(ui', known', up')
                   /\ ui'.detail.cluster = ui'.selected /\ ui'.detail.object # None /\ ViewOf(ui'.detail.object) = ui'.tab
                   /\ ui'.detail.object \in Rows(ui', lists') \cup {last}
<1>3. open' = IF here THEN ui'.detail.object ELSE None
  BY <1>1 DEF Inspected
<1>4. here => ui'.detail # NoDetail
  BY DEF NoDetail
<1>5. ui'.detail # NoDetail => ui'.detail.object \in Objects /\ ui'.detail.object # None /\ ui'.detail.cluster = ui'.selected
                               /\ ViewOf(ui'.detail.object) = ui'.tab
  BY DetailIs, Blank DEF Sound
<1>6. here => Mounted(ui', known', up')
  OBVIOUS
<1>7. Mounted(ui', known', up') /\ ui'.detail.object \in Rows(ui', lists') => here
  <2>1. SUFFICES ASSUME Mounted(ui', known', up'), ui'.detail.object \in Rows(ui', lists') PROVE here
    OBVIOUS
  <2>2. ui'.selected \in Clusters
    BY <2>1 DEF Mounted
  <2>3. ui'.detail.object \in Objects
    BY <2>1, <2>2 DEF Rows
  <2>4. ui'.detail # NoDetail
    BY <2>3, Blank DEF NoDetail
  <2> QED BY <1>5, <2>1, <2>4
<1> HIDE DEF here
<1>8. open' \in Objects \cup {None}
  BY <1>3, <1>4, <1>5
<1>9. open' # None => Mounted(ui', known', up') /\ ui'.detail.object = open'
  BY <1>3, <1>6
<1>10. Mounted(ui', known', up') /\ ui'.detail.object \in Rows(ui', lists') => open' = ui'.detail.object
  BY <1>3, <1>7
<1> QED BY <1>2, <1>8, <1>9, <1>10 DEF OpenIsShown

\* A set of numbers has a least one, and one that is bounded has a greatest.
LEMMA LeastOf ==
  ASSUME NEW S \in SUBSET Nat, S # {}
  PROVE  \E m \in S : \A n \in S : m <= n
<1>1. PICK m \in S : \A n \in S : ~ (<<n, m>> \in OpToRel(<, Nat))
  BY NatLessThanWellFounded, WFMin, Zenon
<1>2. ASSUME NEW n \in S PROVE m <= n
  <2>1. ~ (n < m)
    BY <1>1 DEF OpToRel
  <2> QED BY <2>1
<1> QED BY <1>2

LEMMA GreatestOf ==
  ASSUME NEW B \in Nat, NEW S \in SUBSET (1..B), S # {}
  PROVE  \E m \in S : \A n \in S : m >= n
<1> DEFINE R == {B - n : n \in S}
<1>1. R \in SUBSET Nat /\ R # {}
  <2>1. \A n \in S : n \in 1..B /\ B - n \in Nat
    OBVIOUS
  <2>2. PICK n \in S : TRUE
    OBVIOUS
  <2>3. B - n \in R
    BY <2>2
  <2> QED BY <2>1, <2>3
<1>2. PICK m \in R : \A n \in R : m <= n
  <2> HIDE DEF R
  <2> QED BY <1>1, LeastOf
<1>3. PICK k \in S : m = B - k
  OBVIOUS
<1>4. ASSUME NEW n \in S PROVE k >= n
  <2>1. B - k <= B - n
    BY <1>2, <1>3
  <2> QED BY <2>1
<1> QED BY <1>4

\* Back and forward lead to a place of a Cluster that is there.
LEMMA ReachedIs ==
  ASSUME HistoryOK(history), NEW step \in {-1, 1}, NEW u, Reached(step, u) # 0
  PROVE  Reached(step, u) \in DOMAIN history.places /\ history.places[Reached(step, u)].cluster \in known
<1> DEFINE from == IF u.routes /\ step < 0 THEN history.at ELSE history.at + step
           there == {i \in DOMAIN history.places : history.places[i].cluster \in known
                                                   /\ IF step < 0 THEN i <= from ELSE i >= from}
<1>1. history.places \in Seq(SoundPlaces)
  BY DEF HistoryOK
<1>2. there \subseteq 1..Len(history.places) /\ Len(history.places) \in Nat
  BY <1>1
<1>3. Reached(step, u) = IF there = {} THEN 0
                         ELSE CHOOSE i \in there : \A j \in there : IF step < 0 THEN i >= j ELSE i <= j
  BY DEF Reached
<1>4. there # {}
  BY <1>3
<1>5. there \subseteq {i \in DOMAIN history.places : history.places[i].cluster \in known}
  OBVIOUS
<1> HIDE DEF there
<1>6. \E i \in there : \A j \in there : i >= j
  BY <1>2, <1>4, GreatestOf
<1>7. \E i \in there : \A j \in there : i <= j
  <2>1. there \in SUBSET Nat
    BY <1>2
  <2> QED BY <1>4, <2>1, LeastOf
<1>8. Reached(step, u) \in there
  BY <1>3, <1>4, <1>6, <1>7
<1> QED BY <1>5, <1>8

-----------------------------------------------------------------------------
(* A step of the store keeps the place, the detail and the walk. *)

\* What a step is drawn with.
Drawable == known' \subseteq Clusters /\ lists' \in [Clusters -> SUBSET Objects]
Moved == Placed' /\ OpenIsShown' /\ WalkInv'

LEMMA GoesMoves ==
  ASSUME NavInv, Drawable, NEW u, Sound(u), Goes(u)
  PROVE  Moved
<1>1. ui' = u /\ history' = Visited(history, u) /\ walk' = NoWalk /\ Renders
  BY DEF Goes
<1>2. Placed'
  BY <1>1, VisitedIs DEF NavInv, Placed, Sound, HistoryOK, AtPlace
<1>3. OpenIsShown'
  BY <1>1, <1>2, RendersIs DEF Drawable, Placed
<1>4. WalkInv'
  BY <1>1 DEF WalkInv, WalkUndone, NoWalk
<1> QED BY <1>2, <1>3, <1>4 DEF Moved

LEMMA GoesByMoves ==
  ASSUME NavInv, Drawable, NEW u, Sound(u), NEW v, Sound(v), GoesBy(u, v)
  PROVE  Moved
<1>1. ui' = v /\ history' = Visited(Visited(history, u), v) /\ walk' = NoWalk /\ Renders
  BY DEF GoesBy
<1>2. HistoryOK(Visited(history, u))
  BY VisitedIs DEF NavInv, Placed
<1>3. HistoryOK(Visited(Visited(history, u), v)) /\ AtPlace(Visited(Visited(history, u), v), v)
  BY <1>2, VisitedIs
<1>4. Placed'
  BY <1>1, <1>3 DEF Placed, Sound, HistoryOK, AtPlace
<1>5. OpenIsShown'
  BY <1>1, <1>4, RendersIs DEF Drawable, Placed
<1>6. WalkInv'
  BY <1>1 DEF WalkInv, WalkUndone, NoWalk
<1> QED BY <1>4, <1>5, <1>6 DEF Moved

LEMMA GoingMoves ==
  ASSUME NavInv, Drawable, NEW step \in {-1, 1}, Going(step)
  PROVE  Moved
<1> DEFINE i == Reached(step, ui)
           p == history.places[i]
<1>1. /\ i # 0 /\ history' = [history EXCEPT !.at = i]
      /\ ui' = [selected |-> p.cluster, routes |-> FALSE, tab |-> p.tab, detail |-> p.detail]
      /\ walk' = NoWalk /\ Renders
  BY DEF Going
<1>2. HistoryOK(history)
  BY DEF NavInv, Placed
<1>3. i \in DOMAIN history.places
  BY <1>1, <1>2, ReachedIs
<1> HIDE DEF i
<1>4. p \in SoundPlaces /\ i \in Nat /\ i > 0 /\ i <= Len(history.places) /\ history.places # <<>>
  BY <1>2, <1>3 DEF HistoryOK
<1> HIDE DEF p
<1>5. Sound(ui') /\ Here(ui') = [cluster |-> p.cluster, tab |-> p.tab, detail |-> p.detail]
  BY <1>1, <1>4 DEF SoundPlaces, Places, Sound, UIs, Here
<1>6. HistoryOK(history') /\ history'.places = history.places /\ history'.at = i
  BY <1>1, <1>2, <1>4 DEF HistoryOK
<1>7. AtPlace(history', ui')
  BY <1>4, <1>5, <1>6 DEF AtPlace, Same, p
<1>8. Placed'
  BY <1>5, <1>6, <1>7 DEF Placed, Sound, HistoryOK, AtPlace
<1>9. OpenIsShown'
  BY <1>1, <1>8, RendersIs DEF Drawable, Placed
<1>10. WalkInv'
  BY <1>1 DEF WalkInv, WalkUndone, NoWalk
<1> QED BY <1>8, <1>9, <1>10 DEF Moved

\* The first row of a walk is a place of its own behind the one it was begun at; the next ones take its place.
LEMMA WalkMoves ==
  ASSUME NavInv, Drawable, Mounted(ui, known, up), NEW step \in {-1, 1}, Walks(step)
  PROVE  Moved
<1>1. PICK o \in NextRow(step) : LET u == Opening(ui.selected, o)
                                 IN /\ ui' = u
                                    /\ IF open = None
                                       THEN history' = Visited(history, u) /\ walk' = [on |-> TRUE, from |-> Here(ui)]
                                       ELSE history' = Replaced(history, u) /\ walk' = walk
                                    /\ Renders
  BY DEF Walks
<1> DEFINE u == Opening(ui.selected, o)
<1>2. o \in Rows(ui, lists)
  BY DEF NextRow
<1>3. ui.selected \in Clusters /\ o \in Objects /\ ViewOf(o) = ui.tab
  BY <1>2 DEF Mounted, Rows, NavInv, Around
<1>4. Sound(u) /\ u.selected = ui.selected /\ u.selected # None /\ u.tab = ui.tab /\ u.detail.object = o
  BY <1>3, OpeningSound, Blank
<1>5. /\ HistoryOK(history) /\ history.at > 0 /\ Same(history.places[history.at], Here(ui)) /\ history.at \in Nat
      /\ history.places \in Seq(SoundPlaces) /\ history.at <= Len(history.places)
  BY <1>3, Blank DEF NavInv, Placed, AtPlace, HistoryOK
<1> HIDE DEF u
<1>6. CASE open = None
  <2>1. ui' = u /\ history' = Visited(history, u) /\ walk' = [on |-> TRUE, from |-> Here(ui)] /\ Renders
    BY <1>1, <1>6 DEF u
  <2>2. ui.detail.object # o
    BY <1>2, <1>3, <1>6, Blank DEF NavInv, OpenIsShown
  <2>3. ~Same(history.places[history.at], Here(u))
    BY <1>4, <1>5, <2>2 DEF Same, Here
  <2>4. /\ HistoryOK(history') /\ AtPlace(history', u)
        /\ history'.at > 1 /\ history'.places[history'.at - 1] = history.places[history.at]
    BY <1>4, <1>5, <2>1, <2>3, VisitedIs
  <2>5. Placed'
    BY <1>4, <2>1, <2>4 DEF Placed, Sound, HistoryOK, AtPlace
  <2>6. WalkInv'
    BY <1>5, <2>1, <2>4 DEF WalkInv, WalkUndone
  <2> QED BY <2>1, <2>5, <2>6, RendersIs DEF Drawable, Placed, Moved
<1>7. CASE open # None
  <2>1. ui' = u /\ history' = [history EXCEPT !.places[history.at] = Here(u)] /\ walk' = walk /\ Renders
    BY <1>1, <1>5, <1>7 DEF u, Replaced
  <2>2. Here(u) \in SoundPlaces /\ Same(Here(u), Here(u))
    BY <1>4, PlaceSound
  <2>3. /\ history'.at = history.at /\ history'.places = [history.places EXCEPT ![history.at] = Here(u)]
        /\ history' \in [places : Seq(SoundPlaces), at : Nat]
    <3>1. history \in [places : Seq(SoundPlaces), at : Nat]
      BY <1>5 DEF HistoryOK
    <3>2. [history.places EXCEPT ![history.at] = Here(u)] \in Seq(SoundPlaces)
      BY <1>5, <2>2
    <3>3. history' = [history EXCEPT !.places = [history.places EXCEPT ![history.at] = Here(u)]]
      BY <2>1, <3>1
    <3> QED BY <3>1, <3>2, <3>3
  <2>4. /\ Len(history'.places) = Len(history.places) /\ history'.places[history.at] = Here(u)
        /\ history.at > 1 => history'.places[history.at - 1] = history.places[history.at - 1]
    BY <1>5, <2>2, <2>3
  <2>5. HistoryOK(history')
    BY <1>5, <2>3, <2>4 DEF HistoryOK
  <2>6. AtPlace(history', u)
    BY <1>5, <2>2, <2>3, <2>4 DEF AtPlace
  <2>7. Placed'
    BY <1>4, <2>1, <2>5, <2>6 DEF Placed, Sound, HistoryOK, AtPlace
  <2>8. WalkInv'
    BY <2>1, <2>3, <2>4 DEF NavInv, WalkInv, WalkUndone
  <2> QED BY <2>1, <2>7, <2>8, RendersIs DEF Drawable, Placed, Moved
<1> QED BY <1>6, <1>7

\* What is drawn anew without a step of the store.
LEMMA RendersMoves ==
  ASSUME NavInv, Drawable, UNCHANGED <<ui, history, walk>>, Renders
  PROVE  Moved
<1>1. Placed' /\ WalkInv'
  BY DEF NavInv, Placed, Sound, HistoryOK, AtPlace, WalkInv, WalkUndone
<1> QED BY <1>1, RendersIs DEF Drawable, Placed, Moved

LEMMA StaysMoves ==
  ASSUME NavInv, UNCHANGED <<ui, open, history, walk, known, up, lists>>, editing' \in BOOLEAN
  PROVE  Moved
BY DEF NavInv, Placed, Sound, HistoryOK, AtPlace, WalkInv, WalkUndone, OpenIsShown, Moved

\* A key runs a Command that is there.
LEMMA PressedRuns ==
  ASSUME NEW id, Pressed(id)
  PROVE  id \in Runnable /\ Act
BY DEF Pressed, Takes

-----------------------------------------------------------------------------
(* Every step keeps the invariant. *)

LEMMA ElsewhereIs ==
  ASSUME NavInv, Elsewhere, Act
  PROVE  Around' /\ Drawable
BY NavAssumption DEF NavAssumption, NavInv, Around, Elsewhere, Act, Drawable

LEMMA NavInvInit == NavInit => NavInv
<1> SUFFICES ASSUME NavInit PROVE NavInv
  OBVIOUS
<1>1. Around
  BY Blank DEF NavInit, Around, ItemOK, NoItem
<1>2. Placed
  <2>1. Sound(ui)
    BY Blank, TabsAre DEF NavInit, Sound, UIs
  <2>2. HistoryOK(history)
    BY NavAssumption DEF NavAssumption, NavInit, HistoryOK
  <2> QED BY <2>1, <2>2 DEF NavInit, AtPlace, Placed
<1>3. OpenIsShown
  BY Blank DEF NavInit, OpenIsShown, Mounted
<1>4. WalkInv
  BY DEF NavInit, WalkInv, WalkUndone, NoWalk
<1> QED BY <1>1, <1>2, <1>3, <1>4 DEF NavInv

\* The user's steps.
LEMMA UserStep ==
  ASSUME NavInv,
         \/ UserSelects \/ UserOpensRoutes \/ UserPicksTab \/ UserClicksRow \/ UserFollowsLink \/ UserEdits \/ MouseGoes
  PROVE  NavInv'
<1>1. Sound(ui) /\ known \subseteq Clusters /\ lists \in [Clusters -> SUBSET Objects]
  BY DEF NavInv, Placed, Around
<1>2. CASE UserSelects
  <2>1. PICK c \in known : Goes(Selecting(ui, c))
    BY <1>2 DEF UserSelects
  <2>2. Sound(Selecting(ui, c))
    BY <1>1, SelectingSound
  <2> QED BY <1>2, <2>1, <2>2, ElsewhereIs, GoesMoves DEF UserSelects, Moved, NavInv
<1>3. CASE UserOpensRoutes
  <2>1. Sound([ui EXCEPT !.routes = TRUE])
    BY <1>1 DEF Sound, UIs
  <2> QED BY <1>3, <2>1, ElsewhereIs, GoesMoves DEF UserOpensRoutes, Moved, NavInv
<1>4. CASE UserPicksTab
  <2>1. PICK t \in Tabs : Goes(SelectingTab(ui, t))
    BY <1>4 DEF UserPicksTab
  <2>2. Sound(SelectingTab(ui, t))
    BY <1>1, TabSound
  <2> QED BY <1>4, <2>1, <2>2, ElsewhereIs, GoesMoves DEF UserPicksTab, Moved, NavInv
<1>5. CASE UserClicksRow
  <2>1. PICK o \in Rows(ui, lists) : Goes(IF o = open /\ o \notin Nodes THEN Closing(ui) ELSE Opening(ui.selected, o))
    BY <1>5 DEF UserClicksRow
  <2>2. ui.selected \in Clusters /\ o \in Objects
    BY <1>1, <1>5 DEF UserClicksRow, Mounted, Rows
  <2>3. Sound(Closing(ui)) /\ Sound(Opening(ui.selected, o))
    BY <1>1, <2>2, ClosingSound, OpeningSound
  <2>4. Around' /\ Drawable
    BY <1>5, ElsewhereIs DEF UserClicksRow
  <2> QED BY <2>1, <2>3, <2>4, GoesMoves DEF Moved, NavInv
<1>6. CASE UserFollowsLink
  <2>1. PICK o \in Objects : Goes(Opening(ui.selected, o))
    BY <1>6 DEF UserFollowsLink
  <2>2. Sound(Opening(ui.selected, o))
    BY <1>1, <1>6, OpeningSound DEF UserFollowsLink, ClusterShown
  <2> QED BY <1>6, <2>1, <2>2, ElsewhereIs, GoesMoves DEF UserFollowsLink, Moved, NavInv
<1>7. CASE UserEdits
  <2>1. Around' /\ UNCHANGED <<ui, open, history, walk, known, up, lists>> /\ editing' \in BOOLEAN
    BY <1>7, ElsewhereIs DEF UserEdits, Elsewhere
  <2> QED BY <2>1, StaysMoves DEF Moved, NavInv
<1>8. CASE MouseGoes
  BY <1>8, ElsewhereIs, GoingMoves DEF MouseGoes, Moved, NavInv
<1> QED BY <1>2, <1>3, <1>4, <1>5, <1>6, <1>7, <1>8

LEMMA StepViewIs ==
  ASSUME NEW by \in {-1, 1}, ui.tab \in Tabs
  PROVE  StepView(by) \in Tabs
<1>1. DOMAIN mainTabs = 1..4 /\ Len(mainTabs) = 4
  BY DEF mainTabs
<1>2. \E i \in DOMAIN mainTabs : mainTabs[i] = ui.tab
  BY DEF Tabs
<1> DEFINE i == CHOOSE i \in DOMAIN mainTabs : mainTabs[i] = ui.tab
<1>3. i \in 1..4
  BY <1>1, <1>2
<1>4. StepView(by) = mainTabs[((i - 1 + by) % 4) + 1]
  BY <1>1 DEF StepView
<1> HIDE DEF i
<1>5. ((i - 1 + by) % 4) + 1 \in 1..4
  BY <1>3
<1> QED BY <1>1, <1>4, <1>5 DEF Tabs

\* The keys.
LEMMA KeyStep ==
  ASSUME NavInv, KeySelects \/ KeyGoes \/ KeyStepsView \/ KeyWalks \/ KeyCloses \/ KeyCancels
  PROVE  NavInv'
<1>1. Sound(ui) /\ known \subseteq Clusters /\ ui.tab \in Tabs
  BY DEF NavInv, Placed, Around, Sound, UIs
<1>2. CASE KeySelects
  <2>1. PICK c \in known : Goes(Selecting(ui, c))
    BY <1>2 DEF KeySelects
  <2>2. Sound(Selecting(ui, c))
    BY <1>1, SelectingSound
  <2> QED BY <1>2, <2>1, <2>2, PressedRuns, ElsewhereIs, GoesMoves DEF KeySelects, Moved, NavInv
<1>3. CASE KeyGoes
  <2>1. Around' /\ Drawable /\ (Going(-1) \/ Going(1))
    BY <1>3, PressedRuns, ElsewhereIs DEF KeyGoes
  <2> QED BY <2>1, GoingMoves DEF Moved, NavInv
<1>4. CASE KeyStepsView
  <2>1. Around' /\ Drawable /\ (Goes(SelectingTab(ui, StepView(-1))) \/ Goes(SelectingTab(ui, StepView(1))))
    BY <1>4, PressedRuns, ElsewhereIs DEF KeyStepsView
  <2>2. Sound(SelectingTab(ui, StepView(-1))) /\ Sound(SelectingTab(ui, StepView(1)))
    BY <1>1, StepViewIs, TabSound
  <2> QED BY <2>1, <2>2, GoesMoves DEF Moved, NavInv
<1>5. CASE KeyWalks
  <2>1. Around' /\ Drawable
    BY <1>5, PressedRuns, ElsewhereIs DEF KeyWalks
  <2>2. Mounted(ui, known, up)
    <3>1. "next-row" \in Runnable => Mounted(ui, known, up)
      BY DEF Runnable
    <3>2. "previous-row" \in Runnable => open # None
      BY DEF Runnable
    <3> QED BY <1>5, <3>1, <3>2, PressedRuns DEF KeyWalks, NavInv, OpenIsShown
  <2>3. Walks(1) \/ Walks(-1)
    BY <1>5 DEF KeyWalks
  <2> QED BY <2>1, <2>2, <2>3, WalkMoves DEF Moved, NavInv
<1>6. CASE KeyCloses
  BY <1>1, <1>6, PressedRuns, ElsewhereIs, ClosingSound, GoesMoves DEF KeyCloses, Moved, NavInv
<1>7. CASE KeyCancels
  <2>1. Around' /\ UNCHANGED <<ui, open, history, walk, known, up, lists>> /\ editing' \in BOOLEAN
    BY <1>7, PressedRuns, ElsewhereIs DEF KeyCancels, Elsewhere
  <2> QED BY <2>1, StaysMoves DEF Moved, NavInv
<1> QED BY <1>2, <1>3, <1>4, <1>5, <1>6, <1>7

\* The palette.
LEMMA PaletteStep ==
  ASSUME NavInv, PaletteOpens \/ UserChooses \/ UserLeavesPalette
  PROVE  NavInv'
<1>1. UNCHANGED <<ui, open, history, walk, editing, known, up, lists, config, fetch, removal>> /\ Act
  BY PressedRuns DEF PaletteOpens, UserChooses, UserLeavesPalette, Stays
<1>2. Moved
  BY <1>1, StaysMoves DEF NavInv, OpenIsShown
<1>3. /\ palette' = [phase |-> palette'.phase, chosen |-> palette'.chosen]
      /\ palette'.phase \in {"closed", "open", "closing"} /\ ItemOK(palette'.chosen)
  <2>1. CASE PaletteOpens \/ UserLeavesPalette
    BY <2>1 DEF PaletteOpens, UserLeavesPalette, NavInv, Around
  <2>2. CASE UserChooses
    <3>1. PICK item \in Items : palette' = [phase |-> "closing", chosen |-> item]
      BY <2>2 DEF UserChooses
    <3>2. known \subseteq Clusters /\ lists \in [Clusters -> SUBSET Objects]
      BY DEF NavInv, Around
    <3>3. ItemOK(item)
      BY <3>2 DEF Items, Item, ItemOK
    <3> QED BY <3>1, <3>3
  <2> QED BY <2>1, <2>2
<1>4. Around'
  BY <1>1, <1>3, NavAssumption DEF NavAssumption, NavInv, Around, Act, ItemOK
<1> QED BY <1>2, <1>4 DEF Moved, NavInv

LEMMA RunsMoves ==
  ASSUME NavInv, UNCHANGED <<known, up, lists>>, NEW item, ItemOK(item), Runs(item)
  PROVE  Moved
<1>1. Sound(ui) /\ Drawable /\ editing \in BOOLEAN
  BY DEF NavInv, Placed, Around, Drawable, OpenIsShown
<1>2. CASE Stays
  BY <1>1, <1>2, StaysMoves DEF Stays
<1>3. CASE item.kind = "cluster" /\ Goes(Selecting(ui, item.cluster))
  BY <1>1, <1>3, SelectingSound, GoesMoves DEF ItemOK
<1>4. CASE item.kind = "view" /\ ~Stays
  <2> DEFINE u == IF ui.routes \/ ui.selected # item.cluster THEN Selecting(ui, item.cluster) ELSE ui
  <2>1. GoesBy(u, SelectingTab(u, item.to))
    BY <1>4 DEF Runs
  <2>2. Sound(u)
    BY <1>1, <1>4, SelectingSound DEF ItemOK
  <2> HIDE DEF u
  <2>3. Sound(SelectingTab(u, item.to))
    BY <1>4, <2>2, TabSound DEF ItemOK
  <2> QED BY <1>1, <2>1, <2>2, <2>3, GoesByMoves
<1>5. CASE item.kind = "object" /\ Goes(Opening(item.cluster, item.to))
  BY <1>1, <1>5, OpeningSound, GoesMoves DEF ItemOK
<1>6. CASE Going(1) \/ Going(-1)
  BY <1>1, <1>6, GoingMoves
<1> QED BY <1>2, <1>3, <1>4, <1>5, <1>6 DEF Runs

LEMMA ClosedStep ==
  ASSUME NavInv, PaletteClosed
  PROVE  NavInv'
<1>1. Moved
  BY RunsMoves DEF PaletteClosed, NavInv, Around
<1>2. Around'
  BY Blank DEF PaletteClosed, NavInv, Around, ItemOK, NoItem
<1> QED BY <1>1, <1>2 DEF Moved, NavInv

\* The rest: the tray, removals, the config, Routes and lists.
LEMMA OutsideStep ==
  ASSUME NavInv,
         TrayOpens \/ UserRemoves \/ DeleteCluster \/ Removed \/ ConfigReads \/ ConfigLands \/ RouteMoves \/ ListLands
  PROVE  NavInv'
<1>1. /\ Sound(ui) /\ config \subseteq Clusters /\ known \subseteq Clusters /\ up \subseteq Clusters
      /\ lists \in [Clusters -> SUBSET Objects] /\ editing \in BOOLEAN
      /\ fetch \in [stage : {"idle", "sent", "answered"}, got : SUBSET Clusters]
  BY DEF NavInv, Placed, Around, OpenIsShown
<1>2. CASE TrayOpens
  <2>1. PICK c \in config : GoesBy(Selecting(ui, c), SelectingTab(Selecting(ui, c), "overview"))
    BY <1>2 DEF TrayOpens
  <2>2. Sound(Selecting(ui, c))
    BY <1>1, SelectingSound
  <2>3. Sound(SelectingTab(Selecting(ui, c), "overview"))
    BY <2>2, TabsAre, TabSound
  <2>4. Around' /\ Drawable
    BY <1>2, ElsewhereIs DEF TrayOpens
  <2> QED BY <2>1, <2>2, <2>3, <2>4, GoesByMoves DEF Moved, NavInv
<1>3. CASE UserRemoves
  <2>1. Moved
    BY <1>1, <1>3, StaysMoves DEF UserRemoves, Stays
  <2>2. removal' \in [stage : {"none", "sent", "done"}, cluster : Clusters \cup {None}] /\ acts' \in Nat
    BY <1>1, <1>3 DEF UserRemoves, ClusterShown, NavInv, Around, Act
  <2> QED BY <1>3, <2>1, <2>2 DEF UserRemoves, Moved, NavInv, Around, ItemOK
<1>4. CASE DeleteCluster
  <2>1. Moved
    BY <1>1, <1>4, StaysMoves DEF DeleteCluster, Stays
  <2>2. removal' \in [stage : {"none", "sent", "done"}, cluster : Clusters \cup {None}] /\ config' \subseteq Clusters
    BY <1>1, <1>4 DEF DeleteCluster, NavInv, Around
  <2> QED BY <1>4, <2>1, <2>2 DEF DeleteCluster, Moved, NavInv, Around, ItemOK
<1>5. CASE Removed
  <2>1. Drawable /\ Goes(Selecting(ui, None))
    BY <1>1, <1>5 DEF Removed, Drawable
  <2>2. Moved
    BY <1>1, <2>1, SelectingSound, GoesMoves
  <2>3. /\ removal' \in [stage : {"none", "sent", "done"}, cluster : Clusters \cup {None}]
        /\ fetch' \in [stage : {"idle", "sent", "answered"}, got : SUBSET Clusters]
    BY <1>1, <1>5 DEF Removed
  <2> QED BY <1>5, <2>2, <2>3 DEF Removed, Moved, NavInv, Around, ItemOK
<1>6. CASE ConfigReads
  <2>1. Moved
    BY <1>1, <1>6, StaysMoves DEF ConfigReads, Stays
  <2>2. fetch' \in [stage : {"idle", "sent", "answered"}, got : SUBSET Clusters]
    BY <1>1, <1>6 DEF ConfigReads
  <2> QED BY <1>6, <2>1, <2>2 DEF ConfigReads, Moved, NavInv, Around, ItemOK
<1>7. CASE ConfigLands
  <2>1. known' \subseteq Clusters /\ fetch' \in [stage : {"idle", "sent", "answered"}, got : SUBSET Clusters]
    BY <1>1, <1>7 DEF ConfigLands
  <2>2. Moved
    BY <1>1, <1>7, <2>1, RendersMoves DEF ConfigLands, Drawable
  <2> QED BY <1>7, <2>1, <2>2 DEF ConfigLands, Moved, NavInv, Around, ItemOK
<1>8. CASE RouteMoves
  <2>1. up' \subseteq Clusters /\ acts' \in Nat
    BY <1>1, <1>8 DEF RouteMoves, Act, NavInv, Around
  <2>2. Moved
    BY <1>1, <1>8, RendersMoves DEF RouteMoves, Drawable
  <2> QED BY <1>8, <2>1, <2>2 DEF RouteMoves, Moved, NavInv, Around, ItemOK
<1>9. CASE ListLands
  <2>1. PICK c \in up, o \in Objects : lists' = [lists EXCEPT ![c] = IF o \in lists[c] THEN lists[c] \ {o} ELSE lists[c] \cup {o}]
    BY <1>9 DEF ListLands
  <2>2. c \in Clusters /\ (IF o \in lists[c] THEN lists[c] \ {o} ELSE lists[c] \cup {o}) \in SUBSET Objects
    BY <1>1
  <2>3. lists' \in [Clusters -> SUBSET Objects] /\ acts' \in Nat
    BY <1>1, <1>9, <2>1, <2>2 DEF ListLands, Act, NavInv, Around
  <2>4. Moved
    BY <1>1, <1>9, <2>3, RendersMoves DEF ListLands, Drawable
  <2> QED BY <1>9, <2>3, <2>4 DEF ListLands, Moved, NavInv, Around, ItemOK
<1> QED BY <1>2, <1>3, <1>4, <1>5, <1>6, <1>7, <1>8, <1>9

LEMMA NavInvStep == NavInv /\ [NavNext]_navVars => NavInv'
<1>1. ASSUME NavInv, NavNext PROVE NavInv'
  BY <1>1, UserStep, KeyStep, PaletteStep, ClosedStep, OutsideStep DEF NavNext
<1>2. ASSUME NavInv, UNCHANGED navVars PROVE NavInv'
  <2>1. Moved
    BY <1>2, StaysMoves DEF navVars, NavInv, OpenIsShown
  <2> QED BY <1>2, <2>1 DEF navVars, Moved, NavInv, Around, ItemOK
<1> QED BY <1>1, <1>2

LEMMA NavInvHolds == NavSpec => []NavInv
BY NavInvInit, NavInvStep, PTL DEF NavSpec

\* Every variable keeps its type, and the history a place to be at.
THEOREM NavTypeCorrect == NavSpec => []TypeOK
<1>1. NavInv => TypeOK
  <2> SUFFICES ASSUME NavInv PROVE TypeOK
    OBVIOUS
  <2>1. ui \in [selected : Clusters \cup {None}, routes : BOOLEAN, tab : Tabs, detail : Details]
    BY DEF NavInv, Placed, Sound, UIs
  <2>2. /\ history.places \in Seq(Places) /\ Len(history.places) <= MaxPlaces
        /\ history.at \in 0..Len(history.places) /\ (history.at = 0 <=> history.places = <<>>)
    <3>1. SoundPlaces \subseteq Places
      BY DEF SoundPlaces
    <3>2. history.places \in Seq(SoundPlaces) /\ history.at \in Nat /\ history.at <= Len(history.places)
      BY DEF NavInv, Placed, HistoryOK
    <3>3. history.places \in Seq(Places)
      BY <3>1, <3>2
    <3> QED BY <3>2, <3>3 DEF NavInv, Placed, HistoryOK
  <2> QED BY <2>1, <2>2 DEF NavInv, Around, OpenIsShown, WalkInv, TypeOK
<1> QED BY <1>1, NavInvHolds, PTL

\* The place the history is at is the one that is shown.
THEOREM PlaceIsShown == NavSpec => []PlaceShown
<1>1. NavInv => PlaceShown
  BY DEF NavInv, Placed, Sound, AtPlace, PlaceShown
<1> QED BY <1>1, NavInvHolds, PTL

\* One step back undoes a walk over any number of rows; with MaxPlaces = 1 it would not.
THEOREM OneBackUndoesAWalk == NavSpec => []WalkUndone
<1>1. NavInv => WalkUndone
  BY DEF NavInv, WalkInv
<1> QED BY <1>1, NavInvHolds, PTL

--------------------------------------------------------------------------------
(* The keys. *)

\* What a Command may take, inside the panel or outside it: no two of the lines
\* but those of Escape meet.  Off macOS a key with Shift is the one without.
Owns(id, p, key, mod, shift, inside) ==
  \/ id = "palette" /\ mod = TRUE /\ key \in {"K", "P"}
  \/ id = "show-shortcuts" /\ mod = FALSE /\ key = "?"
  \/ id = "select-cluster" /\ mod = TRUE /\ key \in {"1", "9"}
  \/ id = "refresh" /\ mod = TRUE /\ key = "R"
  \/ id = "open-settings" /\ mod = TRUE /\ key = "Comma"
  \/ id = "go-back" /\ mod = TRUE /\ p = "mac" /\ key = "[" /\ shift = FALSE
  \/ id = "go-back" /\ mod = FALSE /\ key = "Left"
  \/ id = "go-forward" /\ mod = TRUE /\ p = "mac" /\ key = "]" /\ shift = FALSE
  \/ id = "go-forward" /\ mod = FALSE /\ key = "Right"
  \/ id = "previous-view" /\ inside = FALSE /\ mod = TRUE /\ p = "mac" /\ key = "[" /\ shift = TRUE
  \/ id = "previous-view" /\ inside = FALSE /\ mod = TRUE /\ key = "PageUp"
  \/ id = "next-view" /\ inside = FALSE /\ mod = TRUE /\ p = "mac" /\ key = "]" /\ shift = TRUE
  \/ id = "next-view" /\ inside = FALSE /\ mod = TRUE /\ key = "PageDown"
  \/ id = "filter-view" /\ mod = TRUE /\ key = "F"
  \/ id = "filter-view" /\ mod = FALSE /\ key = "/"
  \/ id = "next-row" /\ mod = FALSE /\ key \in {"Down", "J"}
  \/ id = "previous-row" /\ mod = FALSE /\ key \in {"Up", "K"}
  \/ id \in {"close-detail", "cancel-yaml"} /\ mod = FALSE /\ key = "Escape"
  \/ id = "logs" /\ mod = FALSE /\ key = "L"
  \/ id = "shell" /\ mod = FALSE /\ key = "S"
  \/ id = "forward" /\ mod = FALSE /\ key = "F"
  \/ id = "details-tab" /\ mod = FALSE /\ key = "D"
  \/ id = "yaml-tab" /\ mod = FALSE /\ key = "Y"
  \/ id = "edit-yaml" /\ mod = FALSE /\ key = "E"
  \/ id = "review-yaml" /\ inside = FALSE /\ mod = TRUE /\ key = "S"
  \/ id = "toggle-panel" /\ mod = TRUE /\ key = "J"
  \/ id = "new-terminal" /\ mod = TRUE /\ key = "T"
  \/ id = "close-tab" /\ mod = TRUE /\ key = "W"
  \/ id = "previous-tab" /\ inside = TRUE /\ mod = TRUE /\ p = "mac" /\ key = "[" /\ shift = TRUE
  \/ id = "previous-tab" /\ inside = TRUE /\ mod = TRUE /\ key = "PageUp"
  \/ id = "next-tab" /\ inside = TRUE /\ mod = TRUE /\ p = "mac" /\ key = "]" /\ shift = TRUE
  \/ id = "next-tab" /\ inside = TRUE /\ mod = TRUE /\ key = "PageDown"
  \/ id = "select-log-lines" /\ mod = TRUE /\ key = "A"
  \/ id = "save-logs" /\ inside = TRUE /\ mod = TRUE /\ key = "S"
  \/ id = "follow-logs" /\ mod = TRUE /\ key \in {"Down", "End"}

\* A key at a place is of one Command, or of the two of Escape.
LEMMA OwnerIsOne ==
  ASSUME NEW a, NEW b, NEW p, NEW key, NEW mod, NEW shift, NEW inside,
         Owns(a, p, key, mod, shift, inside), Owns(b, p, key, mod, shift, inside)
  PROVE  a = b \/ (a = "close-detail" /\ b = "cancel-yaml") \/ (a = "cancel-yaml" /\ b = "close-detail")
BY DEF Owns

\* Off macOS no Command tells a key with Shift from the one without.
LEMMA ShiftKeepsOwner ==
  ASSUME NEW id, NEW p, p # "mac", NEW key, NEW mod, NEW shift, NEW inside, Owns(id, p, key, mod, shift, inside)
  PROVE  Owns(id, p, key, mod, TRUE, inside)
BY DEF Owns

\* The shapes of the keys in the catalog.
LEMMA ModIs ==
  ASSUME NEW k
  PROVE  Mod(k) = [key |-> k, mod |-> TRUE, shift |-> FALSE, alt |-> FALSE]
<1>1. /\ ("mod" \in {"mod"}) = TRUE /\ ("shift" \in {"mod"}) = FALSE /\ ("alt" \in {"mod"}) = FALSE
  OBVIOUS
<1> QED BY <1>1, Zenon DEF Mod, Key

LEMMA ModShiftIs ==
  ASSUME NEW k
  PROVE  ModShift(k) = [key |-> k, mod |-> TRUE, shift |-> TRUE, alt |-> FALSE]
<1>1. /\ ("mod" \in {"mod", "shift"}) = TRUE /\ ("shift" \in {"mod", "shift"}) = TRUE /\ ("alt" \in {"mod", "shift"}) = FALSE
  OBVIOUS
<1> QED BY <1>1, Zenon DEF ModShift, Key

LEMMA PlainIs ==
  ASSUME NEW k
  PROVE  Plain(k) = [key |-> k, mod |-> FALSE, shift |-> FALSE, alt |-> FALSE]
<1>1. /\ ("mod" \in {}) = FALSE /\ ("shift" \in {}) = FALSE /\ ("alt" \in {}) = FALSE
  OBVIOUS
<1> QED BY <1>1, Zenon DEF Plain, Key

LEMMA AltIs ==
  ASSUME NEW k
  PROVE  Key({"alt"}, k) = [key |-> k, mod |-> FALSE, shift |-> FALSE, alt |-> TRUE]
<1>1. /\ ("mod" \in {"alt"}) = FALSE /\ ("shift" \in {"alt"}) = FALSE /\ ("alt" \in {"alt"}) = TRUE
  OBVIOUS
<1> QED BY <1>1, Zenon DEF Key

LEMMA ShiftIs ==
  ASSUME NEW k
  PROVE  Key({"shift"}, k) = [key |-> k, mod |-> FALSE, shift |-> TRUE, alt |-> FALSE]
<1>1. /\ ("mod" \in {"shift"}) = FALSE /\ ("shift" \in {"shift"}) = TRUE /\ ("alt" \in {"shift"}) = FALSE
  OBVIOUS
<1> QED BY <1>1, Zenon DEF Key

\* A record of this shape, so that EXCEPT changes its field alone.
IsKey(k) == k = [key |-> k.key, mod |-> k.mod, shift |-> k.shift, alt |-> k.alt]

\* A Command with these keys is the owner of each of them, wherever it runs from.
OwnsOn(p, keys, id, panel) ==
  \A k \in keys, inside \in BOOLEAN :
    /\ IsKey(k)
    /\ (panel = "inside" => inside = TRUE) /\ (panel = "outside" => inside = FALSE)
         => Owns(id, p, k.key, k.mod, k.shift, inside)
OwnsKeys(x) == \A p \in Platforms : OwnsOn(p, x.keys[p], x.id, x.panel)

\* A Command of the catalog owns its keys when each of its sets does.
LEMMA EachOwned ==
  ASSUME NEW id, NEW group, NEW keys, NEW panel, \A p \in Platforms : OwnsOn(p, keys, id, panel)
  PROVE  OwnsKeys(Command(id, group, Each(keys), panel))
BY DEF OwnsKeys, Command, Each

LEMMA PerPlatformOwned ==
  ASSUME NEW id, NEW group, NEW mac, NEW other, NEW panel,
         OwnsOn("mac", mac, id, panel), OwnsOn("other", other, id, panel)
  PROVE  OwnsKeys(Command(id, group, PerPlatform(mac, other), panel))
BY DEF OwnsKeys, Command, PerPlatform, Platforms

\* Every Command of the catalog owns its keys on both platforms.
LEMMA CommandsOwn == \A x \in Commands : OwnsKeys(x)
<1>1. OwnsKeys(Command("palette", "anywhere", Each({Mod("K"), ModShift("P")}), "any"))
  <2>1. \A p \in Platforms : OwnsOn(p, {Mod("K"), ModShift("P")}, "palette", "any")
    BY ModShiftIs, ModIs DEF OwnsOn, Owns, IsKey
  <2> QED BY <2>1, EachOwned
<1>2. OwnsKeys(Command("show-shortcuts", "anywhere", Each({Plain("?")}), "any"))
  <2>1. \A p \in Platforms : OwnsOn(p, {Plain("?")}, "show-shortcuts", "any")
    BY PlainIs DEF OwnsOn, Owns, IsKey
  <2> QED BY <2>1, EachOwned
<1>3. OwnsKeys(Command("select-cluster", "anywhere", Each({Mod(d) : d \in Digits}), "any"))
  <2>1. \A p \in Platforms : OwnsOn(p, {Mod(d) : d \in Digits}, "select-cluster", "any")
    BY ModIs DEF OwnsOn, Owns, IsKey, Digits
  <2> QED BY <2>1, EachOwned
<1>4. OwnsKeys(Command("refresh", "anywhere", Each({Mod("R")}), "any"))
  <2>1. \A p \in Platforms : OwnsOn(p, {Mod("R")}, "refresh", "any")
    BY ModIs DEF OwnsOn, Owns, IsKey
  <2> QED BY <2>1, EachOwned
<1>5. OwnsKeys(Command("open-settings", "anywhere", Each({Mod("Comma")}), "any"))
  <2>1. \A p \in Platforms : OwnsOn(p, {Mod("Comma")}, "open-settings", "any")
    BY ModIs DEF OwnsOn, Owns, IsKey
  <2> QED BY <2>1, EachOwned
<1>6. OwnsKeys(Command("go-back", "anywhere", PerPlatform({Mod("[")}, {Key({"alt"}, "Left")}), "any"))
  <2>1. OwnsOn("mac", {Mod("[")}, "go-back", "any")
    BY ModIs DEF OwnsOn, Owns, IsKey
  <2>2. Key({"alt"}, "Left") = [key |-> "Left", mod |-> FALSE, shift |-> FALSE, alt |-> TRUE]
    BY AltIs, Zenon
  <2>3. OwnsOn("other", {Key({"alt"}, "Left")}, "go-back", "any")
    BY <2>2 DEF OwnsOn, Owns, IsKey
  <2> QED BY <2>1, <2>3, PerPlatformOwned
<1>7. OwnsKeys(Command("go-forward", "anywhere", PerPlatform({Mod("]")}, {Key({"alt"}, "Right")}), "any"))
  <2>1. OwnsOn("mac", {Mod("]")}, "go-forward", "any")
    BY ModIs DEF OwnsOn, Owns, IsKey
  <2>2. Key({"alt"}, "Right") = [key |-> "Right", mod |-> FALSE, shift |-> FALSE, alt |-> TRUE]
    BY AltIs, Zenon
  <2>3. OwnsOn("other", {Key({"alt"}, "Right")}, "go-forward", "any")
    BY <2>2 DEF OwnsOn, Owns, IsKey
  <2> QED BY <2>1, <2>3, PerPlatformOwned
<1>8. OwnsKeys(Command("previous-view", "cluster", PerPlatform({ModShift("[")}, {Mod("PageUp")}), "outside"))
  <2>1. OwnsOn("mac", {ModShift("[")}, "previous-view", "outside")
    BY ModShiftIs DEF OwnsOn, Owns, IsKey
  <2>2. OwnsOn("other", {Mod("PageUp")}, "previous-view", "outside")
    BY ModIs DEF OwnsOn, Owns, IsKey
  <2> QED BY <2>1, <2>2, PerPlatformOwned
<1>9. OwnsKeys(Command("next-view", "cluster", PerPlatform({ModShift("]")}, {Mod("PageDown")}), "outside"))
  <2>1. OwnsOn("mac", {ModShift("]")}, "next-view", "outside")
    BY ModShiftIs DEF OwnsOn, Owns, IsKey
  <2>2. OwnsOn("other", {Mod("PageDown")}, "next-view", "outside")
    BY ModIs DEF OwnsOn, Owns, IsKey
  <2> QED BY <2>1, <2>2, PerPlatformOwned
<1>10. OwnsKeys(Command("filter-view", "cluster", Each({Mod("F"), Plain("/")}), "any"))
  <2>1. \A p \in Platforms : OwnsOn(p, {Mod("F"), Plain("/")}, "filter-view", "any")
    BY ModIs, PlainIs DEF OwnsOn, Owns, IsKey
  <2> QED BY <2>1, EachOwned
<1>11. OwnsKeys(Command("next-row", "list", Each({Plain("Down"), Plain("J")}), "any"))
  <2>1. \A p \in Platforms : OwnsOn(p, {Plain("Down"), Plain("J")}, "next-row", "any")
    BY PlainIs DEF OwnsOn, Owns, IsKey
  <2> QED BY <2>1, EachOwned
<1>12. OwnsKeys(Command("previous-row", "list", Each({Plain("Up"), Plain("K")}), "any"))
  <2>1. \A p \in Platforms : OwnsOn(p, {Plain("Up"), Plain("K")}, "previous-row", "any")
    BY PlainIs DEF OwnsOn, Owns, IsKey
  <2> QED BY <2>1, EachOwned
<1>13. OwnsKeys(Command("close-detail", "detail", Each({Plain("Escape")}), "any"))
  <2>1. \A p \in Platforms : OwnsOn(p, {Plain("Escape")}, "close-detail", "any")
    BY PlainIs DEF OwnsOn, Owns, IsKey
  <2> QED BY <2>1, EachOwned
<1>14. OwnsKeys(Command("logs", "detail", Each({Plain("L")}), "any"))
  <2>1. \A p \in Platforms : OwnsOn(p, {Plain("L")}, "logs", "any")
    BY PlainIs DEF OwnsOn, Owns, IsKey
  <2> QED BY <2>1, EachOwned
<1>15. OwnsKeys(Command("shell", "detail", Each({Plain("S")}), "any"))
  <2>1. \A p \in Platforms : OwnsOn(p, {Plain("S")}, "shell", "any")
    BY PlainIs DEF OwnsOn, Owns, IsKey
  <2> QED BY <2>1, EachOwned
<1>16. OwnsKeys(Command("forward", "detail", Each({Key({"shift"}, "F")}), "any"))
  <2>1. Key({"shift"}, "F") = [key |-> "F", mod |-> FALSE, shift |-> TRUE, alt |-> FALSE]
    BY ShiftIs, Zenon
  <2>2. \A p \in Platforms : OwnsOn(p, {Key({"shift"}, "F")}, "forward", "any")
    BY <2>1 DEF OwnsOn, Owns, IsKey
  <2> QED BY <2>2, EachOwned
<1>17. OwnsKeys(Command("details-tab", "detail", Each({Plain("D")}), "any"))
  <2>1. \A p \in Platforms : OwnsOn(p, {Plain("D")}, "details-tab", "any")
    BY PlainIs DEF OwnsOn, Owns, IsKey
  <2> QED BY <2>1, EachOwned
<1>18. OwnsKeys(Command("yaml-tab", "detail", Each({Plain("Y")}), "any"))
  <2>1. \A p \in Platforms : OwnsOn(p, {Plain("Y")}, "yaml-tab", "any")
    BY PlainIs DEF OwnsOn, Owns, IsKey
  <2> QED BY <2>1, EachOwned
<1>19. OwnsKeys(Command("edit-yaml", "detail", Each({Plain("E")}), "any"))
  <2>1. \A p \in Platforms : OwnsOn(p, {Plain("E")}, "edit-yaml", "any")
    BY PlainIs DEF OwnsOn, Owns, IsKey
  <2> QED BY <2>1, EachOwned
<1>20. OwnsKeys(Command("review-yaml", "yaml", Each({Mod("S")}), "outside"))
  <2>1. \A p \in Platforms : OwnsOn(p, {Mod("S")}, "review-yaml", "outside")
    BY ModIs DEF OwnsOn, Owns, IsKey
  <2> QED BY <2>1, EachOwned
<1>21. OwnsKeys(Command("cancel-yaml", "yaml", Each({Plain("Escape")}), "any"))
  <2>1. \A p \in Platforms : OwnsOn(p, {Plain("Escape")}, "cancel-yaml", "any")
    BY PlainIs DEF OwnsOn, Owns, IsKey
  <2> QED BY <2>1, EachOwned
<1>22. OwnsKeys(Command("toggle-panel", "panel", Each({Mod("J")}), "any"))
  <2>1. \A p \in Platforms : OwnsOn(p, {Mod("J")}, "toggle-panel", "any")
    BY ModIs DEF OwnsOn, Owns, IsKey
  <2> QED BY <2>1, EachOwned
<1>23. OwnsKeys(Command("new-terminal", "panel", Each({Mod("T")}), "any"))
  <2>1. \A p \in Platforms : OwnsOn(p, {Mod("T")}, "new-terminal", "any")
    BY ModIs DEF OwnsOn, Owns, IsKey
  <2> QED BY <2>1, EachOwned
<1>24. OwnsKeys(Command("close-tab", "panel", Each({Mod("W")}), "any"))
  <2>1. \A p \in Platforms : OwnsOn(p, {Mod("W")}, "close-tab", "any")
    BY ModIs DEF OwnsOn, Owns, IsKey
  <2> QED BY <2>1, EachOwned
<1>25. OwnsKeys(Command("previous-tab", "panel", PerPlatform({ModShift("[")}, {Mod("PageUp")}), "inside"))
  <2>1. OwnsOn("mac", {ModShift("[")}, "previous-tab", "inside")
    BY ModShiftIs DEF OwnsOn, Owns, IsKey
  <2>2. OwnsOn("other", {Mod("PageUp")}, "previous-tab", "inside")
    BY ModIs DEF OwnsOn, Owns, IsKey
  <2> QED BY <2>1, <2>2, PerPlatformOwned
<1>26. OwnsKeys(Command("next-tab", "panel", PerPlatform({ModShift("]")}, {Mod("PageDown")}), "inside"))
  <2>1. OwnsOn("mac", {ModShift("]")}, "next-tab", "inside")
    BY ModShiftIs DEF OwnsOn, Owns, IsKey
  <2>2. OwnsOn("other", {Mod("PageDown")}, "next-tab", "inside")
    BY ModIs DEF OwnsOn, Owns, IsKey
  <2> QED BY <2>1, <2>2, PerPlatformOwned
<1>27. OwnsKeys(Command("select-log-lines", "logs", Each({Mod("A")}), "any"))
  <2>1. \A p \in Platforms : OwnsOn(p, {Mod("A")}, "select-log-lines", "any")
    BY ModIs DEF OwnsOn, Owns, IsKey
  <2> QED BY <2>1, EachOwned
<1>28. OwnsKeys(Command("save-logs", "logs", Each({Mod("S")}), "inside"))
  <2>1. \A p \in Platforms : OwnsOn(p, {Mod("S")}, "save-logs", "inside")
    BY ModIs DEF OwnsOn, Owns, IsKey
  <2> QED BY <2>1, EachOwned
<1>29. OwnsKeys(Command("follow-logs", "logs", PerPlatform({Mod("Down")}, {Mod("End")}), "inside"))
  <2>1. OwnsOn("mac", {Mod("Down")}, "follow-logs", "inside")
    BY ModIs DEF OwnsOn, Owns, IsKey
  <2>2. OwnsOn("other", {Mod("End")}, "follow-logs", "inside")
    BY ModIs DEF OwnsOn, Owns, IsKey
  <2> QED BY <2>1, <2>2, PerPlatformOwned
<1> QED BY <1>1, <1>2, <1>3, <1>4, <1>5, <1>6, <1>7, <1>8, <1>9, <1>10, <1>11, <1>12, <1>13, <1>14, <1>15, <1>16, <1>17, <1>18, <1>19, <1>20, <1>21, <1>22, <1>23, <1>24, <1>25, <1>26, <1>27, <1>28, <1>29 DEF Commands

\* A Command that gets a key where the focus is owns it there, Shift added or not.
LEMMA TakerOwns ==
  ASSUME NEW p \in Platforms, NEW x \in Commands, NEW k \in WithShift(p, x.keys[p]), NEW s, GetsKey(p, x, k, s)
  PROVE  Owns(x.id, p, k.key, k.mod, k.shift, InPanel(s))
<1> DEFINE inside == InPanel(s)
<1>1. inside \in BOOLEAN
  BY DEF InPanel
<1>2. (x.panel = "inside" => inside = TRUE) /\ (x.panel = "outside" => inside = FALSE)
  <2>1. ("inside" = "inside") = TRUE /\ ("outside" = "inside") = FALSE /\ "inside" # "any" /\ "outside" # "any"
    OBVIOUS
  <2> QED BY <2>1, Zenon DEF GetsKey
<1>3. \A y \in x.keys[p] : IsKey(y) /\ Owns(x.id, p, y.key, y.mod, y.shift, inside)
  <2> HIDE DEF inside
  <2> QED BY <1>1, <1>2, CommandsOwn DEF OwnsKeys, OwnsOn
<1>4. CASE k \in x.keys[p]
  BY <1>3, <1>4
<1>5. CASE p # "mac" /\ \E y \in x.keys[p] : k = [y EXCEPT !.shift = TRUE]
  <2>1. PICK y \in x.keys[p] : k = [y EXCEPT !.shift = TRUE]
    BY <1>5
  <2>2. k.key = y.key /\ k.mod = y.mod /\ k.shift = TRUE
    BY <1>3, <2>1 DEF IsKey
  <2>3. Owns(x.id, p, y.key, y.mod, TRUE, inside)
    BY <1>3, <1>5, ShiftKeepsOwner
  <2> QED BY <2>2, <2>3
<1> QED BY <1>4, <1>5 DEF WithShift

\* The Commands that meet are the two of Escape.
LEMMA EscapeIsContested == \A ids \in Contested : ids = {"cancel-yaml", "close-detail"}
<1> SUFFICES ASSUME NEW ids \in Contested PROVE ids = {"cancel-yaml", "close-detail"}
  OBVIOUS
<1>1. PICK p \in Platforms : \E k \in AllKeys(p), s \in Spots : ids = Claims[p][k][s]
  BY DEF Contested
<1>2. PICK k \in AllKeys(p), s \in Spots : ids = Claims[p][k][s]
  BY <1>1
<1>3. \A a \in ids : Owns(a, p, k.key, k.mod, k.shift, InPanel(s))
  BY <1>2, TakerOwns DEF Claims
<1>4. \A a, b \in ids : a = b \/ (a = "close-detail" /\ b = "cancel-yaml") \/ (a = "cancel-yaml" /\ b = "close-detail")
  BY <1>3, OwnerIsOne
<1>5. ids # {} /\ \A a : ids # {a}
  <2>1. Cardinality(ids) > 1
    BY DEF Contested
  <2>2. Cardinality({}) = 0 /\ \A a : Cardinality({a}) = 1
    BY FS_EmptySet, FS_Singleton, Zenon
  <2>3. ~(0 > 1) /\ ~(1 > 1)
    OBVIOUS
  <2> QED BY <2>1, <2>2, <2>3, Zenon
<1>6. PICK a \in ids, b \in ids : a # b
  <2>1. PICK a \in ids : TRUE
    BY <1>5
  <2>2. PICK b \in ids : a # b
    BY <1>5, <2>1
  <2> QED BY <2>2
<1>7. {a, b} = {"cancel-yaml", "close-detail"}
  BY <1>4, <1>6
<1>8. \A c \in ids : c \in {a, b}
  BY <1>4, <1>6
<1> QED BY <1>6, <1>7, <1>8

\* Whatever Commands are there, at most one of them takes a key, but Escape in the editor.
THEOREM KeyHasOneTaker == NavSpec => []OneTaker
<1>1. OneTaker
  <2> SUFFICES ASSUME NEW ids \in Contested
               PROVE  Cardinality(ids \cap Runnable) <= 1 \/ ids \cap Runnable = {"cancel-yaml", "close-detail"}
    BY DEF OneTaker
  <2> DEFINE takers == ids \cap Runnable
  <2>1. takers \subseteq {"cancel-yaml", "close-detail"}
    BY EscapeIsContested
  <2>2. takers = {} \/ takers = {"cancel-yaml"} \/ takers = {"close-detail"} \/ takers = {"cancel-yaml", "close-detail"}
    BY <2>1
  <2>3. Cardinality({}) = 0 /\ Cardinality({"cancel-yaml"}) = 1 /\ Cardinality({"close-detail"}) = 1
    BY FS_EmptySet, FS_Singleton
  <2> HIDE DEF takers
  <2>4. Cardinality(takers) <= 1 \/ takers = {"cancel-yaml", "close-detail"}
    BY <2>2, <2>3
  <2> QED BY <2>4 DEF takers
<1> QED BY <1>1, PTL
================================================================================
