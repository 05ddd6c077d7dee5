------------------------------- MODULE DockProofs -------------------------------
(***************************************************************************)
(* What the dock keeps for any number of sessions, calls and acts: one tab *)
(* each, what was closed stays closed, and no session is hidden.           *)
(*                                                                         *)
(* Each operation of the store keeps it Sound, and shows what it is told.  *)
(* The rest is what the calls, events and snapshots on their way may say:  *)
(* of sessions that were started, and that a stream stopped only once it   *)
(* was asked to (Announced, CallSound).                                    *)
(***************************************************************************)
EXTENDS Dock, Integers, FiniteSetTheorems, WellFoundedInduction, TLAPS

Stores == [shown : [Ids -> Statuses \cup {"none"}], order : Seq(Ids), closed : SUBSET Ids]
Started == 1..started
Once(seq) == \A i, j \in DOMAIN seq : seq[i] = seq[j] => i = j

\* A store whose tabs are its sessions, and that remembers what was closed.
Sound(u) ==
  /\ u \in Stores
  /\ Elements(u.order) = Present(u) /\ Once(u.order)
  /\ Present(u) \subseteq Started
  /\ \A id \in u.closed : u.shown[id] = "none" /\ id \in Started /\ KindOf(id) # "log"

SessionsInv ==
  /\ started \in 0..MaxSessions /\ source \in [Ids -> Sources \cup {NoSource}]
  /\ \A id \in Started : source[id] \in Sources
  /\ registered \subseteq Started /\ cancelled \subseteq Started
  /\ run \in [Ids -> RunStates] /\ \A id \in Ids : run[id] # "none" => id \in Started

\* A call that starts a session closes sessions only in place of one; one that stops sessions has cancelled the
\* one it waits for.
CallSound(c) ==
  /\ c \in Call
  /\ c.op = "start" => /\ c.src \in Sources
                       /\ IF c.phase = "answered" THEN c.id \in Started /\ source[c.id] = c.src ELSE c.id = None
                       /\ c.src.kind # "log" => \A id \in c.closes : id \in Started /\ KindOf(id) # "log"
  /\ c.op \in {"stop", "delete"} /\ c.id # None => c.id \in cancelled
CallsInv == call \in [Slots -> Call] /\ \A k \in Slots : CallSound(call[k])

\* A stream is told to have stopped only once it was stopped.
Announced(e) ==
  /\ e \in EventType /\ e.id \in Started
  /\ e.st = "stopped" /\ KindOf(e.id) = "log" => e.id \in cancelled
EventsInv == events \in Seq(EventType) /\ \A i \in DOMAIN events : Announced(events[i])

Told == [id : Ids, st : {"error", "idle", "live"}]
Answer1(a) == a \in Seq(Told) /\ \A i \in DOMAIN a : a[i].id \in Started
SnapshotsInv == \A a \in snapshots : Answer1(a)

PlacesInv == clusters \subseteq Clusters /\ asked \subseteq Kinds

DockInv == PlacesInv /\ SessionsInv /\ CallsInv /\ EventsInv /\ SnapshotsInv /\ Sound(ui) /\ NoHiddenSession

--------------------------------------------------------------------------------
(* Recursion and sequences. *)

\* A set of naturals has a least element: the one lemma here that needs induction.
LEMMA LeastExists ==
  ASSUME NEW S \in SUBSET Nat, S # {}
  PROVE  \E m \in S : \A n \in S : m <= n
<1>1. PICK m \in S : \A n \in S : ~ (<<n, m>> \in OpToRel(<, Nat))
  BY NatLessThanWellFounded, WFMin, Zenon
<1>2. ASSUME NEW n \in S PROVE m <= n
  <2>1. ~ (n < m)
    BY <1>1 DEF OpToRel
  <2> QED BY <2>1
<1> QED BY <1>2

\* A fold over 1..n exists: the values built so far extend by one.
IsFold(f, n, v0, F) == f[0] = v0 /\ \A i \in 1..n : f[i] = F[<<i, f[i - 1]>>]
LEMMA FoldExists ==
  ASSUME NEW n \in Nat, NEW V, NEW v0 \in V, NEW F \in [(1..n) \X V -> V]
  PROVE  \E f \in [0..n -> V] : IsFold(f, n, v0, F)
<1> USE DEF IsFold
<1> DEFINE Built(m, f) == IsFold(f, m, v0, F)
           Missing == {m \in 0..n : ~ \E f \in [0..m -> V] : Built(m, f)}
<1>1. SUFFICES ASSUME Missing # {} PROVE FALSE
  <2>1. n \notin Missing => \E f \in [0..n -> V] : Built(n, f)
    OBVIOUS
  <2> QED BY <1>1, <2>1
<1>2. PICK m \in Missing : \A l \in Missing : m <= l
  <2>1. Missing \subseteq Nat
    OBVIOUS
  <2> HIDE DEF Missing
  <2> QED BY <1>1, <2>1, LeastExists
<1>3. m # 0
  <2>1. [i \in 0..0 |-> v0] \in [0..0 -> V] /\ Built(0, [i \in 0..0 |-> v0])
    OBVIOUS
  <2> QED BY <2>1, <1>2
<1>4. PICK f \in [0..(m - 1) -> V] : Built(m - 1, f)
  <2>1. m \in 1..n /\ m - 1 \in 0..n /\ m - 1 \notin Missing
    BY <1>2, <1>3
  <2> QED BY <2>1
<1> DEFINE g == [i \in 0..m |-> IF i = m THEN F[<<m, f[m - 1]>>] ELSE f[i]]
<1>5. m \in 1..n /\ f[m - 1] \in V
  BY <1>2, <1>3
<1>6. F[<<m, f[m - 1]>>] \in V
  BY <1>5
<1>7. g \in [0..m -> V]
  BY <1>5, <1>6
<1>8. Built(m, g)
  <2>1. g[0] = v0
    BY <1>4, <1>5
  <2>2. ASSUME NEW i \in 1..m PROVE g[i] = F[<<i, g[i - 1]>>]
    <3>1. g[i - 1] = f[i - 1]
      BY <1>5
    <3>2. CASE i = m
      <4>1. g[m] = F[<<m, f[m - 1]>>]
        BY <1>5
      <4> HIDE DEF g
      <4> QED BY <3>1, <3>2, <4>1
    <3>3. CASE i # m
      <4>1. g[i] = f[i] /\ i \in 1..(m - 1)
        BY <3>3, <1>5
      <4> HIDE DEF g
      <4> QED BY <3>1, <4>1, <1>4
    <3> QED BY <3>2, <3>3
  <2> QED BY <2>1, <2>2
<1> QED BY <1>2, <1>7, <1>8

LEMMA AppendAdds ==
  ASSUME NEW S, NEW seq \in Seq(S), NEW e \in S
  PROVE  /\ Append(seq, e) \in Seq(S)
         /\ Elements(Append(seq, e)) = Elements(seq) \cup {e}
         /\ Once(seq) /\ e \notin Elements(seq) => Once(Append(seq, e))
<1> DEFINE a == Append(seq, e)
           n == Len(seq)
<1>1. /\ n \in Nat /\ DOMAIN seq = 1..n /\ DOMAIN a = 1..(n + 1)
      /\ a[n + 1] = e /\ \A i \in 1..n : a[i] = seq[i]
      /\ a \in Seq(S)
  OBVIOUS
<1> HIDE DEF a, n
<1> QED BY <1>1 DEF Elements, Once, a

\* What is taken out of a sequence is what is gone, and nothing comes twice that came once.
LEMMA WithoutTakesOut ==
  ASSUME NEW S, NEW seq \in Seq(S), NEW gone
  PROVE  /\ Without(seq, gone) \in Seq(S)
         /\ Elements(Without(seq, gone)) = Elements(seq) \ gone
         /\ Once(seq) => Once(Without(seq, gone))
<1> DEFINE n == Len(seq)
           kept[i \in 0..Len(seq)] ==
             IF i = 0 THEN <<>> ELSE IF seq[i] \in gone THEN kept[i - 1] ELSE Append(kept[i - 1], seq[i])
           Step == [p \in (1..n) \X Seq(S) |-> IF seq[p[1]] \in gone THEN p[2] ELSE Append(p[2], seq[p[1]])]
           IsKept(k) == k = [i \in 0..n |-> IF i = 0 THEN <<>> ELSE IF seq[i] \in gone THEN k[i - 1]
                                            ELSE Append(k[i - 1], seq[i])]
<1>1. n \in Nat /\ DOMAIN seq = 1..n /\ \A i \in 1..n : seq[i] \in S
  OBVIOUS
<1>2. \E k : IsKept(k)
  <2>1. Step \in [(1..n) \X Seq(S) -> Seq(S)]
    BY <1>1
  <2>2. <<>> \in Seq(S)
    OBVIOUS
  <2> DEFINE V == Seq(S)
  <2>3. Step \in [(1..n) \X V -> V] /\ <<>> \in V
    BY <2>1, <2>2
  <2> HIDE DEF Step, n, V
  <2>4. PICK f \in [0..n -> V] : IsFold(f, n, <<>>, Step)
    BY <1>1, <2>3, FoldExists
  <2>5. ASSUME NEW i \in 1..n
        PROVE  f[i] = IF seq[i] \in gone THEN f[i - 1] ELSE Append(f[i - 1], seq[i])
    <3>1. <<i, f[i - 1]>> \in (1..n) \X Seq(S)
      BY <1>1, <2>4 DEF V
    <3>2. Step[<<i, f[i - 1]>>] = IF seq[i] \in gone THEN f[i - 1] ELSE Append(f[i - 1], seq[i])
      BY <3>1 DEF Step
    <3> QED BY <2>4, <3>2 DEF IsFold
  <2>6. ASSUME NEW i \in 0..n
        PROVE  f[i] = IF i = 0 THEN <<>> ELSE IF seq[i] \in gone THEN f[i - 1] ELSE Append(f[i - 1], seq[i])
    <3>1. CASE i = 0
      BY <3>1, <2>4 DEF IsFold
    <3>2. CASE i # 0
      <4>1. i \in 1..n
        BY <3>2, <1>1
      <4> QED BY <4>1, <3>2, <2>5
    <3> QED BY <3>1, <3>2
  <2>7. IsKept(f)
    BY <2>4, <2>6
  <2> QED BY <2>7
<1>3. IsKept(kept)
  <2>1. kept = CHOOSE k : IsKept(k)
    OBVIOUS
  <2> QED BY <2>1, <1>2
<1>4. Without(seq, gone) = kept[n]
  BY DEF Without
<1> HIDE DEF kept
<1>5. \A i \in 0..n : kept[i] = IF i = 0 THEN <<>> ELSE IF seq[i] \in gone THEN kept[i - 1]
                                  ELSE Append(kept[i - 1], seq[i])
  BY <1>3
<1>6. kept[0] = <<>> /\ \A i \in 1..n : kept[i] = IF seq[i] \in gone THEN kept[i - 1] ELSE Append(kept[i - 1], seq[i])
  BY <1>1, <1>5
<1> DEFINE Good(i) == /\ kept[i] \in Seq(S)
                      /\ Elements(kept[i]) = {seq[j] : j \in 1..i} \ gone
                      /\ Once(seq) => Once(kept[i])
           Bad == {i \in 0..n : ~ Good(i)}
<1>7. Good(0)
  BY <1>6 DEF Elements, Once
<1>8. ASSUME NEW i \in 1..n, Good(i - 1) PROVE Good(i)
  <2> DEFINE k == kept[i - 1]
  <2>1. {seq[j] : j \in 1..i} = {seq[j] : j \in 1..(i - 1)} \cup {seq[i]}
    BY <1>1
  <2>2. CASE seq[i] \in gone
    <3>1. kept[i] = k
      BY <2>2, <1>6
    <3> QED BY <3>1, <2>1, <2>2, <1>8
  <2>3. CASE seq[i] \notin gone
    <3>1. kept[i] = Append(k, seq[i]) /\ k \in Seq(S) /\ seq[i] \in S
      BY <2>3, <1>1, <1>6, <1>8
    <3>2. Elements(Append(k, seq[i])) = Elements(k) \cup {seq[i]}
      BY <3>1, AppendAdds
    <3>3. Once(seq) => seq[i] \notin Elements(k)
      BY <1>1, <1>8 DEF Once
    <3>4. Once(seq) => Once(Append(k, seq[i]))
      BY <3>1, <3>3, <1>8, AppendAdds
    <3>5. kept[i] \in Seq(S)
      BY <3>1
    <3> HIDE DEF k
    <3>6. Elements(k) = {seq[j] : j \in 1..(i - 1)} \ gone
      BY <1>8 DEF k
    <3> QED BY <3>1, <3>2, <3>4, <3>5, <3>6, <2>1, <2>3
  <2> QED BY <2>2, <2>3
<1> HIDE DEF Good
<1>9. Bad = {}
  <2>1. SUFFICES ASSUME Bad # {} PROVE FALSE
    OBVIOUS
  <2>2. Bad \subseteq Nat
    OBVIOUS
  <2> HIDE DEF Bad
  <2>3. PICK m \in Bad : \A l \in Bad : m <= l
    BY <2>1, <2>2, LeastExists
  <2>4. m \in 1..n /\ m - 1 \in 0..n /\ m - 1 \notin Bad
    BY <1>1, <1>7, <2>3 DEF Bad
  <2>5. Good(m - 1) /\ ~ Good(m)
    BY <2>3, <2>4 DEF Bad
  <2> QED BY <2>4, <2>5, <1>8
<1>10. Good(n)
  BY <1>1, <1>9
<1>11. Elements(seq) = {seq[j] : j \in 1..n}
  BY <1>1 DEF Elements
<1> QED BY <1>4, <1>10, <1>11 DEF Good

LEMMA Joined ==
  ASSUME NEW S, NEW a \in Seq(S), NEW b \in Seq(S)
  PROVE  /\ a \o b \in Seq(S) /\ Len(a \o b) = Len(a) + Len(b)
         /\ \A i \in 1..(Len(a) + Len(b)) : (a \o b)[i] = IF i <= Len(a) THEN a[i] ELSE b[i - Len(a)]
OBVIOUS

\* One more put into a sequence, wherever.
LEMMA PutIn ==
  ASSUME NEW S, NEW rest \in Seq(S), NEW e \in S, NEW at \in 1..(Len(rest) + 1),
         Once(rest), e \notin Elements(rest)
  PROVE  LET q == SubSeq(rest, 1, at - 1) \o <<e>> \o SubSeq(rest, at, Len(rest))
         IN  q \in Seq(S) /\ Elements(q) = Elements(rest) \cup {e} /\ Once(q)
<1> DEFINE n == Len(rest)
           left == SubSeq(rest, 1, at - 1)
           right == SubSeq(rest, at, n)
           q == left \o <<e>> \o right
<1>1. n \in Nat /\ DOMAIN rest = 1..n /\ \A i \in 1..n : rest[i] \in S
  OBVIOUS
<1>2. left \in Seq(S) /\ Len(left) = at - 1 /\ \A i \in 1..(at - 1) : left[i] = rest[i]
  BY <1>1
<1>3. right \in Seq(S) /\ Len(right) = n - at + 1 /\ \A i \in 1..(n - at + 1) : right[i] = rest[at + i - 1]
  BY <1>1
<1> DEFINE one == left \o <<e>>
<1> HIDE DEF left, right
<1>4. one \in Seq(S) /\ Len(one) = at /\ \A i \in 1..at : one[i] = IF i < at THEN rest[i] ELSE e
  BY <1>1, <1>2
<1>5. q = one \o right
  OBVIOUS
<1> HIDE DEF one, q, n
<1>6. n \in Nat /\ at \in 1..(n + 1)
  BY DEF n
<1>7. /\ q \in Seq(S) /\ Len(q) = Len(one) + Len(right)
       /\ \A i \in 1..(Len(one) + Len(right)) : q[i] = IF i <= Len(one) THEN one[i] ELSE right[i - Len(one)]
  BY <1>3, <1>4, <1>5, Joined
<1>8. q \in Seq(S) /\ Len(q) = n + 1 /\ DOMAIN q = 1..(n + 1)
  <2>1. Len(one) + Len(right) = n + 1
    BY <1>3, <1>4, <1>6
  <2> QED BY <2>1, <1>7
<1>9. \A i \in 1..(n + 1) : q[i] = IF i < at THEN rest[i] ELSE IF i = at THEN e ELSE rest[i - 1]
  <2>1. SUFFICES ASSUME NEW i \in 1..(n + 1)
        PROVE  q[i] = IF i < at THEN rest[i] ELSE IF i = at THEN e ELSE rest[i - 1]
    OBVIOUS
  <2>2. q[i] = IF i <= at THEN one[i] ELSE right[i - at]
    BY <1>3, <1>4, <1>6, <1>7
  <2>3. i > at => i - at \in 1..(n - at + 1) /\ at + (i - at) - 1 = i - 1
    BY <1>6
  <2>4. i <= at => i \in 1..at
    BY <1>6
  <2> QED BY <1>3, <1>4, <1>6, <2>2, <2>3, <2>4
<1>10. ASSUME NEW i \in 1..(n + 1) PROVE q[i] \in Elements(rest) \cup {e}
  <2>1. i < at => i \in 1..n
    BY <1>1 DEF n
  <2>2. i > at => i - 1 \in 1..n
    BY <1>1 DEF n
  <2>3. \A j \in 1..n : rest[j] \in Elements(rest)
    BY <1>1 DEF Elements
  <2> QED BY <1>1, <1>9, <2>1, <2>2, <2>3
<1>11. e \in Elements(q)
  BY <1>1, <1>8, <1>9 DEF Elements, n
<1>12. ASSUME NEW i \in 1..n PROVE rest[i] \in Elements(q)
  <2>1. CASE i < at
    <3>1. i \in DOMAIN q /\ q[i] = rest[i]
      BY <2>1, <1>1, <1>8, <1>9
    <3> QED BY <3>1 DEF Elements
  <2>2. CASE ~ (i < at)
    <3>1. i + 1 \in DOMAIN q /\ q[i + 1] = rest[i]
      BY <2>2, <1>1, <1>8, <1>9
    <3> QED BY <3>1 DEF Elements
  <2> QED BY <2>1, <2>2
<1>13. Elements(q) = Elements(rest) \cup {e}
  <2>1. Elements(q) = {q[i] : i \in 1..(n + 1)} /\ Elements(rest) = {rest[i] : i \in 1..n}
    BY <1>1, <1>8 DEF Elements
  <2> QED BY <2>1, <1>10, <1>11, <1>12
<1>14. Once(q)
  <2>1. \A j \in 1..n : rest[j] # e
    BY <1>1 DEF Elements
  <2>2. \A i, j \in 1..n : rest[i] = rest[j] => i = j
    BY <1>1 DEF Once
  <2>3. n \in Nat /\ at \in 1..(n + 1)
    BY <1>1 DEF n
  <2>4. SUFFICES ASSUME NEW i \in 1..(n + 1), NEW j \in 1..(n + 1), q[i] = q[j] PROVE i = j
    BY <1>8 DEF Once
  <2> DEFINE from(x) == IF x < at THEN x ELSE x - 1
  <2>5. CASE i = at \/ j = at
    <3>1. \A x \in 1..(n + 1) : x # at => from(x) \in 1..n /\ q[x] = rest[from(x)]
      BY <2>3, <1>9
    <3>2. q[at] = e
      BY <2>3, <1>9
    <3> QED BY <2>1, <2>3, <2>4, <2>5, <3>1, <3>2
  <2>6. CASE i # at /\ j # at
    <3>1. from(i) \in 1..n /\ q[i] = rest[from(i)] /\ from(j) \in 1..n /\ q[j] = rest[from(j)]
      BY <2>3, <2>6, <1>9
    <3>2. from(i) = from(j)
      BY <2>2, <2>4, <3>1
    <3> QED BY <2>3, <2>6, <3>2
  <2> QED BY <2>5, <2>6
<1> QED BY <1>8, <1>13, <1>14 DEF q, n, left, right

--------------------------------------------------------------------------------
(* The operations of the store: each keeps it sound, and hides no other session. *)

Visible(u, id) == u.shown[id] # "none" \/ id \in u.closed
Hides(u, v) == \E id \in Ids : Visible(u, id) /\ ~ Visible(v, id)

LEMMA StartedAreIds == SessionsInv => Started \subseteq Ids
BY DockAssumption DEF SessionsInv, Started, Ids

LEMMA ShowSound ==
  ASSUME SessionsInv, NEW u, Sound(u), NEW id \in Started, id \notin u.closed, NEW st \in Statuses
  PROVE  /\ Sound(Show(u, id, st)) /\ Show(u, id, st).shown = [u.shown EXCEPT ![id] = st]
         /\ Show(u, id, st).closed = u.closed
<1> DEFINE v == Show(u, id, st)
<1>1. u \in Stores /\ id \in Ids /\ "none" \notin Statuses
  BY StartedAreIds DEF Sound, Statuses
<1>2. v.shown = [u.shown EXCEPT ![id] = st] /\ v.closed = u.closed
  BY <1>1 DEF Show, AddDockTab, Stores
<1>3. v.order = IF u.shown[id] = "none" THEN Append(u.order, id) ELSE u.order
  BY <1>1 DEF Show, AddDockTab, Stores
<1>4. Present(v) = Present(u) \cup {id}
  BY <1>1, <1>2 DEF Present, Stores
<1>5. v \in Stores
  <2> DEFINE w == [u EXCEPT !.shown[id] = st]
  <2>1. w \in Stores
    BY <1>1 DEF Stores
  <2>2. v = IF u.shown[id] = "none" THEN [w EXCEPT !.order = Append(@, id)] ELSE w
    BY DEF Show, AddDockTab
  <2> HIDE DEF w, v
  <2>3. Append(w.order, id) \in Seq(Ids)
    BY <2>1, <1>1 DEF Stores
  <2>4. [w EXCEPT !.order = Append(@, id)] \in Stores
    BY <2>1, <2>3 DEF Stores
  <2> QED BY <2>1, <2>2, <2>4
<1>6. Elements(v.order) = Present(v) /\ Once(v.order)
  <2>1. CASE u.shown[id] = "none"
    <3>1. id \notin Elements(u.order)
      BY <2>1 DEF Sound, Present
    <3>2. u.order \in Seq(Ids)
      BY <1>1 DEF Stores
    <3>3. Elements(Append(u.order, id)) = Elements(u.order) \cup {id} /\ Once(Append(u.order, id))
      BY <3>1, <3>2, <1>1, AppendAdds DEF Sound
    <3> QED BY <2>1, <3>3, <1>3, <1>4 DEF Sound
  <2>2. CASE u.shown[id] # "none"
    BY <2>2, <1>1, <1>3, <1>4 DEF Sound, Present
  <2> QED BY <2>1, <2>2
<1> HIDE DEF v
<1>7. Present(v) \subseteq Started
  BY <1>4 DEF Sound
<1>8. \A x \in v.closed : v.shown[x] = "none" /\ x \in Started /\ KindOf(x) # "log"
  BY <1>1, <1>2 DEF Sound, Stores
<1> QED BY <1>2, <1>5, <1>6, <1>7, <1>8 DEF Sound, v

LEMMA RemoveSound ==
  ASSUME SessionsInv, NEW u, Sound(u), NEW id \in Started
  PROVE  /\ Sound(Remove(u, id)) /\ Remove(u, id).shown = [u.shown EXCEPT ![id] = "none"]
         /\ Remove(u, id).closed = u.closed
<1> DEFINE v == Remove(u, id)
<1>1. u \in Stores /\ id \in Ids /\ "none" \notin Statuses /\ u.order \in Seq(Ids)
  BY StartedAreIds DEF Sound, Statuses, Stores
<1>2. v.shown = [u.shown EXCEPT ![id] = "none"] /\ v.closed = u.closed /\ v.order = Without(u.order, {id})
  BY <1>1 DEF Remove, Stores
<1>3. /\ v.order \in Seq(Ids) /\ Elements(v.order) = Elements(u.order) \ {id} /\ Once(v.order)
  BY <1>1, <1>2, WithoutTakesOut DEF Sound
<1>4. Present(v) = Present(u) \ {id}
  BY <1>1, <1>2 DEF Present, Stores
<1>5. v \in Stores
  BY <1>1, <1>2, <1>3 DEF Remove, Stores
<1> HIDE DEF v
<1>6. \A x \in v.closed : v.shown[x] = "none" /\ x \in Started /\ KindOf(x) # "log"
  BY <1>1, <1>2 DEF Sound, Stores
<1> QED BY <1>2, <1>3, <1>4, <1>5, <1>6 DEF Sound, v

\* closeShell and closeTerminal hide what they remember as closed.
LEMMA CloseSound ==
  ASSUME SessionsInv, NEW u, Sound(u), NEW id \in Started, KindOf(id) # "log"
  PROVE  Sound(CloseSession(u, id)) /\ ~ Hides(u, CloseSession(u, id))
<1>1. CASE u.shown[id] = "none"
  BY <1>1 DEF CloseSession, Hides
<1>2. CASE u.shown[id] # "none"
  <2> DEFINE w == Remove(u, id)
             v == [w EXCEPT !.closed = @ \cup {id}]
  <2>1. CloseSession(u, id) = v
    BY <1>2 DEF CloseSession
  <2>2. Sound(w) /\ w.shown = [u.shown EXCEPT ![id] = "none"] /\ w.closed = u.closed
    BY RemoveSound
  <2> HIDE DEF w
  <2>3. w \in Stores /\ u \in Stores /\ id \in Ids
    BY <2>2, StartedAreIds DEF Sound
  <2>4. v \in Stores /\ v.shown = w.shown /\ v.order = w.order /\ v.closed = w.closed \cup {id}
    BY <2>3 DEF Stores
  <2> HIDE DEF v
  <2>5. Present(v) = Present(w)
    BY <2>4 DEF Present
  <2>6. v.shown[id] = "none"
    BY <2>2, <2>3, <2>4 DEF Stores
  <2>7. Sound(v)
    BY <2>2, <2>4, <2>5, <2>6 DEF Sound
  <2>8. ~ Hides(u, v)
    BY <2>2, <2>3, <2>4 DEF Hides, Visible, Stores
  <2> QED BY <2>1, <2>7, <2>8
<1> QED BY <1>1, <1>2

LEMMA CloseAllSound ==
  ASSUME SessionsInv, NEW u, Sound(u), NEW ids, \A id \in ids : id \in Started /\ KindOf(id) # "log"
  PROVE  Sound(CloseAll(u, ids)) /\ ~ Hides(u, CloseAll(u, ids))
<1>1. CASE ids = {}
  BY <1>1 DEF CloseAll, Hides
<1>2. CASE ids # {}
  <2> DEFINE id == CHOOSE id \in ids : TRUE
  <2>1. id \in ids
    BY <1>2
  <2>2. CloseAll(u, ids) = CloseSession(u, id)
    BY <1>2 DEF CloseAll
  <2> HIDE DEF id
  <2> QED BY <2>1, <2>2, CloseSound
<1> QED BY <1>1, <1>2

\* An event or a snapshot shows the session it tells of, unless that is a stream that was stopped.
LEMMA SetStatusSound ==
  ASSUME SessionsInv, NEW u, Sound(u), NEW id \in Started, NEW st \in Statuses
  PROVE  LET v == SetStatus(u, id, st)
         IN  /\ Sound(v)
             /\ \A x \in Ids : Visible(u, x) => Visible(v, x) \/ (x = id /\ st = "stopped" /\ KindOf(id) = "log")
             /\ Visible(v, id) \/ (st = "stopped" /\ KindOf(id) = "log")
<1> DEFINE v == SetStatus(u, id, st)
<1>0. u \in Stores /\ id \in Ids /\ "none" \notin Statuses
  BY StartedAreIds DEF Sound, Statuses
<1>1. CASE KindOf(id) # "log" /\ id \in u.closed
  <2>1. v = u
    BY <1>1 DEF SetStatus, SetSessionStatus
  <2> QED BY <2>1, <1>1 DEF Visible
<1>2. CASE KindOf(id) = "log" /\ st = "stopped" /\ u.shown[id] = "none"
  <2>1. v = u
    BY <1>2 DEF SetStatus, SetLogStatus
  <2> QED BY <2>1, <1>2
<1>3. CASE KindOf(id) = "log" /\ st = "stopped" /\ u.shown[id] # "none"
  <2>1. v = Remove(u, id)
    BY <1>3 DEF SetStatus, SetLogStatus
  <2>2. Sound(v) /\ v.shown = [u.shown EXCEPT ![id] = "none"] /\ v.closed = u.closed
    BY <2>1, RemoveSound
  <2> HIDE DEF v
  <2>3. \A x \in Ids : x # id => (Visible(u, x) => Visible(v, x))
    BY <2>2, <1>0 DEF Visible, Stores
  <2> QED BY <2>2, <2>3, <1>3 DEF v
<1>4. CASE (KindOf(id) = "log" /\ st # "stopped") \/ (KindOf(id) # "log" /\ id \notin u.closed)
  <2>1. v = Show(u, id, st)
    BY <1>4 DEF SetStatus, SetSessionStatus, SetLogStatus
  <2>2. id \notin u.closed
    BY <1>4 DEF Sound
  <2>3. Sound(v) /\ v.shown = [u.shown EXCEPT ![id] = st] /\ v.closed = u.closed
    BY <2>1, <2>2, ShowSound
  <2> HIDE DEF v
  <2>4. (\A x \in Ids : Visible(u, x) => Visible(v, x)) /\ Visible(v, id)
    BY <2>3, <1>0 DEF Visible, Stores
  <2> QED BY <2>3, <2>4 DEF v
<1> QED BY <1>1, <1>2, <1>3, <1>4

\* A snapshot shows every session it tells of.
LEMMA SetAllSound ==
  ASSUME SessionsInv, NEW u, Sound(u), NEW a, Answer1(a)
  PROVE  LET v == SetAll(u, a)
         IN  Sound(v) /\ ~ Hides(u, v) /\ \A i \in DOMAIN a : Visible(v, a[i].id)
<1> DEFINE n == Len(a)
           V == {v \in Stores : Sound(v)}
           after[i \in 0..Len(a)] == IF i = 0 THEN u ELSE SetStatus(after[i - 1], a[i].id, a[i].st)
           Step == [p \in (1..n) \X V |-> SetStatus(p[2], a[p[1]].id, a[p[1]].st)]
           IsAfter(f) == f = [i \in 0..n |-> IF i = 0 THEN u ELSE SetStatus(f[i - 1], a[i].id, a[i].st)]
<1>1. /\ n \in Nat /\ DOMAIN a = 1..n
      /\ \A i \in 1..n : a[i].id \in Started /\ a[i].id \in Ids /\ a[i].st \in Statuses /\ a[i].st # "stopped"
  <2>1. a \in Seq(Told) /\ \A i \in DOMAIN a : a[i].id \in Started
    BY DEF Answer1
  <2>2. \A i \in 1..n : a[i] \in Told
    BY <2>1
  <2> QED BY <2>1, <2>2 DEF Told, Statuses
<1>2. \E f : IsAfter(f)
  <2>1. Step \in [(1..n) \X V -> V]
    <3>1. ASSUME NEW p \in (1..n) \X V PROVE SetStatus(p[2], a[p[1]].id, a[p[1]].st) \in V
      <4>1. p[1] \in 1..n /\ Sound(p[2])
        OBVIOUS
      <4>2. Sound(SetStatus(p[2], a[p[1]].id, a[p[1]].st))
        BY <4>1, <1>1, SetStatusSound
      <4> QED BY <4>2 DEF Sound
    <3> HIDE DEF V
    <3> QED BY <3>1
  <2>2. u \in V
    BY DEF Sound
  <2> HIDE DEF Step, n, V
  <2>3. PICK f \in [0..n -> V] : IsFold(f, n, u, Step)
    BY <1>1, <2>1, <2>2, FoldExists
  <2>4. ASSUME NEW i \in 1..n
        PROVE  f[i] = SetStatus(f[i - 1], a[i].id, a[i].st)
    <3>1. <<i, f[i - 1]>> \in (1..n) \X V
      BY <1>1, <2>3
    <3>2. Step[<<i, f[i - 1]>>] = SetStatus(f[i - 1], a[i].id, a[i].st)
      BY <3>1 DEF Step
    <3> QED BY <2>3, <3>2 DEF IsFold
  <2>5. ASSUME NEW i \in 0..n
        PROVE  f[i] = IF i = 0 THEN u ELSE SetStatus(f[i - 1], a[i].id, a[i].st)
    <3>1. CASE i = 0
      BY <3>1, <2>3 DEF IsFold
    <3>2. CASE i # 0
      <4>1. i \in 1..n
        BY <3>2, <1>1
      <4> QED BY <4>1, <3>2, <2>4
    <3> QED BY <3>1, <3>2
  <2>6. IsAfter(f)
    BY <2>3, <2>5
  <2> QED BY <2>6
<1>3. IsAfter(after)
  <2>1. after = CHOOSE f : IsAfter(f)
    OBVIOUS
  <2> QED BY <2>1, <1>2
<1>4. SetAll(u, a) = after[n]
  BY DEF SetAll
<1> HIDE DEF after, n
<1>5. \A i \in 0..n : after[i] = IF i = 0 THEN u ELSE SetStatus(after[i - 1], a[i].id, a[i].st)
  BY <1>3
<1>6. after[0] = u /\ \A i \in 1..n : after[i] = SetStatus(after[i - 1], a[i].id, a[i].st)
  BY <1>1, <1>5
<1> DEFINE Good(i) == /\ Sound(after[i]) /\ ~ Hides(u, after[i])
                      /\ \A j \in 1..i : Visible(after[i], a[j].id)
           Bad == {i \in 0..n : ~ Good(i)}
<1>7. Good(0)
  BY <1>6 DEF Hides
<1>8. ASSUME NEW i \in 1..n, Good(i - 1) PROVE Good(i)
  <2> DEFINE w == after[i - 1]
             v == after[i]
  <2>1. v = SetStatus(w, a[i].id, a[i].st)
    BY <1>6
  <2>2. Sound(w) /\ a[i].id \in Started /\ a[i].st \in Statuses /\ a[i].st # "stopped"
    BY <1>1, <1>8
  <2> HIDE DEF v, w
  <2>3. Sound(v) /\ (\A x \in Ids : Visible(w, x) => Visible(v, x)) /\ Visible(v, a[i].id)
    BY <2>1, <2>2, SetStatusSound
  <2>4. ~ Hides(u, v)
    BY <1>8, <2>3 DEF Hides, w
  <2>5. ASSUME NEW j \in 1..i PROVE Visible(v, a[j].id)
    <3>1. CASE j = i
      BY <3>1, <2>3
    <3>2. CASE j # i
      <4>1. j \in 1..(i - 1) /\ j \in 1..n
        BY <3>2, <1>1
      <4>2. Visible(w, a[j].id) /\ a[j].id \in Ids
        BY <4>1, <1>1, <1>8 DEF w
      <4> QED BY <4>2, <2>3
    <3> QED BY <3>1, <3>2
  <2> QED BY <2>3, <2>4, <2>5 DEF v
<1> HIDE DEF Good
<1>9. Bad = {}
  <2>1. SUFFICES ASSUME Bad # {} PROVE FALSE
    OBVIOUS
  <2>2. Bad \subseteq Nat
    OBVIOUS
  <2> HIDE DEF Bad
  <2>3. PICK m \in Bad : \A l \in Bad : m <= l
    BY <2>1, <2>2, LeastExists
  <2>4. m \in 1..n /\ m - 1 \in 0..n /\ m - 1 \notin Bad
    BY <1>1, <1>7, <2>3 DEF Bad
  <2>5. Good(m - 1) /\ ~ Good(m)
    BY <2>3, <2>4 DEF Bad
  <2> QED BY <2>4, <2>5, <1>8
<1>10. Good(n)
  BY <1>1, <1>9
<1> QED BY <1>1, <1>4, <1>10 DEF Good

\* The tab of a stream that was just started, in place of another or last.
LEMMA OpenLogTabSound ==
  ASSUME SessionsInv, NEW u, Sound(u), NEW id \in Started, KindOf(id) = "log", NEW replaces
  PROVE  LET v == OpenLogTab(u, id, replaces) IN Sound(v) /\ ~ Hides(u, v) /\ Visible(v, id)
<1> DEFINE v == OpenLogTab(u, id, replaces)
           rest == Without(u.order, {id})
           at == IF replaces \in Elements(rest) THEN IndexIn(rest, replaces) ELSE Len(rest) + 1
           q == SubSeq(rest, 1, at - 1) \o <<id>> \o SubSeq(rest, at, Len(rest))
           s == [u.shown EXCEPT ![id] = IF @ = "none" THEN "live" ELSE @]
<1>1. u \in Stores /\ id \in Ids /\ "none" \notin Statuses /\ "live" \in Statuses /\ u.order \in Seq(Ids)
  BY StartedAreIds DEF Sound, Statuses, Stores
<1>2. rest \in Seq(Ids) /\ Elements(rest) = Elements(u.order) \ {id} /\ Once(rest)
  BY <1>1, WithoutTakesOut DEF Sound
<1>3. v = [u EXCEPT !.shown = s, !.order = q]
  BY <1>1 DEF OpenLogTab, Stores
<1> HIDE DEF rest
<1>4. at \in 1..(Len(rest) + 1)
  <2>1. Len(rest) \in Nat /\ DOMAIN rest = 1..Len(rest)
    BY <1>2
  <2>2. CASE replaces \in Elements(rest)
    <3>1. IndexIn(rest, replaces) \in DOMAIN rest
      BY <2>2 DEF Elements, IndexIn
    <3> QED BY <2>1, <2>2, <3>1
  <2> QED BY <2>1, <2>2
<1> HIDE DEF at
<1>5. q \in Seq(Ids) /\ Elements(q) = Elements(rest) \cup {id} /\ Once(q)
  BY <1>1, <1>2, <1>4, PutIn
<1> HIDE DEF q
<1>6. s \in [Ids -> Statuses \cup {"none"}] /\ s[id] # "none" /\ \A x \in Ids : x # id => s[x] = u.shown[x]
  BY <1>1 DEF Stores
<1> HIDE DEF s
<1>7. v \in Stores /\ v.shown = s /\ v.order = q /\ v.closed = u.closed
  BY <1>1, <1>3, <1>5, <1>6 DEF Stores
<1> HIDE DEF v
<1>8. Present(v) = Present(u) \cup {id}
  BY <1>1, <1>6, <1>7 DEF Present
<1>9. Elements(v.order) = Present(v)
  BY <1>2, <1>5, <1>7, <1>8 DEF Sound
<1>10. id \notin u.closed
  BY DEF Sound
<1>11. \A x \in v.closed : v.shown[x] = "none" /\ x \in Started /\ KindOf(x) # "log"
  BY <1>1, <1>6, <1>7, <1>10 DEF Sound, Stores
<1>12. Sound(v)
  BY <1>5, <1>7, <1>8, <1>9, <1>11 DEF Sound
<1>13. ~ Hides(u, v) /\ Visible(v, id)
  BY <1>6, <1>7 DEF Hides, Visible
<1> QED BY <1>12, <1>13 DEF v

\* The shells and Terminals of a Cluster that was removed.
LEMMA ForgetSound ==
  ASSUME SessionsInv, NEW u, Sound(u), NEW gone \in SUBSET Present(u), \A id \in gone : KindOf(id) # "log"
  PROVE  LET v == [u EXCEPT !.shown = [id \in Ids |-> IF id \in gone THEN "none" ELSE @[id]],
                            !.order = Without(@, gone),
                            !.closed = @ \cup gone]
         IN  Sound(v) /\ ~ Hides(u, v)
<1> DEFINE v == [u EXCEPT !.shown = [id \in Ids |-> IF id \in gone THEN "none" ELSE @[id]],
                          !.order = Without(@, gone),
                          !.closed = @ \cup gone]
<1>1. u \in Stores /\ "none" \notin Statuses /\ u.order \in Seq(Ids)
  BY DEF Sound, Statuses, Stores
<1> DEFINE S == [id \in Ids |-> IF id \in gone THEN "none" ELSE u.shown[id]]
           O == Without(u.order, gone)
           C == u.closed \cup gone
<1>2. O \in Seq(Ids) /\ Elements(O) = Elements(u.order) \ gone /\ Once(O)
  BY <1>1, WithoutTakesOut DEF Sound
<1>3. S \in [Ids -> Statuses \cup {"none"}] /\ C \in SUBSET Ids
  BY <1>1 DEF Stores, Present
<1>4. v = [u EXCEPT !.shown = S, !.order = O, !.closed = C]
  OBVIOUS
<1> HIDE DEF O, v
<1>5. v \in Stores /\ v.shown = S /\ v.order = O /\ v.closed = C
  <2> HIDE DEF S, C
  <2> QED BY <1>1, <1>2, <1>3, <1>4 DEF Stores
<1>6. Present(v) = Present(u) \ gone
  BY <1>1, <1>5 DEF Present
<1>7. gone \subseteq Started /\ gone \subseteq Ids
  BY DEF Sound, Present
<1>8. \A x \in v.closed : v.shown[x] = "none" /\ x \in Started /\ KindOf(x) # "log"
  BY <1>1, <1>5, <1>7 DEF Sound, Stores
<1>9. Sound(v)
  BY <1>2, <1>5, <1>6, <1>8 DEF Sound
<1>10. ~ Hides(u, v)
  BY <1>1, <1>5 DEF Hides, Visible
<1> QED BY <1>9, <1>10 DEF v

--------------------------------------------------------------------------------
(* What a step has to keep, and what it leaves alone. *)

Announces(id) == \E i \in DOMAIN events : events[i].id = id
Answers(id) == \E k \in Slots : call[k].op = "start" /\ call[k].id = id /\ call[k].kept
Lists(id) == \E answer \in snapshots : \E i \in DOMAIN answer : answer[i].id = id

LEMMA ComingIs ==
  ASSUME NEW id
  PROVE  Coming(id) <=> run[id] = "starting" \/ Announces(id) \/ Answers(id) \/ KindOf(id) \in asked \/ Lists(id)
BY DEF Coming, Announces, Answers, Lists

\* Every step but the one that registers a session.
LEMMA StepKeeps ==
  ASSUME DockInv, UNCHANGED <<source, started>>,
         clusters' \subseteq clusters, asked' \subseteq Kinds,
         registered' \subseteq registered, cancelled \subseteq cancelled', cancelled' \subseteq Started,
         run' \in [Ids -> RunStates], \A id \in Ids : run'[id] # "none" => run[id] # "none",
         CallsInv', EventsInv', SnapshotsInv',
         NEW u, Sound(u), ui' = u,
         \A id \in registered' \ cancelled' : Visible(ui, id) \/ Coming(id) => Visible(u, id) \/ Coming(id)'
  PROVE  DockInv'
<1>1. PlacesInv' /\ SessionsInv'
  BY DEF DockInv, PlacesInv, SessionsInv, Started
<1>2. Sound(ui)'
  BY DEF Sound, Stores, Started, KindOf, Present
<1>3. NoHiddenSession'
  <2>1. SUFFICES ASSUME NEW id \in registered', id \notin cancelled'
                 PROVE  Visible(u, id) \/ Coming(id)'
    BY DEF NoHiddenSession, Visible
  <2>2. Visible(ui, id) \/ Coming(id)
    BY <2>1 DEF DockInv, NoHiddenSession, Visible
  <2> QED BY <2>1, <2>2
<1> QED BY <1>1, <1>2, <1>3 DEF DockInv

LEMMA CallsStay ==
  ASSUME CallsInv, call' = call, UNCHANGED <<source, started, cancelled>>
  PROVE  CallsInv' /\ \A id : Answers(id) => Answers(id)'
BY DEF CallsInv, CallSound, Started, KindOf, Answers

\* One call goes on.
LEMMA OneCallGoes ==
  ASSUME CallsInv, NEW k \in Slots, NEW c, CallSound(c), call' = [call EXCEPT ![k] = c],
         UNCHANGED <<source, started, cancelled>>
  PROVE  /\ CallsInv'
         /\ \A id : Answers(id) => Answers(id)' \/ (call[k].op = "start" /\ call[k].id = id /\ call[k].kept)
         /\ \A id : c.op = "start" /\ c.id = id /\ c.kept => Answers(id)'
<1>1. call \in [Slots -> Call] /\ c \in Call
  BY DEF CallsInv, CallSound
<1>2. call' \in [Slots -> Call] /\ call'[k] = c /\ \A j \in Slots : j # k => call'[j] = call[j]
  BY <1>1
<1>3. ASSUME NEW j \in Slots PROVE CallSound(call[j])'
  <2>1. CallSound(call'[j])
    BY <1>2 DEF CallsInv
  <2> QED BY <2>1 DEF CallSound, Started, KindOf
<1>4. CallsInv'
  BY <1>2, <1>3 DEF CallsInv
<1> QED BY <1>2, <1>4 DEF Answers

LEMMA SlotIsFree == Free # {} => SlotOf \in Free
<1>1. Free \subseteq Nat
  BY DockAssumption DEF Free, Slots
<1> HIDE DEF Free
<1> QED BY <1>1, LeastExists DEF SlotOf

LEMMA SendKeeps ==
  ASSUME CallsInv, NEW c, CallSound(c), Send(c), UNCHANGED <<source, started, cancelled>>
  PROVE  CallsInv' /\ \A id : Answers(id) => Answers(id)'
<1>1. SlotOf \in Slots /\ call[SlotOf].op = "none" /\ call' = [call EXCEPT ![SlotOf] = c]
  BY SlotIsFree DEF Send, Free
<1> QED BY <1>1, OneCallGoes

LEMMA EventsStay ==
  ASSUME EventsInv, events' = events, UNCHANGED <<source, started>>, cancelled \subseteq cancelled'
  PROVE  EventsInv' /\ \A id : Announces(id) => Announces(id)'
BY DEF EventsInv, Announced, Started, KindOf, Announces

LEMMA EmitKeeps ==
  ASSUME EventsInv, NEW id \in Started, NEW st \in Statuses, Emit(id, st), id \in Ids,
         st = "stopped" /\ KindOf(id) = "log" => id \in cancelled,
         UNCHANGED <<source, started>>, cancelled \subseteq cancelled'
  PROVE  EventsInv' /\ Announces(id)' /\ \A x : Announces(x) => Announces(x)'
<1> DEFINE e == [id |-> id, st |-> st]
           n == Len(events)
<1>1. e \in EventType /\ Announced(e)
  BY DEF EventType, Announced
<1>2. events' = Append(events, e) /\ events \in Seq(EventType)
  BY DEF Emit, EventsInv
<1>3. /\ n \in Nat /\ DOMAIN events = 1..n /\ events' \in Seq(EventType) /\ DOMAIN events' = 1..(n + 1)
      /\ events'[n + 1] = e /\ \A i \in 1..n : events'[i] = events[i]
  BY <1>1, <1>2
<1> HIDE DEF n
<1>4. ASSUME NEW i \in 1..(n + 1) PROVE Announced(events'[i])
  BY <1>1, <1>3 DEF EventsInv
<1>5. EventsInv'
  BY <1>3, <1>4 DEF EventsInv, Announced, Started, KindOf
<1>6. e.id = id
  OBVIOUS
<1> HIDE DEF e
<1> QED BY <1>3, <1>5, <1>6 DEF Announces

LEMMA SnapshotsStay ==
  ASSUME SnapshotsInv, snapshots' = snapshots, UNCHANGED started
  PROVE  SnapshotsInv' /\ \A id : Lists(id) => Lists(id)'
BY DEF SnapshotsInv, Answer1, Started, Lists

--------------------------------------------------------------------------------
(* The user. *)

LEMMA SourcesAre ==
  /\ \A src \in Sources : src.kind \in Kinds /\ src.cluster \in Clusters
  /\ None \notin Ids
BY DockAssumption DEF Ids, None

LEMMA StopCallSound == ASSUME NEW ids \in SUBSET Ids PROVE CallSound(StopCall(ids)) /\ StopCall(ids).op = "stop"
BY DEF StopCall, Idle, CallSound, Call, NoSource, None

LEMMA IdleSound == CallSound(Idle) /\ Idle.op = "none"
BY DEF Idle, CallSound, Call, NoSource, None

LEMMA StartCallSound ==
  ASSUME NEW src \in Sources, NEW replaces \in Ids \cup {None}, NEW closes \in SUBSET Ids,
         src.kind # "log" => \A id \in closes : id \in Started /\ KindOf(id) # "log"
  PROVE  CallSound(StartCall(src, replaces, closes))
<1> DEFINE c == StartCall(src, replaces, closes)
<1>1. Idle \in Call /\ Idle.phase = "sent" /\ Idle.id = None
  BY DEF Idle, Call, NoSource, None
<1>2. c \in Call
  BY <1>1, SourcesAre DEF Call, StartCall
<1>3. c.op = "start" /\ c.phase = "sent" /\ c.src = src /\ c.id = None /\ c.closes = closes
  BY <1>1 DEF Call, StartCall
<1> HIDE DEF c
<1> QED BY <1>2, <1>3 DEF CallSound, c

\* An act makes one call or none, and hides no session.
LEMMA ActKeeps ==
  ASSUME DockInv, NEW u, Sound(u), ~ Hides(ui, u), ui' = u,
         call' = call \/ \E c : CallSound(c) /\ Send(c),
         UNCHANGED <<service, events, asked, snapshots>>
  PROVE  DockInv'
<1>1. UNCHANGED <<clusters, source, started, registered, run, cancelled, events, asked, snapshots>>
  BY DEF service
<1>2. CallsInv' /\ \A id : Answers(id) => Answers(id)'
  BY <1>1, CallsStay, SendKeeps DEF DockInv
<1>3. EventsInv' /\ \A id : Announces(id) => Announces(id)'
  BY <1>1, EventsStay DEF DockInv
<1>4. SnapshotsInv' /\ \A id : Lists(id) => Lists(id)'
  BY <1>1, SnapshotsStay DEF DockInv
<1>5. ASSUME NEW id, Coming(id) PROVE Coming(id)'
  <2>1. (run[id] = "starting")' <=> run[id] = "starting"
    BY <1>1
  <2>2. (KindOf(id) \in asked)' <=> KindOf(id) \in asked
    BY <1>1 DEF KindOf
  <2> QED BY <1>2, <1>3, <1>4, <1>5, <2>1, <2>2, ComingIs DEF Coming, Announces, Answers, Lists
<1>6. \A id \in Ids : Visible(ui, id) => Visible(u, id)
  BY DEF Hides
<1>7. registered \subseteq Ids
  BY StartedAreIds DEF DockInv, SessionsInv
<1> QED BY <1>1, <1>2, <1>3, <1>4, <1>5, <1>6, <1>7, StepKeeps DEF DockInv, PlacesInv, SessionsInv

LEMMA Same == \A u : ~ Hides(u, u)
BY DEF Hides

\* startLogs, with what it closes of the dock.
LEMMA StartLogsCalls ==
  ASSUME DockInv, NEW src \in Sources, src.kind = "log", NEW replaces \in Ids \cup {None}, NEW closes \in SUBSET Ids,
         StartLogs(src, replaces, closes)
  PROVE  ui' = ui /\ (call' = call \/ \E c : CallSound(c) /\ Send(c))
<1>1. CASE \E id \in SessionsOn(src) :
             /\ ui.shown[id] # "error"
             /\ UNCHANGED ui
             /\ IF closes = {} THEN UNCHANGED call ELSE Send(StopCall(closes))
  BY <1>1, StopCallSound
<1>2. CASE /\ \E existing \in IF SessionsOn(src) = {} THEN {None} ELSE SessionsOn(src) :
                Send(StartCall(src, IF replaces # None THEN replaces ELSE existing,
                               closes \cup ({existing} \ {None})))
           /\ UNCHANGED ui
  <2>1. PICK existing \in IF SessionsOn(src) = {} THEN {None} ELSE SessionsOn(src) :
               Send(StartCall(src, IF replaces # None THEN replaces ELSE existing,
                              closes \cup ({existing} \ {None})))
    BY <1>2
  <2>2. existing \in Ids \cup {None}
    BY DEF SessionsOn, Present
  <2>3. CallSound(StartCall(src, IF replaces # None THEN replaces ELSE existing, closes \cup ({existing} \ {None})))
    BY <2>2, StartCallSound
  <2> QED BY <1>2, <2>1, <2>3
<1> QED BY <1>1, <1>2 DEF StartLogs

LEMMA StartSessionCalls ==
  ASSUME DockInv, NEW src \in Sources, src.kind # "log", NEW closes \in SUBSET Ids,
         \A id \in closes : id \in Started /\ KindOf(id) # "log", StartSession(src, closes)
  PROVE  \E u : /\ Sound(u) /\ ~ Hides(ui, u) /\ ui' = u
                /\ call' = call \/ \E c : CallSound(c) /\ Send(c)
<1>1. CASE ui' = CloseAll(ui, closes) /\ UNCHANGED call
  <2>1. Sound(CloseAll(ui, closes)) /\ ~ Hides(ui, CloseAll(ui, closes))
    BY CloseAllSound DEF DockInv
  <2> QED BY <1>1, <2>1
<1>2. CASE Send(StartCall(src, None, closes)) /\ UNCHANGED ui
  <2>1. CallSound(StartCall(src, None, closes))
    BY StartCallSound
  <2>2. Sound(ui) /\ ~ Hides(ui, ui)
    BY Same DEF DockInv
  <2> QED BY <1>2, <2>1, <2>2
<1> QED BY <1>1, <1>2 DEF StartSession

LEMMA OnScreenIs ==
  ASSUME DockInv
  PROVE  OnScreen \subseteq Started /\ Started \subseteq Ids /\ \A id \in Started : source[id] \in Sources
BY StartedAreIds DEF OnScreen, Tabs, DockInv, Sound, SessionsInv

LEMMA UserStartsLogsKeeps == ASSUME DockInv, NEW src \in Sources, UserStartsLogs(src) PROVE DockInv'
<1>1. ui' = ui /\ (call' = call \/ \E c : CallSound(c) /\ Send(c))
  BY StartLogsCalls DEF UserStartsLogs
<1> QED BY <1>1, ActKeeps, Same DEF UserStartsLogs, DockInv

LEMMA UserPicksContainerKeeps ==
  ASSUME DockInv, NEW id \in Ids, NEW src \in Sources, UserPicksContainer(id, src) PROVE DockInv'
<1>1. ui' = ui /\ (call' = call \/ \E c : CallSound(c) /\ Send(c))
  BY StartLogsCalls DEF UserPicksContainer
<1> QED BY <1>1, ActKeeps, Same DEF UserPicksContainer, DockInv

LEMMA UserOpensSessionKeeps == ASSUME DockInv, NEW src \in Sources, UserOpensSession(src) PROVE DockInv'
<1>1. PICK u : /\ Sound(u) /\ ~ Hides(ui, u) /\ ui' = u
               /\ call' = call \/ \E c : CallSound(c) /\ Send(c)
  BY StartSessionCalls DEF UserOpensSession
<1> QED BY <1>1, ActKeeps DEF UserOpensSession

LEMMA UserOpensAgainKeeps == ASSUME DockInv, NEW id \in Ids, UserOpensAgain(id) PROVE DockInv'
<1>1. id \in Started /\ KindOf(id) # "log" /\ source[id] \in Sources /\ source[id].kind # "log"
  BY OnScreenIs DEF UserOpensAgain, KindOf
<1>2. PICK u : /\ Sound(u) /\ ~ Hides(ui, u) /\ ui' = u
               /\ call' = call \/ \E c : CallSound(c) /\ Send(c)
  BY <1>1, StartSessionCalls DEF UserOpensAgain
<1> QED BY <1>2, ActKeeps DEF UserOpensAgain

LEMMA UserClosesKeeps == ASSUME DockInv, NEW id \in Ids, UserCloses(id) PROVE DockInv'
<1>1. id \in Started
  BY OnScreenIs DEF UserCloses
<1>2. call' = call \/ \E c : CallSound(c) /\ Send(c)
  BY StopCallSound DEF UserCloses
<1>3. \E u : Sound(u) /\ ~ Hides(ui, u) /\ ui' = u
  <2>1. CASE KindOf(id) = "log"
    BY <2>1, Same DEF UserCloses, DockInv
  <2>2. CASE KindOf(id) # "log"
    BY <2>2, <1>1, CloseSound DEF UserCloses, DockInv
  <2> QED BY <2>1, <2>2
<1> QED BY <1>2, <1>3, ActKeeps DEF UserCloses

LEMMA UserRemovesClusterKeeps == ASSUME DockInv, NEW c \in Clusters, UserRemovesCluster(c) PROVE DockInv'
<1>1. CallSound([Idle EXCEPT !.op = "delete", !.cluster = c])
  BY DEF Idle, CallSound, Call, NoSource, None
<1> QED BY <1>1, ActKeeps, Same DEF UserRemovesCluster, DockInv

\* A reloaded window asks for every kind of session there is.
LEMMA ReloadKeeps == ASSUME DockInv, Reload PROVE DockInv'
<1>1. UNCHANGED <<clusters, source, started, registered, run, cancelled>> /\ ui' = EmptyStore /\ events' = <<>>
      /\ snapshots' = {} /\ asked' = AskedOnLoad /\ call' = [k \in Slots |-> [call[k] EXCEPT !.kept = FALSE]]
  BY DEF Reload, service
<1>2. Sound(EmptyStore)
  BY DEF Sound, EmptyStore, Stores, Elements, Present, Once
<1>3. AskedOnLoad \subseteq Kinds /\ \A id \in registered : KindOf(id) \in AskedOnLoad
  <2>1. \A id \in 1..started : source[id].kind \in Kinds
    BY SourcesAre DEF DockInv, SessionsInv, Started
  <2>2. \A k \in Slots : call[k].op = "start" => call[k].src.kind \in Kinds
    BY SourcesAre DEF DockInv, CallsInv, CallSound
  <2> QED BY <2>1, <2>2 DEF AskedOnLoad, DockInv, SessionsInv, Started, KindOf
<1>4. CallsInv'
  <2>1. ASSUME NEW k \in Slots PROVE call'[k] \in Call /\ CallSound(call[k])'
    <3> DEFINE c == call[k]
               d == [c EXCEPT !.kept = FALSE]
    <3>1. CallSound(c) /\ c \in Call
      BY DEF DockInv, CallsInv, CallSound
    <3>2. d \in Call /\ d.op = c.op /\ d.phase = c.phase /\ d.src = c.src /\ d.id = c.id /\ d.closes = c.closes
      BY <3>1 DEF Call
    <3>3. call'[k] = d
      BY <1>1
    <3> HIDE DEF c, d
    <3>4. CallSound(call'[k]) /\ call'[k] \in Call
      BY <3>1, <3>2, <3>3 DEF CallSound
    <3> QED BY <1>1, <3>4 DEF CallSound, Started, KindOf
  <2>2. call' \in [Slots -> Call]
    BY <1>1, <2>1
  <2> QED BY <2>1, <2>2 DEF CallsInv
<1>5. EventsInv' /\ SnapshotsInv'
  BY <1>1 DEF EventsInv, SnapshotsInv
<1>6. \A id \in registered : Coming(id)'
  BY <1>1, <1>3 DEF Coming, KindOf
<1> QED BY <1>1, <1>2, <1>3, <1>4, <1>5, <1>6, StepKeeps DEF DockInv, PlacesInv, SessionsInv

--------------------------------------------------------------------------------
(* The service. *)

\* A step of the service that neither registers a session nor changes the store.
LEMMA ServiceKeeps ==
  ASSUME DockInv, UNCHANGED <<source, started, ui, asked, snapshots>>,
         clusters' \subseteq clusters, registered' \subseteq registered,
         cancelled \subseteq cancelled', cancelled' \subseteq Started,
         run' \in [Ids -> RunStates], \A id \in Ids : run'[id] # "none" => run[id] # "none",
         CallsInv', \A id : Answers(id) => Answers(id)',
         EventsInv', \A id : Announces(id) => Announces(id)',
         \A id \in Ids : run[id] = "starting" => run'[id] = "starting" \/ Announces(id)'
  PROVE  DockInv'
<1>1. Sound(ui) /\ SnapshotsInv' /\ asked' \subseteq Kinds /\ \A id : Lists(id) => Lists(id)'
  BY SnapshotsStay DEF DockInv, PlacesInv
<1>2. ASSUME NEW id \in Ids, Coming(id) PROVE Coming(id)'
  <2>1. (run[id] = "starting")' <=> run'[id] = "starting"
    OBVIOUS
  <2>2. (KindOf(id) \in asked)' <=> KindOf(id) \in asked
    BY DEF KindOf
  <2> QED BY <1>1, <1>2, <2>1, <2>2 DEF Coming, Announces, Answers, Lists
<1>3. registered' \subseteq Ids
  BY StartedAreIds DEF DockInv, SessionsInv
<1> QED BY <1>1, <1>2, <1>3, StepKeeps

LEMMA StartChecksKeeps == ASSUME DockInv, NEW k \in Slots, StartChecks(k) PROVE DockInv'
<1> DEFINE phase == IF call[k].cluster \in clusters THEN "checked" ELSE "failed"
           c == [call[k] EXCEPT !.phase = phase]
<1>1. /\ UNCHANGED <<clusters, source, started, registered, run, cancelled, events, asked, snapshots, ui>>
      /\ call[k].op = "start" /\ call[k].phase = "sent" /\ call' = [call EXCEPT ![k].phase = phase]
  BY DEF StartChecks, Answer, service
<1>2. CallSound(call[k]) /\ call[k] \in Call
  BY DEF DockInv, CallsInv, CallSound
<1>3. c \in Call /\ c.op = "start" /\ c.phase = phase /\ c.id = call[k].id /\ c.src = call[k].src /\ c.closes = call[k].closes
      /\ c.kept = call[k].kept
  BY <1>1, <1>2 DEF Call
<1>4. call' = [call EXCEPT ![k] = c]
  BY <1>1
<1> HIDE DEF c
<1>5. CallSound(c)
  BY <1>1, <1>2, <1>3 DEF CallSound
<1>6. CallsInv' /\ \A id : Answers(id) => Answers(id)'
  BY <1>1, <1>3, <1>4, <1>5, OneCallGoes DEF DockInv
<1>7. EventsInv' /\ \A id : Announces(id) => Announces(id)'
  BY <1>1, EventsStay DEF DockInv
<1> QED BY <1>1, <1>6, <1>7, ServiceKeeps DEF DockInv, SessionsInv

LEMMA DeleteListsKeeps == ASSUME DockInv, NEW k \in Slots, DeleteLists(k) PROVE DockInv'
<1> DEFINE todo == {id \in registered : ClusterOf(id) = call[k].cluster}
           c == [call[k] EXCEPT !.phase = "stopping", !.todo = todo]
<1>1. /\ UNCHANGED <<clusters, source, started, registered, run, cancelled, events, asked, snapshots, ui>>
      /\ call[k].op = "delete" /\ call' = [call EXCEPT ![k].phase = "stopping", ![k].todo = todo]
  BY DEF DeleteLists, service
<1>2. CallSound(call[k]) /\ call[k] \in Call /\ call \in [Slots -> Call]
  BY DEF DockInv, CallsInv, CallSound
<1>3. todo \subseteq Ids
  BY StartedAreIds DEF DockInv, SessionsInv
<1>4. call' = [call EXCEPT ![k] = c]
  BY <1>1, <1>2
<1> HIDE DEF todo
<1>5. c \in Call /\ c.op = "delete" /\ c.id = call[k].id
  BY <1>1, <1>2, <1>3 DEF Call
<1> HIDE DEF c
<1>6. CallSound(c)
  BY <1>1, <1>2, <1>5 DEF CallSound
<1>7. CallsInv' /\ \A id : Answers(id) => Answers(id)'
  BY <1>1, <1>4, <1>6, OneCallGoes DEF DockInv
<1>8. EventsInv' /\ \A id : Announces(id) => Announces(id)'
  BY <1>1, EventsStay DEF DockInv
<1> QED BY <1>1, <1>7, <1>8, ServiceKeeps DEF DockInv, SessionsInv

\* The call waits for a session it has cancelled.
LEMMA StopBeginsKeeps == ASSUME DockInv, NEW k \in Slots, NEW id \in Ids, StopBegins(k, id) PROVE DockInv'
<1> DEFINE listed == id \in registered
           c == IF listed THEN [call[k] EXCEPT !.id = id] ELSE [call[k] EXCEPT !.todo = @ \ {id}]
<1>1. /\ UNCHANGED <<clusters, source, started, run, events, asked, snapshots, ui>>
      /\ call[k].op \in {"stop", "delete"} /\ call[k].id = None
      /\ registered' \subseteq registered
      /\ cancelled' = IF listed THEN cancelled \cup {id} ELSE cancelled
  BY DEF StopBegins
<1>2. call \in [Slots -> Call] /\ call[k] \in Call /\ \A j \in Slots : CallSound(call[j])
  BY DEF DockInv, CallsInv
<1>3. call' = [call EXCEPT ![k] = c]
  BY <1>2 DEF StopBegins
<1>4. c \in Call /\ c.op = call[k].op /\ (listed => c.id = id) /\ (~ listed => c.id = None)
  <2>1. CASE listed
    BY <2>1, <1>2 DEF Call
  <2>2. CASE ~ listed
    BY <2>2, <1>1, <1>2 DEF Call
  <2> QED BY <2>1, <2>2
<1> HIDE DEF c
<1>5. call' \in [Slots -> Call] /\ call'[k] = c /\ \A j \in Slots : j # k => call'[j] = call[j]
  BY <1>2, <1>3, <1>4
<1>6. ASSUME NEW j \in Slots PROVE CallSound(call[j])'
  <2>1. CASE j = k
    <3>1. c \in Call /\ c.op # "start" /\ (c.id # None => c.id \in cancelled')
      BY <1>1, <1>4
    <3> QED BY <2>1, <3>1, <1>5 DEF CallSound
  <2>2. CASE j # k
    <3>1. CallSound(call'[j])
      BY <2>2, <1>2, <1>5
    <3>2. cancelled \subseteq cancelled'
      BY <1>1
    <3> QED BY <3>1, <3>2, <1>1 DEF CallSound, Started, KindOf
  <2> QED BY <2>1, <2>2
<1>7. CallsInv'
  BY <1>5, <1>6 DEF CallsInv
<1>8. \A x : Answers(x) => Answers(x)'
  BY <1>1, <1>5 DEF Answers
<1>9. EventsInv' /\ \A x : Announces(x) => Announces(x)'
  BY <1>1, EventsStay DEF DockInv
<1>10. cancelled \subseteq cancelled' /\ cancelled' \subseteq Started
  BY <1>1 DEF DockInv, SessionsInv
<1> QED BY <1>1, <1>7, <1>8, <1>9, <1>10, ServiceKeeps DEF DockInv, SessionsInv

\* Only a session that was started ends; a stream a call waits for was cancelled.
LEMMA StopEndsKeeps == ASSUME DockInv, NEW k \in Slots, StopEnds(k) PROVE DockInv'
<1> DEFINE id == call[k].id
           c == [call[k] EXCEPT !.id = None, !.todo = @ \ {id}]
<1>1. /\ UNCHANGED <<clusters, source, started, registered, cancelled, asked, snapshots, ui>>
      /\ call[k].op \in {"stop", "delete"} /\ id # None
      /\ IF run[id] \in {"failed", "read"} THEN Emit(id, "stopped") /\ run' = [run EXCEPT ![id] = "done"]
         ELSE UNCHANGED <<events, run>>
  BY DEF StopEnds
<1>2. call \in [Slots -> Call] /\ call[k] \in Call /\ CallSound(call[k])
  BY DEF DockInv, CallsInv
<1>3. call' = [call EXCEPT ![k] = c]
  BY <1>2 DEF StopEnds
<1>4. c \in Call /\ c.op = call[k].op /\ c.id = None
  BY <1>2 DEF Call
<1> HIDE DEF c
<1>5. CallSound(c)
  BY <1>1, <1>4 DEF CallSound
<1>6. CallsInv' /\ \A x : Answers(x) => Answers(x)'
  BY <1>1, <1>3, <1>5, OneCallGoes DEF DockInv
<1>7. id \in cancelled /\ id \in Started /\ id \in Ids
  BY <1>1, <1>2, StartedAreIds DEF CallSound, DockInv, SessionsInv
<1>8. EventsInv' /\ \A x : Announces(x) => Announces(x)'
  <2>1. CASE run[id] \in {"failed", "read"}
    BY <2>1, <1>1, <1>7, EmitKeeps DEF DockInv, Statuses
  <2>2. CASE ~ (run[id] \in {"failed", "read"})
    BY <2>2, <1>1, EventsStay DEF DockInv
  <2> QED BY <2>1, <2>2
<1>9. /\ run' \in [Ids -> RunStates]
      /\ \A x \in Ids : (run'[x] # "none" => run[x] # "none") /\ (run[x] = "starting" => run'[x] = "starting")
  <2>1. run \in [Ids -> RunStates] /\ "done" \in RunStates
    BY DEF DockInv, SessionsInv, RunStates
  <2> QED BY <2>1, <1>1
<1> QED BY <1>1, <1>6, <1>8, <1>9, ServiceKeeps DEF DockInv, SessionsInv

LEMMA StopReturnsKeeps == ASSUME DockInv, NEW k \in Slots, StopReturns(k) PROVE DockInv'
<1> DEFINE c == IF call[k].op = "stop" THEN Idle ELSE [call[k] EXCEPT !.phase = "answered"]
<1>1. /\ UNCHANGED <<source, started, registered, run, cancelled, events, asked, snapshots, ui>>
      /\ call[k].op \in {"stop", "delete"} /\ call[k].id = None /\ clusters' \subseteq clusters
  BY DEF StopReturns
<1>2. call \in [Slots -> Call] /\ call[k] \in Call
  BY DEF DockInv, CallsInv
<1>3. call' = [call EXCEPT ![k] = c]
  BY <1>2 DEF StopReturns, Done, Answer
<1>4. CallSound(c)
  <2>1. CASE call[k].op = "stop"
    BY <2>1, IdleSound
  <2>2. CASE call[k].op = "delete"
    <3>1. c \in Call /\ c.op = "delete" /\ c.id = None
      BY <2>2, <1>1, <1>2 DEF Call
    <3> HIDE DEF c
    <3> QED BY <3>1 DEF CallSound
  <2> QED BY <2>1, <2>2, <1>1
<1> HIDE DEF c
<1>5. CallsInv' /\ \A x : Answers(x) => Answers(x)'
  BY <1>1, <1>3, <1>4, OneCallGoes DEF DockInv
<1>6. EventsInv' /\ \A x : Announces(x) => Announces(x)'
  BY <1>1, EventsStay DEF DockInv
<1> QED BY <1>1, <1>5, <1>6, ServiceKeeps DEF DockInv, SessionsInv

\* A session goes on or ends, and says so.
LEMMA SessionKeeps ==
  ASSUME DockInv, NEW id \in Ids, NEW st \in Statuses, Emit(id, st), run[id] # "none",
         st = "stopped" /\ KindOf(id) = "log" => id \in cancelled,
         NEW to \in RunStates, run' = [run EXCEPT ![id] = to], registered' \subseteq registered,
         UNCHANGED <<clusters, source, started, cancelled, call, asked, snapshots, ui>>
  PROVE  DockInv'
<1>1. id \in Started /\ run \in [Ids -> RunStates]
  BY DEF DockInv, SessionsInv
<1>2. EventsInv' /\ Announces(id)' /\ \A x : Announces(x) => Announces(x)'
  BY <1>1, EmitKeeps DEF DockInv
<1>3. CallsInv' /\ \A x : Answers(x) => Answers(x)'
  BY CallsStay DEF DockInv
<1>4. /\ run' \in [Ids -> RunStates]
      /\ \A x \in Ids : run'[x] # "none" => run[x] # "none"
      /\ \A x \in Ids : run[x] = "starting" => run'[x] = "starting" \/ Announces(x)'
  BY <1>1, <1>2
<1> QED BY <1>2, <1>3, <1>4, ServiceKeeps DEF DockInv, SessionsInv

LEMMA SessionsKeep ==
  ASSUME DockInv, NEW id \in Ids, Connecting(id) \/ Exits(id) \/ EndsStopped(id) \/ LateOutput(id)
  PROVE  DockInv'
<1> USE DEF Statuses, RunStates
<1>1. CASE Connecting(id)
  BY <1>1, SessionKeeps DEF Connecting
<1>2. CASE Exits(id)
  <2>1. PICK st \in Statuses \ {"live"} :
             /\ CASE KindOf(id) = "log" -> st \in {"error", "idle"}
                  [] KindOf(id) = "shell" -> st \in {"error", "stopped"}
                  [] OTHER -> st = "stopped"
             /\ Emit(id, st)
             /\ run' = [run EXCEPT ![id] = IF KindOf(id) # "log" THEN "done"
                                           ELSE IF st = "error" THEN "failed" ELSE "read"]
    BY <1>2 DEF Exits
  <2>2. st = "stopped" => KindOf(id) # "log"
    BY <2>1
  <2>3. registered' \subseteq registered /\ run[id] = "running"
        /\ UNCHANGED <<clusters, source, started, cancelled, call, asked, snapshots, ui>>
    BY <1>2 DEF Exits
  <2> QED BY <2>1, <2>2, <2>3, SessionKeeps
<1>3. CASE EndsStopped(id)
  BY <1>3, SessionKeeps DEF EndsStopped
<1>4. CASE LateOutput(id)
  BY <1>4, SessionKeeps DEF LateOutput
<1> QED BY <1>1, <1>2, <1>3, <1>4

\* A session is registered: the sessions there were stay what they are, and the new one is on its way.
LEMMA StartRegistersKeeps == ASSUME DockInv, NEW k \in Slots, StartRegisters(k) PROVE DockInv'
<1>0. PICK id : id = started + 1
  OBVIOUS
<1> DEFINE src == call[k].src
           to == IF src.kind = "terminal" THEN "running" ELSE "starting"
           c == [call[k] EXCEPT !.phase = "answered", !.id = id]
<1>1. /\ call[k].op = "start" /\ call[k].phase = "checked" /\ started < MaxSessions
      /\ started' = id /\ source' = [source EXCEPT ![id] = src] /\ registered' = registered \cup {id}
      /\ run' = [run EXCEPT ![id] = to]
      /\ IF src.kind = "terminal" THEN Emit(id, "live") ELSE UNCHANGED events
      /\ UNCHANGED <<clusters, cancelled, asked, snapshots, ui>>
  BY <1>0 DEF StartRegisters
<1>2. /\ call \in [Slots -> Call] /\ call[k] \in Call /\ CallSound(call[k])
      /\ src \in Sources /\ call[k].id = None
  BY <1>1 DEF DockInv, CallsInv, CallSound
<1>3. call' = [call EXCEPT ![k] = c]
  BY <1>0, <1>2 DEF StartRegisters
<1>4. /\ started \in 0..MaxSessions /\ id \in Ids /\ id \notin Started /\ Started' = Started \cup {id}
      /\ Started \subseteq Ids
  BY <1>0, <1>1, DockAssumption DEF DockInv, SessionsInv, Started, Ids
<1>5. /\ c \in Call /\ c.op = "start" /\ c.phase = "answered" /\ c.id = id /\ c.src = src /\ c.closes = call[k].closes
  BY <1>1, <1>2, <1>4 DEF Call
<1> HIDE DEF c
<1>6. source'[id] = src /\ \A x \in Started : source'[x] = source[x]
  BY <1>1, <1>4 DEF DockInv, SessionsInv
<1>7. \A x \in Started : KindOf(x)' = KindOf(x)
  BY <1>6 DEF KindOf
<1>8. PlacesInv' /\ SessionsInv'
  <2>1. run' \in [Ids -> RunStates] /\ \A x \in Ids : run'[x] # "none" => x \in Started'
    BY <1>1, <1>4 DEF DockInv, SessionsInv, RunStates
  <2>2. started' \in 0..MaxSessions
    BY <1>1, <1>4, <1>0, DockAssumption
  <2>3. source' \in [Ids -> Sources \cup {NoSource}] /\ \A x \in Started' : source'[x] \in Sources
    BY <1>1, <1>2, <1>4, <1>6 DEF DockInv, SessionsInv
  <2>4. registered' \subseteq Started' /\ cancelled' \subseteq Started'
    BY <1>1, <1>4 DEF DockInv, SessionsInv
  <2> QED BY <1>1, <2>1, <2>2, <2>3, <2>4 DEF DockInv, PlacesInv, SessionsInv
<1>9. CallsInv'
  <2>1. call' \in [Slots -> Call] /\ call'[k] = c /\ \A j \in Slots : j # k => call'[j] = call[j]
    BY <1>2, <1>3, <1>5
  <2>2. ASSUME NEW j \in Slots PROVE CallSound(call[j])'
    <3>1. CASE j = k
      <4>1. c.src.kind # "log" => \A x \in c.closes : x \in Started' /\ KindOf(x)' # "log"
        BY <1>1, <1>2, <1>4, <1>5, <1>7 DEF CallSound
      <4> QED BY <2>1, <3>1, <4>1, <1>2, <1>4, <1>5, <1>6 DEF CallSound
    <3>2. CASE j # k
      <4>1. CallSound(call'[j])
        BY <2>1, <3>2 DEF DockInv, CallsInv
      <4> QED BY <4>1, <1>1, <1>4, <1>6, <1>7 DEF CallSound
    <3> QED BY <3>1, <3>2
  <2> QED BY <2>1, <2>2 DEF CallsInv
<1>10. EventsInv' /\ (src.kind = "terminal" => Announces(id)') /\ \A x : Announces(x) => Announces(x)'
  <2>1. ASSUME NEW e, Announced(e)
        PROVE  e \in EventType /\ e.id \in Started' /\ (e.st = "stopped" /\ source'[e.id].kind = "log" => e.id \in cancelled')
    BY <2>1, <1>1, <1>4, <1>6 DEF Announced, KindOf
  <2>2. CASE src.kind = "terminal"
    <3> DEFINE e == [id |-> id, st |-> "live"]
               n == Len(events)
    <3>1. e \in EventType /\ e.id = id /\ e.st = "live"
      BY <1>4 DEF EventType, Statuses
    <3>2. events' = Append(events, e) /\ events \in Seq(EventType)
      BY <2>2, <1>1 DEF Emit, DockInv, EventsInv
    <3> HIDE DEF e
    <3>3. /\ n \in Nat /\ DOMAIN events = 1..n /\ events' \in Seq(EventType) /\ DOMAIN events' = 1..(n + 1)
          /\ events'[n + 1] = e /\ \A i \in 1..n : events'[i] = events[i]
      BY <3>1, <3>2
    <3> HIDE DEF n
    <3>4. \A i \in 1..n : Announced(events[i])
      BY <3>3 DEF DockInv, EventsInv
    <3>5. ASSUME NEW i \in 1..(n + 1)
          PROVE  /\ events'[i] \in EventType /\ events'[i].id \in Started'
                 /\ (events'[i].st = "stopped" /\ source'[events'[i].id].kind = "log" => events'[i].id \in cancelled')
      <4>1. CASE i = n + 1
        BY <4>1, <3>1, <3>3, <1>4
      <4>2. CASE i # n + 1
        <5>1. i \in 1..n /\ events'[i] = events[i]
          BY <4>2, <3>3
        <5>2. Announced(events'[i])
          BY <5>1, <3>4
        <5> QED BY <5>2, <2>1
      <4> QED BY <4>1, <4>2
    <3>6. EventsInv'
      BY <3>3, <3>5 DEF EventsInv, Announced, KindOf
    <3> QED BY <3>1, <3>3, <3>6 DEF Announces
  <2>3. CASE src.kind # "terminal"
    <3>1. events' = events
      BY <2>3, <1>1
    <3>2. EventsInv'
      BY <3>1, <2>1 DEF DockInv, EventsInv, Announced, KindOf
    <3> QED BY <2>3, <3>1, <3>2 DEF Announces
  <2> QED BY <2>2, <2>3
<1>11. SnapshotsInv'
  BY <1>1, <1>4 DEF DockInv, SnapshotsInv, Answer1
<1>12. Sound(ui)'
  <2>1. Present(ui)' = Present(ui) /\ Sound(ui)
    BY <1>1 DEF Present, DockInv
  <2> QED BY <2>1, <1>1, <1>4, <1>7 DEF Sound
<1>13. NoHiddenSession'
  <2>1. SUFFICES ASSUME NEW x \in registered', x \notin cancelled'
                 PROVE  Visible(ui, x)' \/ Coming(x)'
    BY DEF NoHiddenSession, Visible
  <2>2. CASE x = id
    <3>1. run \in [Ids -> RunStates]
      BY DEF DockInv, SessionsInv
    <3>2. run'[id] = to
      BY <3>1, <1>1, <1>4
    <3>3. CASE src.kind = "terminal"
      BY <2>2, <3>3, <1>10 DEF Coming, Announces
    <3>4. CASE src.kind # "terminal"
      BY <2>2, <3>2, <3>4 DEF Coming
    <3> QED BY <3>3, <3>4
  <2>3. CASE x # id
    <3>1. x \in registered /\ x \in Started /\ x \notin cancelled
      BY <2>1, <2>3, <1>1 DEF DockInv, SessionsInv
    <3>2. Visible(ui, x) \/ Coming(x)
      BY <3>1 DEF DockInv, NoHiddenSession, Visible
    <3>3. Visible(ui, x)' <=> Visible(ui, x)
      BY <1>1 DEF Visible
    <3>4. ASSUME Coming(x) PROVE Coming(x)'
      <4>1. run[x] = "starting" => run'[x] = "starting"
        BY <2>3, <3>1, <1>1, <1>4 DEF DockInv, SessionsInv
      <4>2. Answers(x) => Answers(x)'
        <5>1. None # x
          BY <3>1, <1>4, SourcesAre
        <5>2. \A j \in Slots : j # k => call'[j] = call[j]
          BY <1>2, <1>3
        <5> QED BY <5>1, <5>2, <1>2 DEF Answers
      <4>3. KindOf(x) \in asked => KindOf(x)' \in asked'
        BY <3>1, <1>1, <1>7
      <4>4. Lists(x) => Lists(x)'
        BY <1>1 DEF Lists
      <4> QED BY <3>4, <4>1, <4>2, <4>3, <4>4, <1>10 DEF Coming, Announces, Answers, Lists
    <3> QED BY <3>2, <3>3, <3>4
  <2> QED BY <2>2, <2>3
<1> QED BY <1>8, <1>9, <1>10, <1>11, <1>12, <1>13 DEF DockInv

\* An answer of Statuses tells of every session of its kind, in some order, and of none as stopped.
LEMMA StatusesReadKeeps == ASSUME DockInv, NEW kind \in Kinds, StatusesRead(kind) PROVE DockInv'
<1> DEFINE S == {id \in registered : KindOf(id) = kind}
<1>1. PICK listed \in Sorted(S) :
        snapshots' = snapshots \cup ({[i \in DOMAIN listed |-> StatusOf(listed[i])]} \ {<<>>})
  BY DEF StatusesRead
<1> DEFINE answer == [i \in DOMAIN listed |-> StatusOf(listed[i])]
<1>2. /\ kind \in asked /\ asked' = asked \ {kind}
      /\ UNCHANGED <<clusters, source, started, registered, run, cancelled, call, events, ui>>
  BY DEF StatusesRead, service
<1>3. S \subseteq Ids /\ S \subseteq Started /\ Cardinality(S) \in Nat
  <2>1. S \subseteq Ids /\ S \subseteq Started
    BY StartedAreIds DEF DockInv, SessionsInv
  <2>2. IsFiniteSet(Ids)
    BY DockAssumption, FS_Interval DEF Ids
  <2> QED BY <2>1, <2>2, FS_Subset, FS_CardinalityType
<1> HIDE DEF S
<1>4. listed \in [1..Cardinality(S) -> S] /\ \A id \in S : \E i \in DOMAIN listed : listed[i] = id
  BY <1>1 DEF Sorted, Elements
<1>5. \A id \in Ids : StatusOf(id) \in Told /\ StatusOf(id).id = id
  BY DEF StatusOf, Told
<1>6. Answer1(answer) /\ \A i \in DOMAIN answer : answer[i].id = listed[i]
  <2>1. answer \in [1..Cardinality(S) -> Told]
    BY <1>3, <1>4, <1>5
  <2>2. answer \in Seq(Told)
    BY <2>1, <1>3
  <2>3. \A i \in DOMAIN answer : answer[i].id = listed[i] /\ answer[i].id \in Started
    BY <1>3, <1>4, <1>5
  <2> QED BY <2>2, <2>3 DEF Answer1
<1>7. ASSUME NEW id \in S PROVE \E i \in DOMAIN answer : answer[i].id = id
  BY <1>4, <1>6
<1>8. DOMAIN answer = {} \/ answer # <<>>
  OBVIOUS
<1>9. snapshots' = snapshots \cup ({answer} \ {<<>>})
  BY <1>1
<1>10. DOMAIN <<>> = {}
  OBVIOUS
<1> HIDE DEF answer
<1>11. (\A id \in S : Lists(id)') /\ \A id : Lists(id) => Lists(id)'
  BY <1>7, <1>9, <1>10 DEF Lists
<1>12. SnapshotsInv'
  BY <1>2, <1>6, <1>9 DEF DockInv, SnapshotsInv, Answer1, Started
<1>13. CallsInv' /\ EventsInv'
  BY <1>2, CallsStay, EventsStay DEF DockInv
<1>14. ASSUME NEW id \in registered, Coming(id) PROVE Coming(id)'
  <2>1. KindOf(id) \in asked => Lists(id)' \/ (KindOf(id) \in asked)'
    BY <1>2, <1>11 DEF S, KindOf
  <2> QED BY <1>2, <1>11, <1>14, <2>1 DEF Coming, Lists
<1> QED BY <1>2, <1>12, <1>13, <1>14, StepKeeps DEF DockInv, PlacesInv, SessionsInv

--------------------------------------------------------------------------------
(* The window. *)

\* What an event tells of is on screen, unless it is a stream that was stopped.
LEMMA EventArrivesKeeps == ASSUME DockInv, EventArrives PROVE DockInv'
<1> DEFINE e == Head(events)
           u == SetStatus(ui, e.id, e.st)
           n == Len(events)
<1>1. /\ events # <<>> /\ ui' = u /\ events' = Tail(events)
      /\ UNCHANGED <<clusters, source, started, registered, run, cancelled, call, asked, snapshots>>
  BY DEF EventArrives, service
<1>2. /\ n \in Nat \ {0} /\ DOMAIN events = 1..n /\ e = events[1]
      /\ events' \in Seq(EventType) /\ DOMAIN events' = 1..(n - 1) /\ \A i \in 1..(n - 1) : events'[i] = events[i + 1]
  BY <1>1 DEF DockInv, EventsInv
<1> HIDE DEF n
<1>3. Announced(e) /\ e.id \in Started /\ e.st \in Statuses
  BY <1>2 DEF DockInv, EventsInv, Announced, EventType
<1> HIDE DEF e
<1>4. /\ Sound(u)
      /\ Visible(u, e.id) \/ (e.st = "stopped" /\ KindOf(e.id) = "log")
      /\ \A x \in Ids : Visible(ui, x) => Visible(u, x) \/ (x = e.id /\ e.st = "stopped" /\ KindOf(e.id) = "log")
  BY <1>3, SetStatusSound DEF DockInv
<1> HIDE DEF u
<1>5. e.st = "stopped" /\ KindOf(e.id) = "log" => e.id \in cancelled
  BY <1>3 DEF Announced
<1>6. EventsInv'
  <2>1. \A i \in 1..(n - 1) : Announced(events'[i])
    BY <1>2 DEF DockInv, EventsInv
  <2> QED BY <1>1, <1>2, <2>1 DEF EventsInv, Announced, Started, KindOf
<1>7. \A x : Announces(x) => x = e.id \/ Announces(x)'
  <2>1. SUFFICES ASSUME NEW x, Announces(x), x # e.id PROVE Announces(x)'
    OBVIOUS
  <2>2. PICK i \in 1..n : events[i].id = x
    BY <2>1, <1>2 DEF Announces
  <2>3. i # 1
    BY <2>1, <2>2, <1>2
  <2>4. i - 1 \in 1..(n - 1) /\ events'[i - 1] = events[i]
    BY <2>3, <1>2
  <2> QED BY <2>2, <2>4, <1>2 DEF Announces
<1>8. CallsInv' /\ SnapshotsInv'
  BY <1>1, CallsStay, SnapshotsStay DEF DockInv
<1>9. ASSUME NEW id \in registered, id \notin cancelled, Visible(ui, id) \/ Coming(id)
      PROVE  Visible(u, id) \/ Coming(id)'
  <2>1. id \in Ids
    BY StartedAreIds DEF DockInv, SessionsInv
  <2>2. CASE Visible(ui, id)
    BY <2>1, <2>2, <1>4, <1>5, <1>9
  <2>3. CASE id = e.id
    BY <2>3, <1>4, <1>5, <1>9
  <2>4. CASE id # e.id /\ Coming(id)
    <3>1. Announces(id) => Announces(id)'
      BY <2>4, <1>7
    <3>2. (KindOf(id) \in asked)' <=> KindOf(id) \in asked
      BY <1>1 DEF KindOf
    <3> QED BY <2>4, <3>1, <3>2, <1>1 DEF Coming, Announces
  <2> QED BY <2>2, <2>3, <2>4, <1>9
<1> QED BY <1>1, <1>4, <1>6, <1>8, <1>9, StepKeeps DEF DockInv, PlacesInv, SessionsInv

LEMMA SnapshotArrivesKeeps == ASSUME DockInv, NEW answer \in snapshots, SnapshotArrives(answer) PROVE DockInv'
<1> DEFINE u == SetAll(ui, answer)
<1>1. /\ snapshots' = snapshots \ {answer} /\ ui' = u
      /\ UNCHANGED <<clusters, source, started, registered, run, cancelled, call, events, asked>>
  BY DEF SnapshotArrives, service
<1>2. Sound(u) /\ ~ Hides(ui, u) /\ \A i \in DOMAIN answer : Visible(u, answer[i].id)
  BY SetAllSound DEF DockInv, SnapshotsInv
<1> HIDE DEF u
<1>3. CallsInv' /\ EventsInv' /\ SnapshotsInv'
  <2>1. SnapshotsInv'
    BY <1>1 DEF DockInv, SnapshotsInv, Answer1, Started
  <2> QED BY <2>1, <1>1, CallsStay, EventsStay DEF DockInv
<1>4. ASSUME NEW id \in registered, Visible(ui, id) \/ Coming(id) PROVE Visible(u, id) \/ Coming(id)'
  <2>1. Visible(ui, id) => Visible(u, id)
    BY <1>2, StartedAreIds DEF Hides, DockInv, SessionsInv
  <2>2. Lists(id) => Lists(id)' \/ Visible(u, id)
    BY <1>1, <1>2 DEF Lists
  <2>3. (KindOf(id) \in asked)' <=> KindOf(id) \in asked
    BY <1>1 DEF KindOf
  <2> QED BY <1>1, <1>4, <2>1, <2>2, <2>3 DEF Coming, Lists
<1> QED BY <1>1, <1>2, <1>3, <1>4, StepKeeps DEF DockInv, PlacesInv, SessionsInv

\* A step of the window that handles an answer: the session the call started, if any, is shown.
LEMMA AnswerKeeps ==
  ASSUME DockInv, NEW k \in Slots, NEW c, CallSound(c), call' = [call EXCEPT ![k] = c],
         NEW u, Sound(u), ui' = u, ~ Hides(ui, u),
         call[k].op = "start" /\ call[k].kept /\ call[k].id \in Ids => Visible(u, call[k].id),
         UNCHANGED <<service, events, asked, snapshots>>
  PROVE  DockInv'
<1>1. UNCHANGED <<clusters, source, started, registered, run, cancelled, events, asked, snapshots>>
  BY DEF service
<1>2. /\ CallsInv'
      /\ \A id : Answers(id) => Answers(id)' \/ (call[k].op = "start" /\ call[k].id = id /\ call[k].kept)
  BY <1>1, OneCallGoes DEF DockInv
<1>3. EventsInv' /\ SnapshotsInv'
  BY <1>1, EventsStay, SnapshotsStay DEF DockInv
<1>4. ASSUME NEW id \in registered, Visible(ui, id) \/ Coming(id) PROVE Visible(u, id) \/ Coming(id)'
  <2>1. id \in Ids
    BY StartedAreIds DEF DockInv, SessionsInv
  <2>2. Visible(ui, id) => Visible(u, id)
    BY <2>1 DEF Hides
  <2>3. Answers(id) => Answers(id)' \/ Visible(u, id)
    BY <2>1, <1>2
  <2>4. (KindOf(id) \in asked)' <=> KindOf(id) \in asked
    BY <1>1 DEF KindOf
  <2> QED BY <1>1, <1>4, <2>2, <2>3, <2>4 DEF Coming, Answers
<1> QED BY <1>1, <1>2, <1>3, <1>4, StepKeeps DEF DockInv, PlacesInv, SessionsInv

LEMMA StartAnsweredKeeps == ASSUME DockInv, NEW k \in Slots, StartAnswered(k) PROVE DockInv'
<1> DEFINE id == call[k].id
           src == call[k].src
           closes == call[k].closes
           placed == IF ui.shown[id] = "none" THEN SetSessionStatus(ui, id, "live") ELSE ui
<1>1. /\ call[k].op = "start" /\ call[k].phase = "answered"
      /\ UNCHANGED <<service, events, asked, snapshots>>
  BY DEF StartAnswered
<1>2. /\ CallSound(call[k]) /\ closes \subseteq Ids /\ id \in Started /\ KindOf(id) = src.kind /\ Sound(ui) /\ SessionsInv
      /\ (src.kind # "log" => \A x \in closes : x \in Started /\ KindOf(x) # "log")
  BY <1>1 DEF DockInv, CallsInv, CallSound, Call, KindOf
<1>3. id \in Ids
  BY <1>2, StartedAreIds
<1>4. CASE src.kind = "log"
  <2> DEFINE u == OpenLogTab(ui, id, call[k].replaces)
             c == IF closes = {} THEN Idle ELSE StopCall(closes)
  <2>1. ui' = u /\ call' = [call EXCEPT ![k] = c]
    BY <1>4 DEF StartAnswered
  <2>2. Sound(u) /\ ~ Hides(ui, u) /\ Visible(u, id)
    BY <1>2, <1>4, OpenLogTabSound
  <2>3. CallSound(c)
    BY <1>2, IdleSound, StopCallSound
  <2> HIDE DEF u, c
  <2> QED BY <1>1, <2>1, <2>2, <2>3, AnswerKeeps
<1>5. CASE src.kind # "log"
  <2> DEFINE u == CloseAll(placed, closes)
  <2>1. ui' = u /\ call' = [call EXCEPT ![k] = Idle]
    BY <1>5 DEF StartAnswered, Done
  <2>2. Sound(placed) /\ ~ Hides(ui, placed) /\ Visible(placed, id)
    <3>1. CASE ui.shown[id] = "none"
      <4>1. placed = SetStatus(ui, id, "live")
        BY <3>1, <1>2, <1>5 DEF SetStatus
      <4> HIDE DEF placed
      <4>2. Sound(placed) /\ (\A x \in Ids : Visible(ui, x) => Visible(placed, x)) /\ Visible(placed, id)
        BY <4>1, <1>2, SetStatusSound DEF Statuses
      <4> QED BY <4>2 DEF Hides
    <3>2. CASE ui.shown[id] # "none"
      <4>1. placed = ui
        BY <3>2
      <4> QED BY <3>2, <4>1, <1>2, Same DEF Visible
    <3> QED BY <3>1, <3>2
  <2> HIDE DEF placed
  <2>3. Sound(u) /\ ~ Hides(placed, u)
    BY <1>2, <1>5, <2>2, CloseAllSound
  <2> HIDE DEF u
  <2>4. ~ Hides(ui, u) /\ Visible(u, id)
    BY <1>3, <2>2, <2>3 DEF Hides
  <2> QED BY <1>1, <2>1, <2>3, <2>4, IdleSound, AnswerKeeps
<1> QED BY <1>4, <1>5

LEMMA DeleteAnsweredKeeps == ASSUME DockInv, NEW k \in Slots, DeleteAnswered(k) PROVE DockInv'
<1> DEFINE gone == {id \in Present(ui) : KindOf(id) # "log" /\ ClusterOf(id) = call[k].cluster}
           u == [ui EXCEPT !.shown = [id \in Ids |-> IF id \in gone THEN "none" ELSE @[id]],
                           !.order = Without(@, gone),
                           !.closed = @ \cup gone]
<1>1. /\ call[k].op = "delete" /\ ui' = u /\ call' = [call EXCEPT ![k] = Idle]
      /\ UNCHANGED <<service, events, asked, snapshots>>
  BY DEF DeleteAnswered, Done
<1>2. Sound(u) /\ ~ Hides(ui, u)
  <2>1. gone \in SUBSET Present(ui) /\ \A id \in gone : KindOf(id) # "log"
    OBVIOUS
  <2> HIDE DEF gone
  <2> QED BY <2>1, ForgetSound DEF DockInv
<1> HIDE DEF u
<1> QED BY <1>1, <1>2, IdleSound, AnswerKeeps

LEMMA AnswerDroppedKeeps == ASSUME DockInv, NEW k \in Slots, AnswerDropped(k) PROVE DockInv'
<1>1. call[k].op = "start" /\ call[k].kept => call[k].id \notin Ids
  BY SourcesAre DEF AnswerDropped, DockInv, CallsInv, CallSound
<1>2. call' = [call EXCEPT ![k] = Idle] /\ UNCHANGED <<service, events, asked, snapshots, ui>>
  BY DEF AnswerDropped, Done
<1> QED BY <1>1, <1>2, IdleSound, Same, AnswerKeeps DEF DockInv

--------------------------------------------------------------------------------
(* The theorems. *)

LEMMA InitIsSound == Init => DockInv
<1> SUFFICES ASSUME Init PROVE DockInv
  OBVIOUS
<1> USE DockAssumption DEF Init
<1>1. PlacesInv /\ SessionsInv
  BY DEF PlacesInv, SessionsInv, Started, RunStates
<1>2. CallsInv
  BY IdleSound DEF CallsInv, CallSound
<1>3. EventsInv /\ SnapshotsInv /\ NoHiddenSession
  BY DEF EventsInv, SnapshotsInv, NoHiddenSession
<1>4. Sound(ui)
  BY DEF Sound, EmptyStore, Stores, Elements, Present, Once
<1> QED BY <1>1, <1>2, <1>3, <1>4 DEF DockInv

LEMMA StuttersAreSound == ASSUME DockInv, UNCHANGED vars PROVE DockInv'
BY DEF DockInv, vars, service, PlacesInv, SessionsInv, CallsInv, CallSound, EventsInv, Announced, SnapshotsInv, Answer1,
       Sound, Started, Present, KindOf, NoHiddenSession, Coming

LEMMA StepsAreSound == DockInv /\ [Next]_vars => DockInv'
<1> SUFFICES ASSUME DockInv, [Next]_vars PROVE DockInv'
  OBVIOUS
<1>1. CASE User
  BY <1>1, UserStartsLogsKeeps, UserOpensSessionKeeps, UserOpensAgainKeeps, UserClosesKeeps, UserPicksContainerKeeps,
     UserRemovesClusterKeeps, ReloadKeeps DEF User
<1>2. CASE Service
  BY <1>2, StartChecksKeeps, StartRegistersKeeps, DeleteListsKeeps, StopEndsKeeps, StopReturnsKeeps, StopBeginsKeeps,
     SessionsKeep, StatusesReadKeeps DEF Service
<1>3. CASE Window
  BY <1>3, EventArrivesKeeps, SnapshotArrivesKeeps, StartAnsweredKeeps, DeleteAnsweredKeeps, AnswerDroppedKeeps DEF Window
<1>4. CASE UNCHANGED vars
  BY <1>4, StuttersAreSound
<1> QED BY <1>1, <1>2, <1>3, <1>4 DEF Next

LEMMA AlwaysSound == Spec => []DockInv
BY InitIsSound, StepsAreSound, PTL DEF Spec

\* Every variable keeps its type: the sessions started are those the service, the calls, the events and the store name.
THEOREM TypeCorrect == Spec => []TypeOK
<1>1. DockInv => TypeOK
  BY DEF DockInv, PlacesInv, SessionsInv, CallsInv, EventsInv, Sound, Stores, TypeOK, Started, Ids
<1> QED BY <1>1, AlwaysSound, PTL

\* Every session in the store has exactly one tab and every tab a session, whichever of the first event, the answer of
\* Start and the snapshot comes first (store.ts openLogTab, addDockTab, setShellStatus).
THEOREM TabsAreOne == Spec => []OneTabEach
<1>1. DockInv => OneTabEach
  BY DEF DockInv, Sound, OneTabEach, Once
<1> QED BY <1>1, AlwaysSound, PTL

\* A shell or Terminal the user closed is not shown again by a transition still on its way (store.ts closedIds).
THEOREM ClosedIsClosed == Spec => []ClosedStaysClosed
<1>1. DockInv => ClosedStaysClosed
  BY DEF DockInv, Sound, ClosedStaysClosed
<1> QED BY <1>1, AlwaysSound, PTL

\* No session that runs is hidden from the window, reloads included: it is shown, was closed, or will be shown by an
\* event, an answer or a snapshot on its way (main.tsx, shell.tsx over the service's Statuses).
THEOREM NothingIsHidden == Spec => []NoHiddenSession
<1>1. DockInv => NoHiddenSession
  BY DEF DockInv
<1> QED BY <1>1, AlwaysSound, PTL
================================================================================
