------------------------ MODULE SequenceFilterProofs ------------------------
(***************************************************************************)
(* Theorems about SequenceFilter, for every window size, time modulus,     *)
(* freshness bound, cap and set of packets: its type invariant,            *)
(* at-most-once delivery, no false replay and the deadline of expiry.      *)
(***************************************************************************)
EXTENDS SequenceFilter, FiniteSetTheorems, WellFoundedInduction, TLAPS

-----------------------------------------------------------------------------
(* Arithmetic of the two moduli. *)

\* The quotient and remainder the two lemmas below reason with.
LEMMA DivMod ==
  ASSUME NEW M \in Nat \ {0}, NEW a \in Nat
  PROVE  /\ a % M \in 0..(M - 1) /\ a \div M \in Nat
         /\ a = (M * (a \div M)) + (a % M)
OBVIOUS

\* Numbers less than M apart have quotients at most one apart.
LEMMA NearQuotients ==
  ASSUME NEW M \in Nat \ {0}, NEW a \in Nat, NEW b \in Nat, a <= b, b - a < M
  PROVE  \/ (b % M) - (a % M) = b - a
         \/ (b % M) - (a % M) = b - a - M
<1> DEFINE qa == a \div M
           qb == b \div M
           ra == a % M
           rb == b % M
<1>1. /\ ra \in 0..(M - 1) /\ rb \in 0..(M - 1) /\ qa \in Nat /\ qb \in Nat
      /\ a = M * qa + ra /\ b = M * qb + rb
  BY DivMod
<1> HIDE DEF qa, qb, ra, rb
<1>2. PICK d \in Int : d = qb - qa
  BY <1>1
<1>3. M * qb = M * qa + M * d
  BY <1>1, <1>2
<1>4. b - a = M * d + (rb - ra)
  BY <1>1, <1>3
<1>5. M * d < 2 * M /\ M * d > 0 - M
  BY <1>1, <1>4
<1>6. d < 2
  BY <1>5
<1>7. d > -1
  BY <1>5
<1>8. d = 0 \/ d = 1
  BY <1>6, <1>7
<1>9. (b % M) - (a % M) = rb - ra
  BY DEF ra, rb
<1>10. CASE d = 0
  BY <1>4, <1>9, <1>10, <1>1
<1>11. CASE d = 1
  BY <1>4, <1>9, <1>11, <1>1
<1> QED
  BY <1>8, <1>10, <1>11

\* Remainders of numbers within one turn of M.
LEMMA ModNear ==
  ASSUME NEW M \in Nat \ {0}, NEW x \in Int
  PROVE  /\ x \in 0..(M - 1) => x % M = x
         /\ x \in (0 - M)..(-1) => x % M = x + M
OBVIOUS

\* Two different numbers less than WindowBits apart use different bits.
LEMMA IndexInjective ==
  ASSUME NEW m \in Nat, NEW n \in Nat, m < n, n - m < WindowBits
  PROVE  Index(m) # Index(n)
<1>0. WindowBits \in Nat \ {0} /\ m <= n
  BY WindowAssumption
<1>1. \/ (n % WindowBits) - (m % WindowBits) = n - m
      \/ (n % WindowBits) - (m % WindowBits) = n - m - WindowBits
  BY ONLY NearQuotients, <1>0, m \in Nat, n \in Nat, n - m < WindowBits, Zenon
<1>2. n % WindowBits \in Int /\ m % WindowBits \in Int
  BY DivMod, WindowAssumption
<1> QED
  BY <1>1, <1>2, WindowAssumption DEF Index

\* Numbers one window apart share their bit.
LEMMA IndexPeriodic ==
  ASSUME NEW n \in Nat
  PROVE  Index(n + WindowBits) = Index(n)
<1> DEFINE M == WindowBits
           q == n \div M
           r == n % M
           p == (n + M) \div M
           t == (n + M) % M
<1>1. M \in Nat \ {0} /\ n + M \in Nat
  BY WindowAssumption
<1>2. /\ r \in 0..(M - 1) /\ t \in 0..(M - 1) /\ q \in Nat /\ p \in Nat
      /\ n = (M * q) + r /\ n + M = (M * p) + t
  BY <1>1, DivMod
<1>3. t = r
  <2> HIDE DEF M, q, r, p, t
  <2>1. PICK d \in Int : d = p - q
    BY <1>2
  <2>2. M * p = (M * q) + (M * d)
    BY <1>1, <1>2, <2>1
  <2>3. M = (M * d) + (t - r)
    BY <1>1, <1>2, <2>2
  <2>4. M * d < 2 * M /\ M * d > 0
    BY <1>1, <1>2, <2>3
  <2>5. d < 2 /\ d > 0
    BY <1>1, <2>4
  <2>6. d = 1
    BY <2>5
  <2> QED
    BY <1>1, <1>2, <2>3, <2>6
<1> QED
  BY <1>3 DEF Index

\* A sequence number has a bit of the window.
LEMMA IndexType ==
  ASSUME NEW n \in Nat
  PROVE  Index(n) \in 0..(WindowBits - 1)
BY DivMod, WindowAssumption DEF Index

\* A tick on the wire is below the modulus.
LEMMA WireType ==
  ASSUME NEW t \in Nat
  PROVE  Wire(t) \in 0..(TimeMod - 1)
BY DivMod, TimeAssumption DEF Wire

\* time_diff on wire stamps is the real distance of the ticks they stand for.
LEMMA TimeDiffExact ==
  ASSUME NEW later \in First..Last, NEW earlier \in First..Last
  PROVE  TimeDiff(Wire(later), Wire(earlier)) = later - earlier
<1>1. /\ later \in Nat /\ earlier \in Nat /\ TimeMod \in Nat \ {0}
      /\ 2 * (later - earlier) < TimeMod /\ 2 * (earlier - later) < TimeMod
  BY TimeAssumption
<1>2. Wire(later) \in 0..(TimeMod - 1) /\ Wire(earlier) \in 0..(TimeMod - 1)
  BY <1>1, WireType
<1> DEFINE x == Wire(later) - Wire(earlier)
           d == later - earlier
<1>3. x = d \/ x = d - TimeMod \/ x = d + TimeMod
  <2>1. CASE earlier <= later
    <3>0. later - earlier < TimeMod
      BY <2>1, <1>1
    <3>1. \/ (later % TimeMod) - (earlier % TimeMod) = later - earlier
          \/ (later % TimeMod) - (earlier % TimeMod) = later - earlier - TimeMod
      BY ONLY <3>0, <2>1, <1>1, NearQuotients, Zenon
    <3> QED
      BY <3>1, <1>1, <1>2 DEF Wire
  <2>2. CASE later < earlier
    <3>0. later <= earlier /\ earlier - later < TimeMod
      BY <2>2, <1>1
    <3>1. \/ (earlier % TimeMod) - (later % TimeMod) = earlier - later
          \/ (earlier % TimeMod) - (later % TimeMod) = earlier - later - TimeMod
      BY ONLY <3>0, <1>1, NearQuotients, Zenon
    <3> QED
      BY <3>1, <1>1, <1>2 DEF Wire
  <2> QED
    BY <2>1, <2>2, <1>1
<1>4. x \in Int /\ d \in Int /\ x < TimeMod /\ x > 0 - TimeMod
  BY <1>1, <1>2
<1>5. x % TimeMod = IF x >= 0 THEN x ELSE x + TimeMod
  BY <1>1, <1>4, ModNear
<1>6. x % TimeMod = IF d >= 0 THEN d ELSE d + TimeMod
  <2> HIDE DEF x, d
  <2>1. 2 * d < TimeMod /\ 2 * (0 - d) < TimeMod
    BY <1>1 DEF d
  <2> QED
    BY <1>1, <1>3, <1>4, <1>5, <2>1
<1>7. TimeDiff(Wire(later), Wire(earlier)) =
        IF 2 * (x % TimeMod) >= TimeMod THEN (x % TimeMod) - TimeMod ELSE x % TimeMod
  BY DEF TimeDiff
<1> QED
  <2> HIDE DEF x
  <2> QED
    BY <1>1, <1>4, <1>6, <1>7

-----------------------------------------------------------------------------
(* What the operations on one window preserve. *)

\* Window::insert gives a window.
LEMMA InsertType ==
  ASSUME NEW w \in Window, NEW n \in Nat, NEW time \in 0..(TimeMod - 1)
  PROVE  Insert(w, n, time) \in Window
<1>1. KeptBits(w, n) \subseteq 0..(WindowBits - 1)
  BY DEF KeptBits, Window
<1>2. Index(n) \in 0..(WindowBits - 1)
  BY IndexType
<1>3. NewestTime(w, time) \in 0..(TimeMod - 1)
  BY DEF NewestTime, Window
<1>4. (IF n <= w.max THEN w.max ELSE n) \in Nat
  BY DEF Window
<1> QED
  BY <1>1, <1>2, <1>3, <1>4 DEF Insert, Window

\* The window of a first packet is a window.
LEMMA NewWindowType ==
  ASSUME NEW n \in Nat, NEW time \in 0..(TimeMod - 1)
  PROVE  /\ NewWindow(n, time) \in Window
         /\ Covered(NewWindow(n, time), n)
BY IndexType DEF NewWindow, Window, Covered, IsReplay

\* The mark for an absent window is not one of the windows.
LEMMA NoWindowApart == NoWindow \notin Window
BY DEF NoWindow, Window

\* An inserted number is covered, and no slide uncovers one that was.
LEMMA InsertCovers ==
  ASSUME NEW w \in Window, NEW n \in Nat, NEW time, NEW m \in Nat,
         m = n \/ Covered(w, m)
  PROVE  Covered(Insert(w, n, time), m)
<1> DEFINE v == Insert(w, n, time)
<1>1. /\ w.max \in Nat /\ WindowBits \in Nat \ {0}
      /\ v.max = IF n <= w.max THEN w.max ELSE n
      /\ v.bits = KeptBits(w, n) \cup {Index(n)}
  BY WindowAssumption DEF Insert, Window
<1>2. CASE m = n
  BY <1>1, <1>2 DEF Covered, IsReplay
<1>3. CASE Covered(w, m)
  <2>1. m <= w.max /\ (w.max - m >= WindowBits \/ Index(m) \in w.bits)
    BY <1>3 DEF Covered, IsReplay
  <2>2. CASE n <= w.max
    BY <1>1, <2>1, <2>2 DEF Covered, IsReplay, KeptBits
  <2>3. CASE ~ (n <= w.max) /\ n - m >= WindowBits
    BY <1>1, <2>1, <2>3 DEF Covered, IsReplay
  <2>4. CASE ~ (n <= w.max) /\ n - m < WindowBits
    <3>1. Index(m) \in w.bits /\ n - w.max < WindowBits
      BY <1>1, <2>1, <2>4
    <3>2. ASSUME NEW i \in 1..(n - w.max)
          PROVE  Index(w.max + i) # Index(m)
      <4>1. PICK k \in Nat : k = w.max + i
        BY <1>1
      <4>2. m < k /\ k - m < WindowBits
        BY <1>1, <2>1, <2>4, <4>1
      <4>3. Index(m) # Index(k)
        BY <4>2, IndexInjective
      <4> QED
        BY <4>1, <4>3
    <3>3. Index(m) \notin ClearedAfter(w.max, n - w.max)
      BY <3>2 DEF ClearedAfter
    <3>4. KeptBits(w, n) = w.bits \ ClearedAfter(w.max, n - w.max)
      BY <1>1, <2>4, <3>1 DEF KeptBits
    <3> QED
      BY <1>1, <2>1, <2>4, <3>1, <3>3, <3>4 DEF Covered, IsReplay
  <2> QED
    BY <1>1, <2>2, <2>3, <2>4
<1> QED
  BY <1>2, <1>3

-----------------------------------------------------------------------------
(* Type correctness. *)

\* What the network delivers has the types the filter expects.
LEMMA PacketType ==
  ASSUME NEW p \in Packets
  PROVE  p.id \in SeqIds /\ p.no \in Nat /\ p.time \in First..Last /\ p.time \in Nat
BY PacketAssumption, TimeAssumption

\* check_and_insert stores a window for an accepted packet.
LEMMA StoredType ==
  ASSUME TypeOK, NEW p \in Packets
  PROVE  Stored(p) \in Window
<1>1. p.id \in SeqIds /\ p.no \in Nat /\ Wire(p.time) \in 0..(TimeMod - 1)
  BY PacketType, WireType
<1>2. CASE p.id \in Open
  <2>1. windows[p.id] \in Window
    BY <1>1, <1>2 DEF Open, TypeOK
  <2> QED
    BY <1>1, <1>2, <2>1, InsertType DEF Stored
<1>3. CASE p.id \notin Open
  BY <1>1, <1>3, NewWindowType DEF Stored
<1> QED
  BY <1>2, <1>3

\* check_and_insert, remove_expired and the clock keep the types.
LEMMA TypeStep ==
  ASSUME TypeOK, [Next]_vars
  PROVE  TypeOK'
<1>1. ASSUME NEW p \in Packets, Receive(p)
      PROVE  TypeOK'
  BY <1>1, StoredType, PacketType DEF Receive, TypeOK
<1>2. CASE RemoveExpired
  BY <1>2 DEF RemoveExpired, TypeOK
<1>3. CASE Tick
  BY <1>3, TimeAssumption DEF Tick, TypeOK
<1>4. CASE UNCHANGED vars
  BY <1>4 DEF vars, TypeOK
<1> QED
  BY <1>1, <1>2, <1>3, <1>4 DEF Next

\* The filter's state stays well typed: no reachable window leaves the bitmap
\* or the range of a wire time stamp (SequenceWindow::insert, ::new).
THEOREM TypeCorrect == Spec => []TypeOK
<1>1. Init => TypeOK
  BY DEF Init, TypeOK
<1> QED
  BY <1>1, TypeStep, PTL DEF Spec

-----------------------------------------------------------------------------
(* At-most-once delivery. *)

\* A packet that passed once cannot pass again.
LEMMA RememberedBlocks ==
  ASSUME IInv, NEW p \in Packets, Receive(p)
  PROVE  accepts[p] = 0
<1>1. /\ p.id \in SeqIds /\ p.time \in First..Last /\ now \in First..Last
      /\ accepts[p] \in Nat
  BY PacketType DEF IInv, TypeOK
<1>2. PICK tick \in First..Last : accepts[p] > 0 => Remembered(p, tick)
  BY <1>1 DEF IInv, Remembers
<1>3. ~ Remembered(p, tick)
  <2>1. /\ TimeDiff(Wire(now), Wire(p.time)) <= MaxPast
        /\ ~ (p.id \in Open /\ IsReplay(windows[p.id], p.no))
    BY DEF Receive, Verdict, Fresh
  <2>2. TimeDiff(Wire(now), Wire(p.time)) = now - p.time
    BY <1>1, TimeDiffExact
  <2> QED
    BY <1>1, <2>1, <2>2, TimeAssumption DEF Remembered, Covered
<1> QED
  BY <1>1, <1>2, <1>3

\* A newest stamp is replaced exactly by a really later one.
LEMMA NewestAdvances ==
  ASSUME NEW w, NEW tick \in First..Last, NEW time \in First..Last, NewestIs(w, tick)
  PROVE  NewestTime(w, Wire(time)) = Wire(IF time > tick THEN time ELSE tick)
BY TimeDiffExact, TimeAssumption DEF NewestIs, NewestTime

\* An accepted packet, and every one accepted before it, stays remembered
\* when check_and_insert moves or creates a window.
LEMMA ReceiveRemembers ==
  ASSUME IInv, NEW p \in Packets, Receive(p), NEW id \in SeqIds
  PROVE  Remembers(id)'
<1>1. /\ p.id \in SeqIds /\ p.no \in Nat /\ p.time \in First..Last /\ p.time \in Nat
      /\ now \in First..Last /\ TypeOK /\ TypeOK'
  BY PacketType, TypeStep DEF IInv, Next, TypeOK
<1>2. PICK tick \in First..Last :
         /\ id \in Open => NewestIs(windows[id], tick)
         /\ \A q \in Packets : q.id = id /\ accepts[q] > 0 => Remembered(q, tick)
  BY DEF IInv, Remembers
<1>3. /\ windows' = [windows EXCEPT ![p.id] = Stored(p)]
      /\ accepts' = [accepts EXCEPT ![p] = @ + 1]
      /\ now' = now
  BY DEF Receive
<1>4. CASE id # p.id
  <2>1. windows'[id] = windows[id] /\ (id \in Open)' = (id \in Open)
    BY <1>1, <1>3, <1>4 DEF TypeOK, Open
  <2>2. ASSUME NEW q \in Packets, q.id = id, accepts'[q] > 0
        PROVE  Remembered(q, tick)'
    <3>1. accepts[q] > 0
      BY <1>1, <1>3, <1>4, <2>2 DEF TypeOK
    <3>2. Remembered(q, tick)
      BY <1>2, <2>2, <3>1
    <3> QED
      BY <1>3, <2>1, <2>2, <3>2 DEF Remembered
  <2>3. (id \in Open)' => NewestIs(windows[id], tick)'
    BY <1>2, <2>1 DEF NewestIs
  <2> QED
    BY <2>2, <2>3 DEF Remembers
<1>5. CASE id = p.id
  <2>1. /\ windows'[id] = Stored(p) /\ Stored(p) \in Window
        /\ (id \in Open)'
    BY <1>1, <1>3, <1>5, StoredType, NoWindowApart DEF TypeOK, Open
  <2>2. CASE id \notin Open
    <3>1. Stored(p) = NewWindow(p.no, Wire(p.time))
      BY <1>5, <2>2 DEF Stored
    <3>2. NewestIs(windows[id], p.time)'
      BY <2>1, <3>1 DEF NewestIs, NewWindow
    <3>3. ASSUME NEW q \in Packets, q.id = id, accepts'[q] > 0
          PROVE  Remembered(q, p.time)'
      <4>1. CASE q = p
        <5>1. Covered(Stored(p), p.no)
          BY <3>1, <1>1, NewWindowType, WireType
        <5> QED
          BY <1>1, <1>5, <2>1, <4>1, <5>1 DEF Remembered, Covered, IsReplay
      <4>2. CASE q # p
        <5>1. accepts[q] > 0
          BY <1>1, <1>3, <3>3, <4>2 DEF TypeOK
        <5>2. now - q.time > MaxPast
          BY <1>2, <2>2, <3>3, <5>1 DEF Remembered
        <5> QED
          BY <1>3, <5>2 DEF Remembered
      <4> QED
        BY <4>1, <4>2
    <3> QED
      BY <1>1, <3>2, <3>3 DEF Remembers
  <2>3. CASE id \in Open
    <3> DEFINE latest == IF p.time > tick THEN p.time ELSE tick
    <3>1. /\ windows[id] \in Window
          /\ Stored(p) = Insert(windows[id], p.no, Wire(p.time))
      BY <1>1, <1>5, <2>3 DEF Stored, TypeOK, Open
    <3>2. NewestIs(windows[id], latest)'
      <4>1. NewestTime(windows[id], Wire(p.time)) = Wire(latest)
        BY <1>1, <1>2, <2>3, NewestAdvances
      <4> QED
        BY <2>1, <3>1, <4>1 DEF NewestIs, Insert
    <3>3. latest \in First..Last /\ tick <= latest /\ p.time <= latest
      BY <1>1, TimeAssumption
    <3>4. ASSUME NEW q \in Packets, q.id = id, accepts'[q] > 0
          PROVE  Remembered(q, latest)'
      <4> HIDE DEF latest
      <4>1. q.no \in Nat /\ q.time \in Nat
        BY PacketType
      <4>2. CASE q = p
        <5>1. Covered(Stored(p), p.no)
          BY <1>1, <3>1, InsertCovers
        <5> QED
          BY <1>5, <2>1, <3>3, <4>2, <5>1 DEF Remembered, Covered, IsReplay
      <4>3. CASE q # p
        <5>1. accepts[q] > 0
          BY <1>1, <1>3, <3>4, <4>3 DEF TypeOK
        <5>2. \/ now - q.time > MaxPast
              \/ q.time <= tick /\ Covered(windows[id], q.no)
          BY <1>2, <3>4, <5>1 DEF Remembered
        <5>3. CASE now - q.time > MaxPast
          BY <1>3, <5>3 DEF Remembered
        <5>4. CASE q.time <= tick /\ Covered(windows[id], q.no)
          <6>1. Covered(Stored(p), q.no)
            BY <1>1, <3>1, <4>1, <5>4, InsertCovers
          <6>2. q.time <= latest
            BY <3>3, <4>1, <5>4, TimeAssumption
          <6> QED
            BY <2>1, <3>4, <6>1, <6>2 DEF Remembered, Covered, IsReplay
        <5> QED
          BY <5>2, <5>3, <5>4
      <4> QED
        BY <4>2, <4>3
    <3> QED
      BY <3>2, <3>3, <3>4 DEF Remembers
  <2> QED
    BY <2>2, <2>3
<1> QED
  BY <1>4, <1>5

\* Only windows whose every packet is too old are given up.
LEMMA RemoveExpiredRemembers ==
  ASSUME IInv, RemoveExpired, NEW id \in SeqIds
  PROVE  Remembers(id)'
<1>1. now \in First..Last /\ TypeOK
  BY DEF IInv, TypeOK
<1>2. PICK tick \in First..Last :
         /\ id \in Open => NewestIs(windows[id], tick)
         /\ \A q \in Packets : q.id = id /\ accepts[q] > 0 => Remembered(q, tick)
  BY DEF IInv, Remembers
<1>3. PICK S \in SUBSET ExpiredAt(Wire(now)) :
         /\ windows' = [j \in SeqIds |-> IF j \in S THEN NoWindow ELSE windows[j]]
         /\ now' = now /\ accepts' = accepts
  BY DEF RemoveExpired, Removable
<1>4. CASE id \in S
  <2>1. /\ id \in Open /\ TimeDiff(Wire(now), windows[id].newest) > MaxPast
        /\ ~ (id \in Open)'
    BY <1>3, <1>4 DEF ExpiredAt, Open
  <2>2. now - tick > MaxPast
    BY <1>1, <1>2, <2>1, TimeDiffExact DEF NewestIs
  <2>3. ASSUME NEW q \in Packets, q.id = id, accepts'[q] > 0
        PROVE  Remembered(q, tick)'
    <3>1. q.time \in Nat /\ Remembered(q, tick)
      BY <1>2, <1>3, <2>3, PacketType
    <3>2. now - q.time > MaxPast
      BY <1>1, <2>2, <3>1, TimeAssumption DEF Remembered
    <3> QED
      BY <1>3, <3>2 DEF Remembered
  <2> QED
    BY <2>1, <2>3 DEF Remembers
<1>5. CASE id \notin S
  <2>1. windows'[id] = windows[id] /\ (id \in Open)' = (id \in Open)
    BY <1>3, <1>5 DEF Open
  <2>2. ASSUME NEW q \in Packets, q.id = id, accepts'[q] > 0
        PROVE  Remembered(q, tick)'
    <3>1. Remembered(q, tick)
      BY <1>2, <1>3, <2>2
    <3> QED
      BY <1>3, <2>1, <2>2, <3>1 DEF Remembered
  <2>3. (id \in Open)' => NewestIs(windows[id], tick)'
    BY <1>2, <2>1 DEF NewestIs
  <2> QED
    BY <2>2, <2>3 DEF Remembers
<1> QED
  BY <1>4, <1>5

\* The clock only makes remembered packets older.
LEMMA TickRemembers ==
  ASSUME IInv, Tick, NEW id \in SeqIds
  PROVE  Remembers(id)'
<1>1. now \in Nat /\ now' = now + 1 /\ windows' = windows /\ accepts' = accepts
  BY TimeAssumption DEF IInv, TypeOK, Tick
<1>2. PICK tick \in First..Last :
         /\ id \in Open => NewestIs(windows[id], tick)
         /\ \A q \in Packets : q.id = id /\ accepts[q] > 0 => Remembered(q, tick)
  BY DEF IInv, Remembers
<1>3. ASSUME NEW q \in Packets, q.id = id, accepts'[q] > 0
      PROVE  Remembered(q, tick)'
  <2>1. q.time \in Nat /\ Remembered(q, tick)
    BY <1>1, <1>2, <1>3, PacketType
  <2> QED
    BY <1>1, <2>1, TimeAssumption DEF Remembered, Open
<1> QED
  BY <1>1, <1>2, <1>3 DEF Remembers, Open, NewestIs

\* One step keeps the inductive invariant.
LEMMA IInvStep ==
  ASSUME IInv, [Next]_vars
  PROVE  IInv'
<1>1. TypeOK'
  BY TypeStep DEF IInv
<1>2. ASSUME NEW p \in Packets, Receive(p)
      PROVE  IInv'
  <2>1. accepts[p] = 0 /\ accepts' = [accepts EXCEPT ![p] = @ + 1]
    BY <1>2, RememberedBlocks DEF Receive
  <2>2. NoReplay'
    BY <2>1 DEF IInv, NoReplay, TypeOK
  <2> QED
    BY <1>1, <1>2, <2>2, ReceiveRemembers DEF IInv
<1>3. CASE RemoveExpired
  <2>1. NoReplay'
    BY <1>3 DEF IInv, NoReplay, RemoveExpired
  <2> QED
    BY <1>1, <1>3, <2>1, RemoveExpiredRemembers DEF IInv
<1>4. CASE Tick
  <2>1. NoReplay'
    BY <1>4 DEF IInv, NoReplay, Tick
  <2> QED
    BY <1>1, <1>4, <2>1, TickRemembers DEF IInv
<1>5. CASE UNCHANGED vars
  BY <1>5 DEF vars, IInv, TypeOK, NoReplay, Remembers, Remembered, Open, NewestIs
<1> QED
  BY <1>2, <1>3, <1>4, <1>5 DEF Next

\* The strengthened invariant of the filter: besides the types, every packet
\* that passed is remembered by its window or too old to pass again.
THEOREM InductiveInvariant == Spec => []IInv
<1>1. Init => IInv
  BY TimeAssumption DEF Init, IInv, TypeOK, NoReplay, Remembers, Open
<1> QED
  BY <1>1, IInvStep, PTL DEF Spec

\* check_and_insert accepts no stamped packet twice, for every window size,
\* freshness bound, cap, and any duplication, delay or reordering of packets.
THEOREM AtMostOnce == Spec => []NoReplay
<1>1. IInv => NoReplay
  BY DEF IInv
<1> QED
  BY <1>1, InductiveInvariant, PTL

-----------------------------------------------------------------------------
(* No false replay. *)

\* After an insert each set bit still stands for a number inside the window:
\* the new number, or one that was there and was not slid over.
LEMMA InsertBits ==
  ASSUME NEW w \in Window, NEW n \in Nat, NEW time,
         NEW m \in Nat, m <= w.max, w.max - m < WindowBits,
         Index(m) \in KeptBits(w, n)
  PROVE  /\ m <= Insert(w, n, time).max
         /\ Insert(w, n, time).max - m < WindowBits
<1>1. /\ w.max \in Nat /\ WindowBits \in Nat \ {0}
      /\ Insert(w, n, time).max = IF n <= w.max THEN w.max ELSE n
  BY WindowAssumption DEF Insert, Window
<1>2. CASE n <= w.max
  BY <1>1, <1>2
<1>3. CASE ~ (n <= w.max)
  <2>1. n - w.max < WindowBits /\ Index(m) \notin ClearedAfter(w.max, n - w.max)
    BY <1>1, <1>3 DEF KeptBits
  <2>2. ASSUME ~ (n - m < WindowBits)
        PROVE  FALSE
    <3>1. PICK i \in 1..(n - w.max) : w.max + i = m + WindowBits
      <4>1. m + WindowBits - w.max \in 1..(n - w.max)
        BY <1>1, <1>3, <2>2
      <4>2. w.max + (m + WindowBits - w.max) = m + WindowBits
        BY <1>1
      <4> QED
        BY <4>1, <4>2
    <3>2. Index(w.max + i) = Index(m)
      BY <3>1, IndexPeriodic
    <3> QED
      BY <2>1, <3>2 DEF ClearedAfter
  <2> QED
    BY <1>1, <1>3, <2>2
<1> QED
  BY <1>2, <1>3

\* One step sets no bit without an accepted packet that justifies it.
LEMMA BitsJustifiedStep ==
  ASSUME TypeOK, BitsJustified, [Next]_vars
  PROVE  BitsJustified'
<1>1. ASSUME NEW p \in Packets, Receive(p)
      PROVE  BitsJustified'
  <2>1. /\ p.id \in SeqIds /\ p.no \in Nat /\ accepts \in [Packets -> Nat]
        /\ windows' = [windows EXCEPT ![p.id] = Stored(p)]
        /\ accepts' = [accepts EXCEPT ![p] = @ + 1]
        /\ \A q \in Packets : accepts[q] > 0 => accepts'[q] > 0
        /\ accepts'[p] > 0
    BY <1>1, PacketType DEF Receive, TypeOK
  <2>2. SUFFICES ASSUME NEW id \in SeqIds, (id \in Open)', NEW b \in windows'[id].bits
                 PROVE  \E q \in Packets :
                          /\ q.id = id /\ accepts'[q] > 0 /\ Index(q.no) = b
                          /\ q.no <= windows'[id].max
                          /\ windows'[id].max - q.no < WindowBits
    BY DEF BitsJustified, Open
  <2>3. CASE id # p.id
    <3>1. windows'[id] = windows[id] /\ id \in Open
      BY <2>1, <2>2, <2>3 DEF Open, TypeOK
    <3>2. PICK q \in Packets :
             /\ q.id = id /\ accepts[q] > 0 /\ Index(q.no) = b
             /\ q.no <= windows[id].max /\ windows[id].max - q.no < WindowBits
      BY <2>2, <3>1 DEF BitsJustified
    <3> QED
      BY <2>1, <3>1, <3>2
  <2>4. CASE id = p.id /\ id \notin Open
    <3>1. windows'[id] = NewWindow(p.no, Wire(p.time))
      BY <2>1, <2>4 DEF Stored, TypeOK
    <3>2. b = Index(p.no) /\ windows'[id].max = p.no
      BY <2>2, <3>1 DEF NewWindow
    <3> QED
      BY <2>1, <2>4, <3>2, WindowAssumption
  <2>5. CASE id = p.id /\ id \in Open
    <3> DEFINE w == windows[id]
               v == Insert(w, p.no, Wire(p.time))
    <3>1. windows'[id] = v /\ w \in Window
      BY <2>1, <2>5 DEF Stored, TypeOK, Open
    <3>2. v.bits = KeptBits(w, p.no) \cup {Index(p.no)}
      BY DEF Insert
    <3>3. CASE b = Index(p.no)
      <4>1. p.no <= v.max
        BY <2>1, <3>1 DEF Insert, Window
      <4>2. CASE v.max - p.no < WindowBits
        BY <2>1, <2>5, <3>1, <3>3, <4>1, <4>2
      <4>3. CASE ~ (v.max - p.no < WindowBits)
        <5>1. p.no <= w.max /\ w.max - p.no >= WindowBits
          BY <2>1, <3>1, <4>3, WindowAssumption DEF Insert, Window
        <5>2. Verdict(p) # "ok"
          BY <2>5, <5>1 DEF Verdict, IsReplay
        <5> QED
          BY <1>1, <5>2 DEF Receive
      <4> QED
        BY <4>2, <4>3
    <3>4. CASE b \in KeptBits(w, p.no)
      <4>1. b \in w.bits
        BY <3>4 DEF KeptBits
      <4>2. PICK q \in Packets :
               /\ q.id = id /\ accepts[q] > 0 /\ Index(q.no) = b
               /\ q.no <= w.max /\ w.max - q.no < WindowBits
        BY <2>5, <4>1 DEF BitsJustified
      <4>3. q.no \in Nat
        BY PacketType
      <4>4. q.no <= v.max /\ v.max - q.no < WindowBits
        BY <2>1, <3>1, <3>4, <4>2, <4>3, InsertBits
      <4> QED
        BY <2>1, <3>1, <4>2, <4>4
    <3> QED
      BY <2>2, <3>1, <3>2, <3>3, <3>4
  <2> QED
    BY <2>3, <2>4, <2>5
<1>2. CASE RemoveExpired
  BY <1>2 DEF RemoveExpired, BitsJustified, Open, TypeOK
<1>3. CASE Tick \/ UNCHANGED vars
  BY <1>3 DEF Tick, vars, BitsJustified, Open
<1> QED
  BY <1>1, <1>2, <1>3 DEF Next

\* A set bit always stands for an accepted packet inside the window, so the
\* filter never drops a new packet of the window as a replay (clear_after).
THEOREM NoFalseReplay == Spec => []BitsJustified
<1>1. Init => BitsJustified
  BY DEF Init, BitsJustified, Open
<1>2. TypeOK /\ BitsJustified /\ [Next]_vars => BitsJustified'
  BY BitsJustifiedStep
<1> QED
  BY <1>1, <1>2, TypeCorrect, PTL DEF Spec

-----------------------------------------------------------------------------
(* The deadline of remove_expired. *)

\* A set of numbers has a least one.
LEMMA LeastNumber ==
  ASSUME NEW S \in SUBSET Nat, S # {}
  PROVE  \E n \in S : \A m \in S : n <= m
<1> DEFINE R == OpToRel(<, Nat)
<1>1. IsWellFoundedOn(R, Nat)
  BY NatLessThanWellFounded
<1>2. \A m, n \in Nat : <<m, n>> \in R <=> m < n
  BY DEF OpToRel
<1> HIDE DEF R
<1>3. PICK n \in S : \A m \in S : ~ (<<m, n>> \in R)
  BY <1>1, WFMin
<1>4. \A m \in S : m \in Nat /\ n \in Nat
  OBVIOUS
<1>5. \A m \in S : ~ (m < n)
  BY <1>2, <1>3, <1>4
<1> QED
  BY <1>4, <1>5

\* remove_expired removes something when the map is over its cap and a window
\* has expired.
LEMMA RemovesSomething ==
  ASSUME NEW current
  PROVE  /\ RemoveCount(current) \in Nat
         /\ RemoveCount(current) > 0 <=> Cardinality(Open) > SoftCap /\ ExpiredAt(current) # {}
<1>1. IsFiniteSet(Open) /\ IsFiniteSet(ExpiredAt(current))
  <2>1. Open \subseteq SeqIds /\ ExpiredAt(current) \subseteq SeqIds
    BY DEF Open, ExpiredAt
  <2> QED
    BY <2>1, FiniteAssumption, FS_Subset
<1>2. Cardinality(Open) \in Nat /\ Cardinality(ExpiredAt(current)) \in Nat
  BY <1>1, FS_CardinalityType
<1>3. Cardinality(ExpiredAt(current)) = 0 <=> ExpiredAt(current) = {}
  BY <1>1, FS_EmptySet
<1> DEFINE o == Cardinality(Open)
           x == Cardinality(ExpiredAt(current))
<1>4. RemoveCount(current) = IF o <= SoftCap THEN 0 ELSE IF x <= o - SoftCap THEN x ELSE o - SoftCap
  BY DEF RemoveCount, MinOf
<1>5. o \in Nat /\ x \in Nat /\ SoftCap \in Nat
  BY <1>2, TimeAssumption
<1>6. o > SoftCap => (x > 0 <=> RemoveCount(current) > 0)
  <2> HIDE DEF o, x
  <2> QED
    BY <1>4, <1>5
<1>7. x > 0 <=> ExpiredAt(current) # {}
  <2> HIDE DEF o
  <2> QED
    BY <1>3, <1>5
<1>8. RemoveCount(current) \in Nat /\ (o <= SoftCap => RemoveCount(current) = 0)
  <2> HIDE DEF o, x
  <2> QED
    BY <1>4, <1>5
<1>9. (o > SoftCap) <=> ~ (o <= SoftCap)
  <2> HIDE DEF o
  <2> QED
    BY <1>5
<1> HIDE DEF x
<1> QED
  BY <1>6, <1>7, <1>8, <1>9

\* A window has expired at a tick if its newest stamp is more than MaxPast old.
LEMMA ExpiredExactly ==
  ASSUME NEW t \in First..Last, NEW id \in Open, NEW tick \in First..Last, NewestIs(windows[id], tick)
  PROVE  id \in ExpiredAt(Wire(t)) <=> t - tick > MaxPast
<1>1. TimeDiff(Wire(t), windows[id].newest) = t - tick
  BY TimeDiffExact DEF NewestIs
<1> QED
  BY <1>1 DEF ExpiredAt

\* next_expiry_delay_ms is exact for every set of windows whose newest stamps are
\* of ticks within the clocks' range.
LEMMA DeadlineExact ==
  ASSUME now \in First..Last, \A id \in SeqIds : Remembers(id)
  PROVE  ExpiryDeadlineExact
<1> USE TimeAssumption
<1> DEFINE delay == NextExpiryDelay(Wire(now))
           Over == Cardinality(Open) > SoftCap
<1>1. PICK tick \in [Open -> First..Last] : \A id \in Open : NewestIs(windows[id], tick[id])
  <2>1. \A id \in Open : \E u \in First..Last : NewestIs(windows[id], u)
    BY DEF Remembers, Open
  <2> DEFINE f == [id \in Open |-> CHOOSE u \in First..Last : NewestIs(windows[id], u)]
  <2>2. \A id \in Open : f[id] \in First..Last /\ NewestIs(windows[id], f[id])
    BY <2>1
  <2>3. f \in [Open -> First..Last]
    BY <2>2
  <2> HIDE DEF f
  <2> QED
    BY <2>2, <2>3
<1>2. ASSUME NEW id \in Open PROVE tick[id] \in Nat /\ tick[id] \in First..Last
  BY <1>1
<1> DEFINE left(id) == MaxPast + 1 - (now - tick[id])
           d(id) == IF left(id) < 0 THEN 0 ELSE left(id)
<1>3. ExpiryDelays(Wire(now)) = {d(id) : id \in Open}
  <2>1. \A id \in Open : TimeDiff(Wire(now), windows[id].newest) = now - tick[id]
    BY <1>1, <1>2, TimeDiffExact DEF NewestIs
  <2> QED
    BY <2>1 DEF ExpiryDelays
<1>4. ASSUME NEW t \in First..Last PROVE ExpiredAt(Wire(t)) # {} <=> \E id \in Open : t - tick[id] > MaxPast
  <2>1. \A id \in Open : id \in ExpiredAt(Wire(t)) <=> t - tick[id] > MaxPast
    BY <1>1, <1>2, ExpiredExactly
  <2>2. ExpiredAt(Wire(t)) \subseteq Open
    BY DEF ExpiredAt
  <2> QED
    BY <2>1, <2>2
<1>5. CASE ~ Over
  <2>1. Cardinality(Open) \in Nat
    <3>1. IsFiniteSet(Open)
      BY FiniteAssumption, FS_Subset DEF Open
    <3> QED
      BY <3>1, FS_CardinalityType
  <2>2. delay = -1
    BY <1>5, <2>1 DEF NextExpiryDelay
  <2>3. ~ (RemoveCount(Wire(now)) > 0)
    BY <1>5, RemovesSomething
  <2> QED
    BY <2>2, <2>3 DEF ExpiryDeadlineExact
<1>6. CASE Over
  <2>0. Open # {} /\ ~ (Cardinality(Open) <= SoftCap)
    <3>1. IsFiniteSet(Open)
      BY FiniteAssumption, FS_Subset DEF Open
    <3>2. Cardinality(Open) \in Nat /\ (Cardinality(Open) = 0 <=> Open = {})
      BY <3>1, FS_CardinalityType, FS_EmptySet
    <3> QED
      BY <1>6, <3>2
  <2> DEFINE D == {d(id) : id \in Open}
  <2>1. \A id \in Open : left(id) \in Int /\ d(id) \in Nat
    BY <1>2
  <2>2. D \in SUBSET Nat /\ D # {}
    BY <2>0, <2>1
  <2>3. delay = CHOOSE x \in D : \A e \in D : x <= e
    BY <1>3, <2>0 DEF NextExpiryDelay
  <2>4. delay \in D /\ \A e \in D : delay <= e
    <3> HIDE DEF D, delay
    <3>1. \E x \in D : \A e \in D : x <= e
      BY <2>2, LeastNumber
    <3> QED
      BY <2>3, <3>1, Zenon
  <2>5. PICK least \in Open : delay = d(least)
    BY <2>4
  <2>6. delay \in Nat /\ \A id \in Open : delay <= d(id)
    BY <2>2, <2>4
  <2> HIDE DEF delay, D
  <2>7. delay = 0 <=> \E id \in Open : now - tick[id] > MaxPast
    <3>1. \A id \in Open : d(id) = 0 <=> now - tick[id] > MaxPast
      BY <1>2
    <3> HIDE DEF d
    <3>2. ASSUME delay = 0 PROVE \E id \in Open : now - tick[id] > MaxPast
      BY <2>5, <3>1, <3>2
    <3>3. ASSUME NEW id \in Open, now - tick[id] > MaxPast PROVE delay = 0
      BY <2>6, <3>1, <3>3
    <3> QED
      BY <3>2, <3>3
  <2>8. delay = 0 <=> RemoveCount(Wire(now)) > 0
    BY <1>4, <1>6, <2>7, RemovesSomething
  <2>9. ASSUME delay > 0, now + delay <= Last
        PROVE  RemoveCount(Wire(now + delay)) > 0 /\ RemoveCount(Wire(now + delay - 1)) = 0
    <3>1. now + delay \in First..Last /\ now + delay - 1 \in First..Last
      BY <2>6, <2>9
    <3>2. now + delay - tick[least] > MaxPast
      BY <1>2, <2>5, <2>9
    <3>3. \A id \in Open : ~ (now + delay - 1 - tick[id] > MaxPast)
      <4> SUFFICES ASSUME NEW id \in Open PROVE now + delay - 1 - tick[id] <= MaxPast
        BY <1>2, <2>6
      <4>1. delay <= d(id)
        BY <2>6
      <4> QED
        BY <1>2, <2>6, <2>9, <4>1
    <3> DEFINE t == now + delay
               u == now + delay - 1
    <3>8. t \in First..Last /\ u \in First..Last
      BY <3>1
    <3>9. t - tick[least] > MaxPast
      BY <1>2, <2>6, <3>2
    <3>4. \A id \in Open : ~ (u - tick[id] > MaxPast)
      <4> SUFFICES ASSUME NEW id \in Open PROVE ~ (u - tick[id] > MaxPast)
        OBVIOUS
      <4> QED
        BY <1>2, <2>6, <3>3
    <3> HIDE DEF t, u
    <3>5. ExpiredAt(Wire(t)) # {} /\ ExpiredAt(Wire(u)) = {}
      BY <1>4, <3>4, <3>8, <3>9
    <3>6. RemoveCount(Wire(t)) > 0 /\ ~ (RemoveCount(Wire(u)) > 0) /\ RemoveCount(Wire(u)) \in Nat
      BY <1>6, <3>5, RemovesSomething
    <3>7. RemoveCount(Wire(u)) = 0
      BY <3>6
    <3> QED
      BY <3>6, <3>7 DEF t, u
  <2> QED
    BY <2>8, <2>9 DEF ExpiryDeadlineExact, delay
<1> QED
  BY <1>5, <1>6

\* The delay next_expiry_delay_ms announces leads to the first tick at which
\* remove_expired removes something, for every cap and freshness bound.
THEOREM ExpiryIsOnTime == Spec => []ExpiryDeadlineExact
<1>1. IInv => ExpiryDeadlineExact
  BY DeadlineExact DEF IInv, TypeOK
<1> QED
  BY <1>1, InductiveInvariant, PTL
=============================================================================
