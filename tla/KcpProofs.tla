------------------------------ MODULE KcpProofs ------------------------------
(***************************************************************************)
(* Theorems about Kcp, for every window, message size and first serial     *)
(* number: the detailed ARQ implements the abstract stream.  They are      *)
(* about streams of less than half a turn of serial numbers (HalfTurn),    *)
(* since a packet may be delayed for as long as the network likes.         *)
(***************************************************************************)
EXTENDS Kcp, FiniteSetTheorems, WellFoundedInduction, TLAPS

\* No copy of a segment is so old that its number is in use again: with
\* SnMod = 2^32 this allows two thousand million segments in a session.
HalfTurn == 2 * (MaxSegments + RcvWnd) <= SnMod

\* What rmt_wnd may be: the sender's own receive_window until the other end is
\* heard of, then what that end told last.
Wnds == (0..OwnWnd) \cup (0..RcvWnd)

\* What the proofs use of KcpAssumption.
LEMMA Constants ==
  /\ SnMod \in Nat \ {0} /\ SndWnd \in Nat \ {0} /\ OwnWnd \in Nat \ {0}
  /\ RcvWnd \in Nat \ {0}
  /\ MaxSegments \in Nat \ {0} /\ FirstSn \in 0..(SnMod - 1)
  /\ Fragments \subseteq Nat \ {0} /\ 2 * SndWnd < SnMod /\ 2 * RcvWnd < SnMod
BY KcpAssumption

-----------------------------------------------------------------------------
(* Serial numbers. *)

\* Quotient and remainder.
LEMMA DivMod ==
  ASSUME NEW M \in Nat \ {0}, NEW a \in Nat
  PROVE  /\ a % M \in 0..(M - 1) /\ a \div M \in Nat
         /\ a = (M * (a \div M)) + (a % M)
OBVIOUS

\* The remainder is unique.
LEMMA RemainderUnique ==
  ASSUME NEW M \in Nat \ {0}, NEW p \in Int, NEW q \in Int,
         NEW r \in 0..(M - 1), NEW t \in 0..(M - 1),
         (M * p) + t = (M * q) + r
  PROVE  t = r
<1>1. PICK d \in Int : d = p - q
  OBVIOUS
<1>2. M * p = (M * q) + (M * d)
  BY <1>1
<1>3. (M * d) + t = r
  BY <1>2
<1>4. M * d < M /\ M * d > 0 - M
  BY <1>3
<1>5. d < 1 /\ d > -1
  BY <1>4
<1>6. d = 0
  BY <1>5
<1> QED
  BY <1>3, <1>6

\* Remainders of numbers within one turn of M.
LEMMA ModNear ==
  ASSUME NEW M \in Nat \ {0}, NEW x \in Int
  PROVE  /\ x \in 0..(M - 1) => x % M = x
         /\ x \in (0 - M)..(-1) => x % M = x + M
OBVIOUS

\* A number added to a remainder.
LEMMA ModAdd ==
  ASSUME NEW M \in Nat \ {0}, NEW x \in Nat, NEW k \in Nat
  PROVE  ((x % M) + k) % M = (x + k) % M
<1> DEFINE q == x \div M
           r == x % M
           p == (r + k) \div M
           t == (r + k) % M
           p2 == (x + k) \div M
           t2 == (x + k) % M
<1>1. r \in 0..(M - 1) /\ q \in Nat /\ x = (M * q) + r
  BY DivMod
<1>2. r + k \in Nat /\ x + k \in Nat
  BY <1>1
<1>3. /\ t \in 0..(M - 1) /\ p \in Nat /\ r + k = (M * p) + t
      /\ t2 \in 0..(M - 1) /\ p2 \in Nat /\ x + k = (M * p2) + t2
  BY <1>2, DivMod
<1> HIDE DEF q, r, p, t, p2, t2
<1>4. M * (q + p) = (M * q) + (M * p)
  BY <1>1, <1>3
<1>5. (M * p2) + t2 = (M * (q + p)) + t
  BY <1>1, <1>3, <1>4
<1>6. t2 = t
  <2> DEFINE s == q + p
  <2>1. s \in Int /\ p2 \in Int /\ (M * p2) + t2 = (M * s) + t
    BY <1>1, <1>3, <1>5
  <2> HIDE DEF s
  <2> QED
    BY ONLY M \in Nat \ {0}, <1>3, <2>1, RemainderUnique, Zenon
<1> QED
  BY <1>6 DEF t, t2, r

\* Numbers less than M apart have quotients at most one apart.
LEMMA NearRemainders ==
  ASSUME NEW M \in Nat \ {0}, NEW a \in Nat, NEW b \in Nat, a <= b, b - a < M
  PROVE  \/ (b % M) - (a % M) = b - a
         \/ (b % M) - (a % M) = b - a - M
<1> DEFINE k == b - a
           r == a % M
<1>1. k \in 0..(M - 1) /\ r \in 0..(M - 1) /\ a + k = b
  BY DivMod
<1>2. (r + k) % M = b % M
  <2>1. k \in Nat
    BY <1>1
  <2>2. ((a % M) + k) % M = (a + k) % M
    <3> HIDE DEF k
    <3> QED
      BY <2>1, ModAdd
  <2> QED
    BY <1>1, <2>2
<1>3. k = b - a /\ a % M = r
  OBVIOUS
<1> HIDE DEF k, r
<1>4. CASE r + k < M
  <2>1. (r + k) % M = r + k
    BY <1>1, <1>4, ModNear
  <2> QED
    BY <1>1, <1>2, <1>3, <2>1
<1>5. CASE ~ (r + k < M)
  <2>1. PICK x \in Nat : x = r + k
    BY <1>1
  <2> DEFINE e == x - M
             q == x \div M
             t == x % M
  <2>2. e \in 0..(M - 1) /\ x = (M * 1) + e
    BY <1>1, <1>5, <2>1
  <2>3. t \in 0..(M - 1) /\ q \in Int /\ x = (M * q) + t
    BY DivMod
  <2>4. b % M = t
    BY <1>2, <2>1
  <2>5. t = e
    <3> HIDE DEF e, q, t
    <3>1. (M * q) + t = (M * 1) + e /\ 1 \in Int
      BY <2>2, <2>3
    <3> QED
      BY ONLY M \in Nat \ {0}, <2>2, <2>3, <3>1, RemainderUnique, Zenon
  <2> QED
    BY <1>1, <1>3, <2>1, <2>4, <2>5
<1> QED
  BY <1>4, <1>5

\* The serial number of the d-th segment of the stream.
Sn(d) == Add(FirstSn, d - 1)

\* It is a serial number.
LEMMA SnType ==
  ASSUME NEW d \in Nat \ {0}
  PROVE  Sn(d) \in 0..(SnMod - 1)
<1>1. FirstSn + (d - 1) \in Nat
  BY Constants
<1> QED
  BY <1>1, Constants, DivMod DEF Sn, Add

\* Adding to a serial number counts segments.
LEMMA SnAdd ==
  ASSUME NEW d \in Nat \ {0}, NEW k \in Nat
  PROVE  Add(Sn(d), k) = Sn(d + k)
<1> DEFINE x == FirstSn + (d - 1)
<1>1. x \in Nat /\ SnMod \in Nat \ {0} /\ FirstSn + ((d + k) - 1) = x + k
  BY Constants
<1>2. ((x % SnMod) + k) % SnMod = (x + k) % SnMod
  BY <1>1, ModAdd
<1> QED
  BY <1>1, <1>2 DEF Sn, Add

\* timediff is the distance of the places within half a turn.
LEMMA SnDiff ==
  ASSUME NEW a \in Nat \ {0}, NEW b \in Nat \ {0},
         2 * (a - b) < SnMod, 2 * (b - a) <= SnMod
  PROVE  TimeDiff(Sn(a), Sn(b)) = a - b
<1> DEFINE M == SnMod
           x == FirstSn + (a - 1)
           y == FirstSn + (b - 1)
           c == (x % M) - (y % M)
           d == a - b
<1>1. M \in Nat \ {0} /\ x \in Nat /\ y \in Nat /\ x - y = d /\ d \in Int
  BY Constants
<1>2. x % M \in 0..(M - 1) /\ y % M \in 0..(M - 1)
  BY <1>1, DivMod
<1>3. c = d \/ c = d - M \/ c = d + M
  <2>1. CASE y <= x
    <3>1. x - y < M
      BY <1>1, <2>1
    <3>2. (x % M) - (y % M) = x - y \/ (x % M) - (y % M) = x - y - M
      BY <1>1, <2>1, <3>1, NearRemainders
    <3> QED
      BY <1>1, <1>2, <3>2
  <2>2. CASE ~ (y <= x)
    <3>1. x <= y /\ y - x < M
      BY <1>1, <2>2
    <3>2. (y % M) - (x % M) = y - x \/ (y % M) - (x % M) = y - x - M
      BY <1>1, <3>1, NearRemainders
    <3> QED
      BY <1>1, <1>2, <3>2
  <2> QED
    BY <2>1, <2>2
<1>4. TimeDiff(Sn(a), Sn(b)) = IF 2 * (c % M) >= M THEN (c % M) - M ELSE c % M
  BY DEF TimeDiff, Sn, Add
<1>5. c \in (0 - M)..(M - 1) /\ c \in Int /\ 2 * d < M /\ -2 * d <= M
  BY <1>1, <1>2
<1> HIDE DEF M, x, y, c, d
<1>6. /\ c \in 0..(M - 1) => c % M = c
      /\ c \in (0 - M)..(-1) => c % M = c + M
  BY <1>1, <1>5, ModNear
<1>7. CASE c >= 0
  <2>1. c % M = c
    BY <1>5, <1>6, <1>7, <1>1
  <2> QED
    BY <1>1, <1>3, <1>4, <1>5, <1>7, <2>1 DEF d
<1>8. CASE c < 0
  <2>1. c % M = c + M
    BY <1>5, <1>6, <1>8, <1>1
  <2> QED
    BY <1>1, <1>3, <1>4, <1>5, <1>8, <2>1 DEF d
<1> QED
  BY <1>5, <1>7, <1>8

\* No two places less than a half turn apart share a number.
LEMMA SnUnique ==
  ASSUME NEW a \in Nat \ {0}, NEW b \in Nat \ {0},
         2 * (a - b) < SnMod, 2 * (b - a) < SnMod, Sn(a) = Sn(b)
  PROVE  a = b
<1>1. TimeDiff(Sn(a), Sn(b)) = a - b
  BY SnDiff, Constants
<1>2. TimeDiff(Sn(b), Sn(b)) = b - b
  BY SnDiff, Constants
<1> QED
  BY <1>1, <1>2

-----------------------------------------------------------------------------
(* The inductive invariant. *)

SegRec == [sn : 0..(SnMod - 1), frg : Nat, data : Nat]

\* The d-th segment of the stream w.
SegOf(w, d) == Segment(Sn(d), w[d], d)

\* Every segment is followed by the rest of its message.
Whole(w) ==
  /\ w \in Seq(Nat) /\ Len(w) <= MaxSegments
  /\ \A i \in 1..Len(w) : i + w[i] <= Len(w) /\ w[i + w[i]] = 0

\* The place of the oldest outstanding segment, of which n are numbered.
First(buf, n) == IF buf = <<>> THEN n + 1 ELSE buf[1].data

\* The sender holds numbered segments of the stream w in their order, and its
\* queue is what follows the n it has numbered.
SenderOK(w, n, queue, buf, una, nxt) ==
  /\ queue \in Seq(Nat) /\ n \in Nat /\ n + Len(queue) = Len(w)
  /\ \A i \in 1..Len(queue) : queue[i] = w[n + i]
  /\ buf \in Seq(SegRec)
  /\ \A i \in 1..Len(buf) : buf[i].data \in 1..n /\ buf[i] = SegOf(w, buf[i].data)
  /\ \A i, j \in 1..Len(buf) : i < j => buf[i].data < buf[j].data
  /\ nxt = Sn(n + 1) /\ una = Sn(First(buf, n))
  /\ n + 1 - First(buf, n) <= SndWnd /\ Len(buf) + Len(queue) <= SndWnd

RcvRec == [buf : SUBSET SegRec, queue : Seq(SegRec), nxt : 0..(SnMod - 1),
           tell : BOOLEAN, out : Seq(SegRec)]

\* How far a receiver that had read r segments has come without a gap.
Pos(st, r) == r + Len(st.out) + Len(st.queue)

\* It has the d-th segment.
Holds(st, r, d) == d <= Pos(st, r) \/ \E s \in st.buf : s.data = d

\* What is read and queued continues the r segments read before, and the buffer
\* holds later segments of the n numbered ones within the window.
ReceiverOK(st, w, n, r) ==
  /\ st \in RcvRec /\ Len(st.queue) <= RcvWnd
  /\ \A i \in 1..Len(st.out) : st.out[i] = SegOf(w, r + i)
  /\ \A i \in 1..Len(st.queue) : st.queue[i] = SegOf(w, r + Len(st.out) + i)
  /\ st.nxt = Sn(Pos(st, r) + 1) /\ Pos(st, r) <= n
  /\ \A s \in st.buf :
       s.data \in (Pos(st, r) + 1)..n /\ s.data <= Pos(st, r) + RcvWnd /\ s = SegOf(w, s.data)
  /\ Len(st.out) > 0 => w[r + Len(st.out)] = 0

\* What was read is the beginning of the stream, in whole messages.
ReadOK(w, rd) ==
  /\ rd \in Seq(SegRec)
  /\ \A i \in 1..Len(rd) : rd[i] = SegOf(w, i)
  /\ Len(rd) > 0 => w[Len(rd)] = 0

\* A packet is a copy of a numbered segment, a probe, or tells what the
\* receiver had at the time.
PacketOK(p, w, n, st, r) ==
  \/ \E d \in 1..n : p = Push(SegOf(w, d))
  \/ p = Wask
  \/ \E d \in 1..n, a \in 1..(Pos(st, r) + 1), wnd \in 0..RcvWnd :
       p = Ack(Sn(d), Sn(a), wnd) /\ Holds(st, r, d)
  \/ \E a \in 1..(Pos(st, r) + 1), wnd \in 0..RcvWnd : p = Wins(Sn(a), wnd)

\* What is numbered is outstanding or with the receiver.
KeptOK(n, buf, st, r) ==
  \A d \in 1..n : (\E i \in 1..Len(buf) : buf[i].data = d) \/ Holds(st, r, d)

Numbered == Len(written) - Len(sndQueue)

\* The inductive invariant.
IInv ==
  /\ Whole(written) /\ ReadOK(written, read)
  /\ SenderOK(written, Numbered, sndQueue, sndBuf, sndUna, sndNxt)
  /\ rmtWnd \in Wnds /\ probing \in BOOLEAN
  /\ ReceiverOK(Receiver, written, Numbered, Len(read))
  /\ \A p \in net : PacketOK(p, written, Numbered, Receiver, Len(read))
  /\ KeptOK(Numbered, sndBuf, Receiver, Len(read))

-----------------------------------------------------------------------------
(* The sender. *)

\* A sequence without length.
LEMMA NoElement ==
  ASSUME NEW S, NEW s \in Seq(S)
  PROVE  Len(s) = 0 <=> s = <<>>
OBVIOUS

\* What follows the first k elements.
LEMMA Following ==
  ASSUME NEW S, NEW s \in Seq(S), NEW k \in Nat, k <= Len(s),
         NEW x, x = SubSeq(s, k + 1, Len(s))
  PROVE  /\ x \in Seq(S) /\ Len(x) = Len(s) - k
         /\ \A i \in 1..(Len(s) - k) : x[i] = s[k + i]
OBVIOUS

\* The first k elements.
LEMMA Leading ==
  ASSUME NEW S, NEW s \in Seq(S), NEW k \in Nat, k <= Len(s), NEW x, x = SubSeq(s, 1, k)
  PROVE  /\ x \in Seq(S) /\ Len(x) = k
         /\ \A i \in 1..k : x[i] = s[i]
OBVIOUS

\* One sequence after another.
LEMMA Joined ==
  ASSUME NEW S, NEW s \in Seq(S), NEW t \in Seq(S), NEW x, x = s \o t
  PROVE  /\ x \in Seq(S) /\ Len(x) = Len(s) + Len(t)
         /\ \A i \in 1..Len(s) : x[i] = s[i]
         /\ \A i \in 1..Len(t) : x[Len(s) + i] = t[i]
OBVIOUS

\* A set of numbers has a least one.
LEMMA LeastNumber ==
  ASSUME NEW S \in SUBSET Nat, S # {}
  PROVE  \E n \in S : \A m \in S : n <= m
<1> DEFINE R == OpToRel(<, Nat)
<1>1. IsWellFoundedOn(R, Nat)
  BY NatLessThanWellFounded
<1>2. \A m, n \in Nat : <<m, n>> \in R <=> m < n
  BY DEF OpToRel
<1> HIDE DEF R
<1>3. PICK n \in S : \A m \in S : ~ (<<m, n>> \in R)
  BY <1>1, WFMin
<1>4. \A m \in S : m \in Nat /\ n \in Nat
  OBVIOUS
<1>5. \A m \in S : ~ (m < n)
  BY <1>2, <1>3, <1>4
<1> QED
  BY <1>4, <1>5

\* The first index at which a search stops.
LEMMA Stops ==
  ASSUME NEW n \in Nat, NEW S \in SUBSET (0..n), n \in S
  PROVE  \E k \in S : \A j \in 0..(k - 1) : j \notin S
<1>1. S \in SUBSET Nat /\ S # {}
  OBVIOUS
<1>2. PICK k \in S : \A m \in S : k <= m
  BY <1>1, LeastNumber
<1> QED
  BY <1>1, <1>2

\* The smaller of two.
LEMMA MinOfTwo ==
  ASSUME NEW a \in Int, NEW b \in Int
  PROVE  Min({a, b}) = IF a <= b THEN a ELSE b
<1>1. CASE a <= b
  <2>1. \A x \in {a, b} : (\A y \in {a, b} : x =< y) <=> x = a
    BY <1>1
  <2> QED
    BY <1>1, <2>1 DEF Min
<1>2. CASE ~ (a <= b)
  <2>1. \A x \in {a, b} : (\A y \in {a, b} : x =< y) <=> x = b
    BY <1>2
  <2> QED
    BY <1>2, <2>1 DEF Min
<1> QED
  BY <1>1, <1>2

\* flush numbers segments as far as both windows allow.
LEMMA SendableFits ==
  ASSUME HalfTurn, NEW n \in Nat, NEW u \in 1..(n + 1), NEW q \in Nat,
         n + q <= MaxSegments, NEW wnd \in Wnds,
         NEW k, k = Sendable(Sn(n + 1), Sn(u), wnd, q)
  PROVE  k \in 0..q /\ (k > 0 => n + k < u + SndWnd)
<1> USE Constants
<1> DEFINE c == Min({SndWnd, wnd})
           D(j) == TimeDiff(Add(Sn(n + 1), j), Add(Sn(u), c))
           S == {j \in 0..q : j = q \/ D(j) >= 0}
<1>1. c \in Nat /\ c <= SndWnd
  <2>1. wnd \in Nat
    BY DEF Wnds
  <2> QED
    BY <2>1, MinOfTwo
<1> HIDE DEF c
<1>2. ASSUME NEW j \in 0..q, j < q PROVE D(j) = (n + 1 + j) - (u + c)
  <2> DEFINE a == n + 1 + j
             b == u + c
  <2>1. a \in Nat \ {0} /\ b \in Nat \ {0} /\ 2 * (a - b) < SnMod /\ 2 * (b - a) <= SnMod
    BY <1>1, <1>2 DEF HalfTurn
  <2>2. Add(Sn(n + 1), j) = Sn(a) /\ Add(Sn(u), c) = Sn(b)
    <3>1. n + 1 \in Nat \ {0} /\ u \in Nat \ {0} /\ j \in Nat
      OBVIOUS
    <3>2. Add(Sn(n + 1), j) = Sn((n + 1) + j)
      BY <3>1, SnAdd
    <3> QED
      BY <1>1, <3>1, <3>2, SnAdd
  <2> HIDE DEF a, b
  <2>3. TimeDiff(Sn(a), Sn(b)) = a - b
    BY <2>1, SnDiff
  <2> QED
    BY <2>2, <2>3 DEF a, b
<1> DEFINE P(i) == (i = q \/ D(i) >= 0) /\ \A j \in 0..(i - 1) : D(j) < 0
<1>3. \E i \in 0..q : P(i)
  <2>1. PICK i \in S : \A j \in 0..(i - 1) : j \notin S
    <3>1. S \in SUBSET (0..q) /\ q \in S
      OBVIOUS
    <3> HIDE DEF S
    <3> QED
      BY <3>1, Stops
  <2>2. ASSUME NEW j \in 0..(i - 1) PROVE D(j) < 0
    <3>1. j \in 0..q /\ j < q /\ j \notin S
      BY <2>1
    <3>2. D(j) \in Int /\ ~ (D(j) >= 0)
      BY <1>1, <1>2, <3>1
    <3> HIDE DEF D
    <3> QED
      BY <3>2
  <2> QED
    BY <2>1, <2>2
<1>4. k = CHOOSE i \in 0..q : P(i)
  BY DEF Sendable, c
<1>5. k \in 0..q /\ P(k)
  <2> HIDE DEF P
  <2> QED
    BY <1>3, <1>4
<1>6. ASSUME k > 0 PROVE n + k < u + SndWnd
  <2>1. k - 1 \in 0..q /\ k - 1 < q /\ k - 1 \in 0..(k - 1)
    BY <1>5, <1>6
  <2>2. D(k - 1) < 0
    BY <1>5, <2>1
  <2>3. D(k - 1) = (n + 1 + (k - 1)) - (u + c)
    BY <1>2, <2>1
  <2> HIDE DEF D
  <2> QED
    BY <1>1, <1>5, <2>2, <2>3
<1> QED
  BY <1>5, <1>6

\* The place of the oldest outstanding segment.
LEMMA FirstPlace ==
  ASSUME NEW w, NEW n, NEW queue, NEW buf, NEW una, NEW nxt, SenderOK(w, n, queue, buf, una, nxt)
  PROVE  First(buf, n) \in 1..(n + 1) /\ n \in Nat
<1>1. CASE buf = <<>>
  BY <1>1 DEF SenderOK, First
<1>2. CASE buf # <<>>
  <2>1. 1 \in 1..Len(buf)
    BY <1>2 DEF SenderOK
  <2> QED
    BY <1>2, <2>1 DEF SenderOK, First
<1> QED
  BY <1>1, <1>2

\* A segment of the stream.
LEMMA SegType ==
  ASSUME NEW w, Whole(w), NEW d \in 1..Len(w)
  PROVE  /\ SegOf(w, d) \in SegRec /\ SegOf(w, d).data = d /\ SegOf(w, d).sn = Sn(d)
         /\ SegOf(w, d).frg = w[d]
<1>1. d \in Nat \ {0} /\ w[d] \in Nat
  BY DEF Whole
<1>2. Sn(d) \in 0..(SnMod - 1)
  BY <1>1, SnType
<1> QED
  BY <1>1, <1>2 DEF SegOf, Segment, SegRec

\* flush moves the first k segments of the queue into the buffer.
Grows(w, queue, buf, nxt, k, new, full, left) ==
  /\ new = [i \in 1..k |-> Segment(Add(nxt, i - 1), queue[i], Len(w) - Len(queue) + i)]
  /\ full = buf \o new /\ left = SubSeq(queue, k + 1, Len(queue))

\* The sender has m instead of n segments numbered, and all of the new ones and
\* of the old ones in buf are in its buffer.
Grown(w, n, buf, m, queue2, buf2, una, nxt) ==
  /\ SenderOK(w, m, queue2, buf2, una, nxt)
  /\ \A i \in 1..Len(buf) : \E j \in 1..Len(buf2) : buf2[j].data = buf[i].data
  /\ \A d \in (n + 1)..m : \E j \in 1..Len(buf2) : buf2[j].data = d

\* That keeps the order of the buffer.
LEMMA BufferGrows ==
  ASSUME NEW w, Whole(w), NEW n \in Nat, NEW queue \in Seq(Nat), NEW buf \in Seq(SegRec),
         NEW una, NEW nxt, SenderOK(w, n, queue, buf, una, nxt),
         NEW k \in Nat, k <= Len(queue), k > 0 => n + k < First(buf, n) + SndWnd,
         NEW new, NEW full, NEW left, Grows(w, queue, buf, nxt, k, new, full, left),
         NEW m \in Nat, m = n + k
  PROVE  Grown(w, n, buf, m, left, full, una, Add(nxt, k))
<1> USE Constants
<1>1. PICK b \in Nat, l \in Nat, q \in Nat : b = Len(buf) /\ l = Len(w) /\ q = Len(queue)
  BY DEF Whole
<1>3. PICK u \in 1..(n + 1) : u = First(buf, n)
  BY FirstPlace
<1>4. nxt = Sn(n + 1) /\ una = Sn(u)
  BY <1>3 DEF SenderOK
<1>5. /\ l <= MaxSegments /\ b + q <= SndWnd /\ n + 1 - u <= SndWnd /\ n + q = l
      /\ k <= q /\ (k > 0 => n + k < u + SndWnd)
  BY <1>1, <1>3 DEF SenderOK, Whole
<1>6. /\ new = [i \in 1..k |-> Segment(Add(nxt, i - 1), queue[i], (l - q) + i)]
      /\ full = buf \o new /\ left = SubSeq(queue, k + 1, q)
  BY <1>1 DEF Grows
<1>8. ASSUME NEW i \in 1..k
      PROVE  /\ new[i] = SegOf(w, n + i) /\ new[i] \in SegRec /\ new[i].data = n + i
             /\ n + i \in 1..m /\ new[i] = SegOf(w, new[i].data)
  <2>1. n + i \in 1..l /\ n + i \in 1..m /\ i \in 1..q /\ i - 1 \in Nat /\ n + 1 \in Nat \ {0}
    BY <1>5
  <2>2. Add(nxt, i - 1) = Sn((n + 1) + (i - 1))
    BY <1>4, <2>1, SnAdd
  <2>3. (n + 1) + (i - 1) = n + i /\ (l - q) + i = n + i
    BY <1>5
  <2>4. queue[i] = w[n + i]
    BY <1>1, <2>1 DEF SenderOK
  <2>5. new[i] = SegOf(w, n + i)
    BY <1>6, <2>2, <2>3, <2>4 DEF SegOf
  <2>6. SegOf(w, n + i) \in SegRec /\ SegOf(w, n + i).data = n + i
    BY <1>1, <2>1, SegType
  <2> QED
    BY <2>1, <2>5, <2>6
<1>9. new \in Seq(SegRec) /\ Len(new) = k
  <2>1. new \in [1..k -> SegRec]
    BY <1>6, <1>8
  <2> QED
    BY ONLY k \in Nat, <2>1
<1>10. /\ full \in Seq(SegRec) /\ Len(full) = b + k
       /\ \A i \in 1..b : full[i] = buf[i]
       /\ \A i \in 1..k : full[b + i] = new[i]
  BY ONLY <1>1, <1>6, <1>9, k \in Nat, buf \in Seq(SegRec)
<1>11. left \in Seq(Nat) /\ Len(left) = q - k /\ \A i \in 1..(q - k) : left[i] = queue[k + i]
  <2>1. k <= Len(queue) /\ left = SubSeq(queue, k + 1, Len(queue))
    BY <1>1, <1>6
  <2>2. left \in Seq(Nat) /\ Len(left) = Len(queue) - k
        /\ \A i \in 1..(Len(queue) - k) : left[i] = queue[k + i]
    BY ONLY queue \in Seq(Nat), k \in Nat, <2>1, Following, SMTT(30)
  <2> QED
    BY <1>1, <2>2
<1>12. ASSUME NEW i \in 1..(b + k)
       PROVE  \/ i \in 1..b /\ full[i] = buf[i]
              \/ i > b /\ i - b \in 1..k /\ full[i] = new[i - b]
  <2>1. CASE i <= b
    BY <1>10, <2>1
  <2>2. CASE ~ (i <= b)
    <3>1. i - b \in 1..k /\ b + (i - b) = i /\ i > b
      BY <2>2
    <3> QED
      BY <1>10, <3>1
  <2> QED
    BY <2>1, <2>2
<1>13. \A i \in 1..b : buf[i].data \in 1..n /\ buf[i] = SegOf(w, buf[i].data)
  BY <1>1 DEF SenderOK
<1>14. ASSUME NEW i \in 1..(b + k)
       PROVE  full[i].data \in 1..m /\ full[i] = SegOf(w, full[i].data)
  <2>1. CASE i \in 1..b /\ full[i] = buf[i]
    <3>1. full[i].data \in 1..n /\ full[i] = SegOf(w, full[i].data)
      BY ONLY <1>13, <2>1
    <3> QED
      BY ONLY <3>1, n \in Nat, k \in Nat, m = n + k
  <2>2. CASE i - b \in 1..k /\ full[i] = new[i - b]
    BY <1>8, <2>2
  <2> QED
    BY <1>12, <2>1, <2>2
<1>15. ASSUME NEW i \in 1..(b + k), NEW j \in 1..(b + k), i < j
       PROVE  full[i].data < full[j].data
  <2>1. CASE j \in 1..b /\ full[j] = buf[j]
    <3>1. i \in 1..b /\ full[i] = buf[i]
      <4>1. i \in 1..b
        BY ONLY b \in Nat, k \in Nat, i \in 1..(b + k), j \in 1..(b + k), <1>15, <2>1
      <4> QED
        BY ONLY <1>10, <4>1
    <3> QED
      BY <1>1, <1>15, <2>1, <3>1 DEF SenderOK
  <2>2. CASE j - b \in 1..k /\ full[j] = new[j - b]
    <3>1. full[j].data = n + (j - b)
      BY <1>8, <2>2
    <3>2. CASE i \in 1..b /\ full[i] = buf[i]
      <4>1. full[i].data \in 1..n
        BY <1>13, <3>2
      <4> QED
        BY ONLY n \in Nat, b \in Nat, j \in 1..(b + k), k \in Nat, <2>2, <3>1, <4>1
    <3>3. CASE i - b \in 1..k /\ full[i] = new[i - b]
      <4>1. full[i].data = n + (i - b)
        BY <1>8, <3>3
      <4> QED
        BY <1>15, <3>1, <4>1
    <3> QED
      BY <1>12, <3>2, <3>3
  <2> QED
    BY <1>12, <2>1, <2>2
<1>16. First(full, m) = u
  <2>1. CASE b > 0
    <3>1. 1 \in 1..b /\ buf # <<>> /\ full # <<>>
      BY <1>1, <1>10, <2>1
    <3> QED
      BY <1>3, <1>10, <3>1 DEF First
  <2>2. CASE b = 0 /\ k > 0
    <3>1. 1 \in 1..k /\ b + 1 = 1 /\ b + k # 0
      BY ONLY b \in Nat, k \in Nat, <2>2
    <3>3. buf = <<>> /\ full # <<>>
      BY ONLY <1>1, <1>10, <2>2, <3>1, buf \in Seq(SegRec), NoElement
    <3>2. full[1].data = n + 1
      BY <1>8, <1>10, <3>1
    <3> QED
      BY <1>3, <3>2, <3>3 DEF First
  <2>3. CASE b = 0 /\ k = 0
    <3>1. b + k = 0 /\ m = n
      BY ONLY b \in Nat, k \in Nat, n \in Nat, m = n + k, <2>3
    <3>2. buf = <<>> /\ full = <<>>
      BY ONLY <1>1, <1>10, <2>3, <3>1, buf \in Seq(SegRec), NoElement
    <3> QED
      BY <1>3, <3>1, <3>2 DEF First
  <2> QED
    BY <2>1, <2>2, <2>3
<1>17. Add(nxt, k) = Sn(m + 1)
  <2>1. n + 1 \in Nat \ {0} /\ (n + 1) + k = m + 1
    OBVIOUS
  <2>2. Add(Sn(n + 1), k) = Sn((n + 1) + k)
    BY <2>1, SnAdd
  <2> QED
    BY <1>4, <2>1, <2>2
<1>18. m + 1 - u <= SndWnd /\ (b + k) + (q - k) <= SndWnd /\ m + (q - k) = l
  BY <1>5
<1>19. ASSUME NEW i \in 1..Len(left) PROVE left[i] = w[m + i]
  <2>1. i \in 1..(q - k) /\ k + i \in 1..q /\ n + (k + i) = m + i
    BY <1>5, <1>11
  <2>2. queue[k + i] = w[n + (k + i)]
    BY <1>1, <2>1 DEF SenderOK
  <2> QED
    BY <1>11, <2>1, <2>2
<1>20. SenderOK(w, m, left, full, una, Add(nxt, k))
  BY <1>1, <1>3, <1>4, <1>10, <1>11, <1>14, <1>15, <1>16, <1>17, <1>18, <1>19 DEF SenderOK
<1>21. ASSUME NEW i \in 1..b PROVE \E j \in 1..(b + k) : full[j].data = buf[i].data
  <2>1. i \in 1..(b + k) /\ full[i] = buf[i]
    BY <1>10
  <2> QED
    BY <2>1
<1>22. ASSUME NEW d \in (n + 1)..m PROVE \E j \in 1..(b + k) : full[j].data = d
  <2>1. PICK i \in 1..k : n + i = d
    <3>1. d - n \in 1..k /\ n + (d - n) = d
      OBVIOUS
    <3> QED
      BY <3>1
  <2>2. b + i \in 1..(b + k)
    BY ONLY b \in Nat, k \in Nat, i \in 1..k
  <2>3. full[b + i] = new[i]
    BY <1>10
  <2> QED
    BY <1>8, <2>1, <2>2, <2>3
<1> QED
  BY <1>1, <1>10, <1>20, <1>21, <1>22 DEF Grown

\* flush puts only stream segments and probes into packets.
LEMMA FlushSenderKeeps ==
  ASSUME HalfTurn, NEW w, w = written', Whole(w), NEW n, NEW queue, NEW buf, NEW una,
         NEW wnd \in Wnds, NEW rest, NEW sure,
         SenderOK(w, n, queue, buf, una, sndNxt), FlushSender(queue, buf, una, wnd, rest, sure)
  PROVE  \E m \in Nat :
         /\ Grown(w, n, buf, m, sndQueue', sndBuf', sndUna', sndNxt')
         /\ n \in Nat /\ n <= m /\ rmtWnd' \in Wnds /\ probing' \in BOOLEAN
         /\ \A p \in net' : p \in rest \/ p = Wask \/ \E d \in 1..m : p = Push(SegOf(w, d))
<1> DEFINE q == Len(queue)
           k == Sendable(sndNxt, una, wnd, q)
           new == [i \in 1..k |-> Segment(Add(sndNxt, i - 1), queue[i], Len(w) - q + i)]
           full == buf \o new
           left == SubSeq(queue, k + 1, q)
           m == n + k
<1>1. /\ sndQueue' = left /\ sndBuf' = full /\ sndNxt' = Add(sndNxt, k)
      /\ sndUna' = una /\ rmtWnd' = wnd /\ probing' = (wnd = 0)
      /\ Transmit(rest, {Push(full[i]) : i \in DOMAIN full} \cup Probes(wnd, probing), sure)
  BY DEF FlushSender
<1>2. net' \subseteq rest \cup {Push(full[i]) : i \in DOMAIN full} \cup {Wask}
  <2> HIDE DEF full
  <2> QED
    BY <1>1 DEF Transmit, Probes
<1>3. /\ n \in Nat /\ queue \in Seq(Nat) /\ buf \in Seq(SegRec) /\ q \in Nat
      /\ n + q <= MaxSegments /\ sndNxt = Sn(n + 1) /\ una = Sn(First(buf, n))
  BY DEF SenderOK, Whole
<1>4. k \in 0..q /\ (k > 0 => n + k < First(buf, n) + SndWnd)
  <2>1. First(buf, n) \in 1..(n + 1) /\ k = Sendable(Sn(n + 1), Sn(First(buf, n)), wnd, q)
    BY <1>3, FirstPlace
  <2> DEFINE u == First(buf, n)
  <2>2. u \in 1..(n + 1) /\ k = Sendable(Sn(n + 1), Sn(u), wnd, q)
    BY <2>1
  <2> HIDE DEF k, q, u
  <2>3. k \in 0..q /\ (k > 0 => n + k < u + SndWnd)
    BY <1>3, <2>2, SendableFits
  <2> QED
    BY <2>3 DEF u
<1>5. m \in Nat /\ k \in Nat /\ k <= q /\ n <= m
  <2> HIDE DEF k, q
  <2> QED
    BY <1>3, <1>4
<1>6. Grown(w, n, buf, m, left, full, una, Add(sndNxt, k))
  <2>1. Grows(w, queue, buf, sndNxt, k, new, full, left) /\ m = n + k /\ q = Len(queue)
    BY DEF Grows
  <2>2. Grows(w, queue, buf, sndNxt, k, new, full, left) /\ m = n + k /\ k <= Len(queue)
    BY <1>5, <2>1
  <2> HIDE DEF k, q, m, new, full, left
  <2> QED
    BY ONLY Whole(w), SenderOK(w, n, queue, buf, una, sndNxt), <1>3, <1>4, <1>5, <2>2,
            BufferGrows, Zenon
<1> HIDE DEF k, new, full, left, m
<1>7. \A p \in net' : p \in rest \/ p = Wask \/ \E d \in 1..m : p = Push(SegOf(w, d))
  <2>1. DOMAIN full = 1..Len(full)
    BY <1>6 DEF Grown, SenderOK
  <2>2. \A i \in 1..Len(full) : full[i].data \in 1..m /\ full[i] = SegOf(w, full[i].data)
    BY <1>6 DEF Grown, SenderOK
  <2> QED
    BY <1>2, <2>1, <2>2
<1> QED
  BY <1>1, <1>3, <1>5, <1>6, <1>7

\* A buffer of which some segments are gone: f gives their old places.
LEMMA BufferShrinks ==
  ASSUME NEW w, NEW n \in Nat, NEW queue, NEW buf, NEW una, NEW nxt,
         SenderOK(w, n, queue, buf, una, nxt),
         NEW buf2 \in Seq(SegRec), Len(buf2) <= Len(buf),
         NEW f \in [1..Len(buf2) -> 1..Len(buf)],
         \A i \in 1..Len(buf2) : buf2[i] = buf[f[i]],
         \A i, j \in 1..Len(buf2) : i < j => f[i] < f[j]
  PROVE  SenderOK(w, n, queue, buf2, Sn(First(buf2, n)), nxt)
<1> USE Constants
<1>1. PICK b \in Nat, b2 \in Nat, q \in Nat : b = Len(buf) /\ b2 = Len(buf2) /\ q = Len(queue)
  BY DEF SenderOK
<1>2. \A i \in 1..b2 : f[i] \in 1..b
  BY <1>1
<1>3. \A i \in 1..b2 : buf2[i].data \in 1..n /\ buf2[i] = SegOf(w, buf2[i].data)
  BY <1>1, <1>2 DEF SenderOK
<1>4. \A i, j \in 1..b2 : i < j => buf2[i].data < buf2[j].data
  BY <1>1, <1>2 DEF SenderOK
<1>5. PICK u \in 1..(n + 1), u2 \in 1..(n + 1) : u = First(buf, n) /\ u2 = First(buf2, n) /\ u <= u2
  <2>1. First(buf, n) \in 1..(n + 1)
    BY FirstPlace
  <2>2. CASE b2 = 0
    <3>1. First(buf2, n) = n + 1
      BY <1>1, <2>2, NoElement DEF First
    <3> QED
      BY <2>1, <3>1
  <2>3. CASE b2 # 0
    <3>1. 1 \in 1..b2 /\ f[1] \in 1..b /\ 1 \in 1..b /\ b # 0
      BY <1>1, <1>2, <2>3
    <3>2. First(buf2, n) = buf[f[1]].data /\ First(buf, n) = buf[1].data
      <4>1. buf2 # <<>> /\ buf # <<>>
        BY <1>1, <3>1, NoElement DEF SenderOK
      <4> QED
        BY <1>1, <3>1, <4>1 DEF First
    <3>3. buf[1].data \in 1..n /\ buf[f[1]].data \in 1..n
      BY <1>1, <3>1 DEF SenderOK
    <3>4. f[1] = 1 \/ 1 < f[1]
      BY <3>1
    <3>5. buf[1].data <= buf[f[1]].data
      BY <1>1, <3>1, <3>3, <3>4 DEF SenderOK
    <3> QED
      BY <3>2, <3>3, <3>5
  <2> QED
    BY <2>2, <2>3
<1>6. n + 1 - u <= SndWnd /\ b + q <= SndWnd
  BY <1>1, <1>5 DEF SenderOK
<1>7. n + 1 - u2 <= SndWnd /\ b2 + q <= SndWnd
  <2>1. b2 <= b /\ u <= u2
    BY <1>1, <1>5
  <2> QED
    BY ONLY <1>6, <2>1, SndWnd \in Nat, n \in Nat, u \in 1..(n + 1), u2 \in 1..(n + 1),
            b \in Nat, b2 \in Nat, q \in Nat, Constants
<1> QED
  BY <1>1, <1>3, <1>4, <1>5, <1>7 DEF SenderOK

\* The buffer buf2 is what is left of buf; only segments with Gone are not.
Thinned(w, n, queue, buf, buf2, nxt, Gone(_)) ==
  /\ SenderOK(w, n, queue, buf2, Sn(First(buf2, n)), nxt)
  /\ \A i \in 1..Len(buf) : (\E j \in 1..Len(buf2) : buf2[j] = buf[i]) \/ Gone(buf[i].data)

\* parse_una removes only what lies before the acknowledged place.
LEMMA UnaRemoves ==
  ASSUME HalfTurn, NEW w, Whole(w), NEW n \in Nat, NEW queue, NEW buf, NEW una, NEW nxt,
         SenderOK(w, n, queue, buf, una, nxt), NEW a \in 1..(n + 1),
         NEW buf2, buf2 = ParseUna(buf, Sn(a))
  PROVE  Thinned(w, n, queue, buf, buf2, nxt, LAMBDA d : d < a)
<1> USE Constants
<1>1. PICK b \in Nat : b = Len(buf) /\ buf \in Seq(SegRec)
  BY DEF SenderOK
<1>2. n <= MaxSegments
  <2>1. Len(queue) \in Nat /\ n + Len(queue) = Len(w) /\ Len(w) <= MaxSegments
    BY DEF SenderOK, Whole
  <2> QED
    BY <2>1
<1> DEFINE D(i) == TimeDiff(Sn(a), buf[i].sn)
<1>3. ASSUME NEW i \in 1..b PROVE buf[i].data \in 1..n /\ D(i) = a - buf[i].data
  <2>1. PICK d \in 1..n : d = buf[i].data /\ buf[i] = SegOf(w, d)
    BY <1>1 DEF SenderOK
  <2>2. buf[i].sn = Sn(d)
    BY <2>1 DEF SegOf, Segment
  <2>3. 2 * (a - d) < SnMod /\ 2 * (d - a) <= SnMod /\ a \in Nat \ {0} /\ d \in Nat \ {0}
    BY <1>2 DEF HalfTurn
  <2>4. TimeDiff(Sn(a), Sn(d)) = a - d
    BY <2>3, SnDiff
  <2> QED
    BY <2>1, <2>2, <2>4
<1> DEFINE P(i) == (\A j \in 1..i : D(j) > 0) /\ (i = b \/ D(i + 1) <= 0)
           S == {i \in 0..b : i = b \/ D(i + 1) <= 0}
<1>4. \E i \in 0..b : P(i)
  <2>1. PICK i \in S : \A j \in 0..(i - 1) : j \notin S
    <3>1. S \in SUBSET (0..b) /\ b \in S
      OBVIOUS
    <3> HIDE DEF S
    <3> QED
      BY <3>1, Stops
  <2>2. ASSUME NEW j \in 1..i PROVE D(j) > 0
    <3>1. j - 1 \in 0..(i - 1) /\ j - 1 \in 0..b /\ j - 1 # b /\ (j - 1) + 1 = j /\ j \in 1..b
      BY <2>1
    <3>2. ~ (D(j) <= 0) /\ D(j) \in Int
      BY <1>3, <2>1, <3>1
    <3> HIDE DEF D
    <3> QED
      BY <3>2
  <2> HIDE DEF D
  <2> QED
    BY <2>1, <2>2
<1> DEFINE k == Passed(buf, Sn(a))
<1>5. k = CHOOSE i \in 0..b : P(i)
  BY <1>1 DEF Passed
<1>6. k \in 0..b /\ P(k)
  <2> HIDE DEF P, k
  <2> QED
    BY <1>4, <1>5
<1>7. buf2 = SubSeq(buf, k + 1, Len(buf))
  BY DEF ParseUna
<1> HIDE DEF k
<1>8. buf2 \in Seq(SegRec) /\ Len(buf2) = b - k /\ \A i \in 1..(b - k) : buf2[i] = buf[k + i]
  <2>1. k \in Nat /\ k <= Len(buf)
    BY <1>1, <1>6
  <2> QED
    BY <1>1, <1>7, <2>1, Following
<1> DEFINE f == [i \in 1..(b - k) |-> k + i]
<1>9. /\ f \in [1..Len(buf2) -> 1..Len(buf)] /\ Len(buf2) <= Len(buf)
      /\ \A i \in 1..Len(buf2) : buf2[i] = buf[f[i]]
      /\ \A i, j \in 1..Len(buf2) : i < j => f[i] < f[j]
  <2>1. \A i \in 1..(b - k) : f[i] = k + i /\ k + i \in 1..b
    BY <1>6
  <2>2. f \in [1..(b - k) -> 1..b] /\ b - k <= b
    BY <1>6, <2>1
  <2>3. \A i, j \in 1..(b - k) : i < j => f[i] < f[j]
    BY <1>6, <2>1
  <2> HIDE DEF f
  <2> QED
    BY <1>1, <1>8, <2>1, <2>2, <2>3
<1> HIDE DEF f
<1>10. SenderOK(w, n, queue, buf2, Sn(First(buf2, n)), nxt)
  BY ONLY n \in Nat, SenderOK(w, n, queue, buf, una, nxt), <1>8, <1>9, BufferShrinks,
          SMTT(30)
<1>11. ASSUME NEW i \in 1..b PROVE (\E j \in 1..Len(buf2) : buf2[j] = buf[i]) \/ buf[i].data < a
  <2>1. CASE i <= k
    <3>1. D(i) > 0 /\ D(i) = a - buf[i].data /\ buf[i].data \in Nat
      BY <1>3, <1>6, <2>1
    <3> HIDE DEF D
    <3> QED
      BY <3>1
  <2>2. CASE ~ (i <= k)
    <3>1. i - k \in 1..(b - k) /\ k + (i - k) = i
      BY <1>6, <2>2
    <3> QED
      BY <1>8, <3>1
  <2> QED
    BY <2>1, <2>2
<1> QED
  BY <1>1, <1>10, <1>11 DEF Thinned

\* parse_ack removes only the segment acknowledged.
LEMMA AckRemoves ==
  ASSUME HalfTurn, NEW w, Whole(w), NEW n \in Nat, NEW queue, NEW buf, NEW una, NEW nxt,
         SenderOK(w, n, queue, buf, una, nxt), NEW a \in 1..n,
         NEW buf2, buf2 = ParseAck(buf, Sn(a))
  PROVE  Thinned(w, n, queue, buf, buf2, nxt, LAMBDA d : d = a)
<1> USE Constants
<1>1. PICK b \in Nat : b = Len(buf) /\ buf \in Seq(SegRec)
  BY DEF SenderOK
<1>2. n <= MaxSegments
  <2>1. Len(queue) \in Nat /\ n + Len(queue) = Len(w) /\ Len(w) <= MaxSegments
    BY DEF SenderOK, Whole
  <2> QED
    BY <2>1
<1> DEFINE found == {i \in DOMAIN buf : buf[i].sn = Sn(a) /\ \A j \in 1..(i - 1) : buf[j].sn < Sn(a)}
<1>3. CASE found = {}
  <2>1. buf2 = buf
    BY <1>3 DEF ParseAck
  <2>2. una = Sn(First(buf, n))
    BY DEF SenderOK
  <2> QED
    BY <2>1, <2>2 DEF Thinned
<1>4. CASE found # {}
  <2> DEFINE k == CHOOSE i \in found : TRUE
  <2>1. k \in found
    <3> HIDE DEF found
    <3> QED
      BY <1>4
  <2>2. buf2 = SubSeq(buf, 1, k - 1) \o SubSeq(buf, k + 1, Len(buf))
    BY <1>4 DEF ParseAck, RemoveAt
  <2>3. k \in 1..b /\ buf[k].sn = Sn(a)
    BY <1>1, <2>1
  <2> HIDE DEF k, found
  <2>4. buf[k].data = a
    <3>1. PICK d \in 1..n : d = buf[k].data /\ buf[k] = SegOf(w, d)
      BY <1>1, <2>3 DEF SenderOK
    <3>2. Sn(d) = Sn(a)
      BY <2>3, <3>1 DEF SegOf, Segment
    <3>3. 2 * (a - d) < SnMod /\ 2 * (d - a) < SnMod /\ a \in Nat \ {0} /\ d \in Nat \ {0}
      BY <1>2 DEF HalfTurn
    <3> QED
      BY <3>1, <3>2, <3>3, SnUnique
  <2> DEFINE x == SubSeq(buf, 1, k - 1)
             y == SubSeq(buf, k + 1, Len(buf))
  <2>5. x \in Seq(SegRec) /\ Len(x) = k - 1 /\ \A i \in 1..(k - 1) : x[i] = buf[i]
    <3>1. PICK h \in Nat : h = k - 1 /\ h <= Len(buf)
      BY <1>1, <2>3
    <3> QED
      BY <1>1, <3>1, Leading
  <2>6. y \in Seq(SegRec) /\ Len(y) = b - k /\ \A i \in 1..(b - k) : y[i] = buf[k + i]
    <3>1. k \in Nat /\ k <= Len(buf)
      BY <1>1, <2>3
    <3> QED
      BY <1>1, <3>1, Following
  <2> HIDE DEF x, y
  <2>7. buf2 = x \o y
    BY <2>2 DEF x, y
  <2>8. /\ buf2 \in Seq(SegRec) /\ Len(buf2) = Len(x) + Len(y)
        /\ \A i \in 1..Len(x) : buf2[i] = x[i]
        /\ \A i \in 1..Len(y) : buf2[Len(x) + i] = y[i]
    <3>1. x \in Seq(SegRec) /\ y \in Seq(SegRec)
      BY <2>5, <2>6
    <3> QED
      BY ONLY <3>1, <2>7, SMT
  <2>9. Len(buf2) = b - 1
    BY <2>3, <2>5, <2>6, <2>8
  <2> DEFINE f == [i \in 1..(b - 1) |-> IF i < k THEN i ELSE i + 1]
  <2>10. ASSUME NEW i \in 1..(b - 1) PROVE buf2[i] = buf[f[i]] /\ f[i] \in 1..b
    <3>1. CASE i < k
      <4>1. i \in 1..(k - 1) /\ f[i] = i /\ i \in 1..b
        BY <2>3, <3>1
      <4> QED
        BY <2>5, <2>8, <4>1
    <3>2. CASE ~ (i < k)
      <4>1. PICK j \in 1..(b - k) : j = i - (k - 1)
        BY <2>3, <3>2
      <4>2. f[i] = k + j /\ (k - 1) + j = i /\ f[i] \in 1..b
        BY <2>3, <3>2, <4>1
      <4>3. buf2[(k - 1) + j] = y[j]
        BY <2>5, <2>6, <2>8
      <4> QED
        BY <2>6, <4>2, <4>3
    <3> QED
      BY <3>1, <3>2
  <2>11. /\ f \in [1..(b - 1) -> 1..b]
         /\ \A i, j \in 1..(b - 1) : i < j => f[i] < f[j]
    BY <2>3, <2>10
  <2> HIDE DEF f
  <2>12. /\ f \in [1..Len(buf2) -> 1..Len(buf)] /\ Len(buf2) <= Len(buf)
         /\ \A i \in 1..Len(buf2) : buf2[i] = buf[f[i]]
         /\ \A i, j \in 1..Len(buf2) : i < j => f[i] < f[j]
    BY <1>1, <2>9, <2>10, <2>11
  <2>13. SenderOK(w, n, queue, buf2, Sn(First(buf2, n)), nxt)
    BY ONLY n \in Nat, SenderOK(w, n, queue, buf, una, nxt), <2>8, <2>12, BufferShrinks,
            SMTT(30)
  <2>14. ASSUME NEW i \in 1..b PROVE (\E j \in 1..Len(buf2) : buf2[j] = buf[i]) \/ buf[i].data = a
    <3>1. CASE i < k
      <4>1. i \in 1..(k - 1) /\ i \in 1..(b - 1)
        BY <2>3, <3>1
      <4> QED
        BY <2>5, <2>8, <2>9, <4>1
    <3>2. CASE i = k
      BY <2>4, <3>2
    <3>3. CASE i > k
      <4>1. i - k \in 1..(b - k) /\ (k - 1) + (i - k) \in 1..(b - 1) /\ k + (i - k) = i
        BY <2>3, <3>3
      <4>2. buf2[(k - 1) + (i - k)] = y[i - k] /\ y[i - k] = buf[i]
        BY <2>5, <2>6, <2>8, <4>1
      <4> QED
        BY <2>9, <4>1, <4>2
    <3> QED
      BY <2>3, <3>1, <3>2, <3>3
  <2> QED
    BY <1>1, <2>13, <2>14 DEF Thinned
<1> QED
  BY <1>3, <1>4

-----------------------------------------------------------------------------
(* The receiver. *)

\* Nothing the receiver had is lost and it does not go back.
Keeps(st, t, r) ==
  /\ Pos(st, r) <= Pos(t, r)
  /\ \A d \in Nat : Holds(st, r, d) => Holds(t, r, d)

\* The numbers of a receiver's state.
LEMMA ReceiverTypes ==
  ASSUME NEW w, NEW n, NEW r \in Nat, NEW st, ReceiverOK(st, w, n, r)
  PROVE  /\ st.buf \in SUBSET SegRec /\ st.queue \in Seq(SegRec) /\ st.out \in Seq(SegRec)
         /\ Len(st.queue) \in Nat /\ Len(st.out) \in Nat /\ Pos(st, r) \in Nat
         /\ Pos(st, r) = (r + Len(st.out)) + Len(st.queue)
         /\ st.nxt \in 0..(SnMod - 1) /\ st.tell \in BOOLEAN
<1>1. st \in RcvRec
  BY DEF ReceiverOK
<1>2. /\ st.buf \in SUBSET SegRec /\ st.queue \in Seq(SegRec) /\ st.out \in Seq(SegRec)
      /\ st.nxt \in 0..(SnMod - 1) /\ st.tell \in BOOLEAN
  BY <1>1 DEF RcvRec
<1> DEFINE q == Len(st.queue)
           o == Len(st.out)
<1>3. q \in Nat /\ o \in Nat
  BY <1>2
<1>4. Pos(st, r) = (r + o) + q
  BY DEF Pos
<1> HIDE DEF q, o
<1>5. Pos(st, r) \in Nat
  BY <1>3, <1>4
<1> QED
  BY <1>2, <1>3, <1>4, <1>5 DEF q, o

\* A segment of the buffer is told by its number, p segments being in order.
Told(st, w, n, p) ==
  \A s \in st.buf, i \in 1..RcvWnd :
    s.sn = Sn(p + i) => s.data = p + i /\ s = SegOf(w, p + i) /\ p + i <= n

\* Numbers are unique within the window.
LEMMA BufferPlaces ==
  ASSUME HalfTurn, NEW w, NEW n \in Nat, NEW r \in Nat, NEW st, ReceiverOK(st, w, n, r),
         NEW p \in Nat, p = Pos(st, r)
  PROVE  Told(st, w, n, p)
<1> USE Constants
<1> SUFFICES ASSUME NEW s \in st.buf, NEW i \in 1..RcvWnd, s.sn = Sn(p + i)
             PROVE  s.data = p + i /\ s = SegOf(w, p + i) /\ p + i <= n
  BY DEF Told
<1>1. PICK d \in (p + 1)..n : d = s.data /\ d <= p + RcvWnd /\ s = SegOf(w, d)
  BY DEF ReceiverOK
<1>2. s.sn = Sn(d)
  BY <1>1 DEF SegOf, Segment
<1>3. PICK e \in Nat \ {0} : e = p + i
  OBVIOUS
<1>4. 2 * (d - e) < SnMod /\ 2 * (e - d) < SnMod /\ d \in Nat \ {0}
  BY <1>1, <1>3
<1>5. d = e
  BY <1>2, <1>3, <1>4, SnUnique
<1> QED
  BY <1>1, <1>3, <1>5

\* move_buf continues the queue without a gap.
LEMMA MoveKeeps ==
  ASSUME HalfTurn, NEW w, Whole(w), NEW n \in Nat, n <= Len(w), NEW r \in Nat,
         NEW st, ReceiverOK(st, w, n, r), NEW t, t = MoveBuf(st)
  PROVE  ReceiverOK(t, w, n, r) /\ Keeps(st, t, r) /\ t.out = st.out
<1> USE Constants
<1>1. PICK p \in Nat, q \in Nat, o \in Nat :
        p = Pos(st, r) /\ q = Len(st.queue) /\ o = Len(st.out) /\ p = (r + o) + q
  <2>1. Pos(st, r) \in Nat
    BY ONLY r \in Nat, ReceiverOK(st, w, n, r), ReceiverTypes
  <2>2. Len(st.queue) \in Nat /\ Len(st.out) \in Nat
    BY ONLY r \in Nat, ReceiverOK(st, w, n, r), ReceiverTypes
  <2>3. Pos(st, r) = (r + Len(st.out)) + Len(st.queue)
    BY DEF Pos
  <2> QED
    BY ONLY <2>1, <2>2, <2>3, Zenon
<1>21. p = (r + o) + q
  BY <1>1
<1>22. Told(st, w, n, p)
  <2>1. p = Pos(st, r)
    BY <1>1
  <2> QED
    BY ONLY HalfTurn, n \in Nat, r \in Nat, ReceiverOK(st, w, n, r), p \in Nat, <2>1, BufferPlaces
<1>2. /\ st \in RcvRec /\ st.buf \in SUBSET SegRec /\ st.queue \in Seq(SegRec)
      /\ st.out \in Seq(SegRec) /\ st.nxt = Sn(p + 1) /\ q <= RcvWnd /\ p <= n
  BY <1>1, ReceiverTypes DEF ReceiverOK
<1> DEFINE Has(j) == \E s \in st.buf : s.sn = Add(st.nxt, j)
           P(i) == /\ \A j \in 0..(i - 1) : Has(j)
                   /\ q + i <= RcvWnd
                   /\ q + i = RcvWnd \/ ~ Has(i)
           room == RcvWnd - q
           S == {i \in 0..room : i = room \/ ~ Has(i)}
<1>3. \E i \in 0..RcvWnd : P(i)
  <2>1. room \in Nat /\ room <= RcvWnd /\ q + room = RcvWnd
    <3>1. q <= RcvWnd /\ RcvWnd \in Nat
      BY <1>2
    <3> QED
      BY ONLY <3>1, q \in Nat
  <2>2. PICK i \in S : \A j \in 0..(i - 1) : j \notin S
    <3>1. S \in SUBSET (0..room) /\ room \in S
      BY <2>1
    <3> HIDE DEF S, room
    <3> QED
      BY <2>1, <3>1, Stops
  <2>3. i \in 0..room /\ (i = room \/ ~ Has(i))
    OBVIOUS
  <2> HIDE DEF room
  <2>4. ASSUME NEW j \in 0..(i - 1) PROVE Has(j)
    <3>1. j \in 0..room /\ j # room
      BY <2>1, <2>3
    <3> HIDE DEF Has
    <3> QED
      BY <2>2, <3>1
  <2> HIDE DEF Has
  <2>5. i \in 0..RcvWnd /\ q + i <= RcvWnd /\ (q + i = RcvWnd \/ ~ Has(i))
    BY <2>1, <2>3
  <2> QED
    BY <2>4, <2>5
<1> DEFINE k == Movable(st.buf, st.queue, st.nxt)
<1>4. k = CHOOSE i \in 0..RcvWnd : P(i)
  BY <1>1 DEF Movable
<1>5. k \in 0..RcvWnd /\ P(k)
  <2> HIDE DEF P, k
  <2> QED
    BY <1>3, <1>4
<1> DEFINE moved == [i \in 1..k |-> CHOOSE s \in st.buf : s.sn = Add(st.nxt, i - 1)]
           buf2 == st.buf \ Range(moved)
           queue2 == st.queue \o moved
           nxt2 == Add(st.nxt, k)
<1>6. t = [st EXCEPT !.buf = buf2, !.queue = queue2, !.nxt = nxt2]
  BY DEF MoveBuf
<1> HIDE DEF k
<1>7. ASSUME NEW i \in 1..k
      PROVE  moved[i] \in st.buf /\ moved[i] = SegOf(w, p + i) /\ moved[i].data = p + i /\ p + i <= n
  <2>1. i - 1 \in 0..(k - 1) /\ i \in 1..RcvWnd /\ i - 1 \in Nat /\ (p + 1) + (i - 1) = p + i
        /\ p + 1 \in Nat \ {0}
    BY <1>5
  <2>2. \E s \in st.buf : s.sn = Add(st.nxt, i - 1)
    BY <1>5, <2>1
  <2>3. moved[i] \in st.buf /\ moved[i].sn = Add(st.nxt, i - 1)
    <3> DEFINE Q(s) == s.sn = Add(st.nxt, i - 1)
    <3>1. moved[i] = CHOOSE s \in st.buf : Q(s)
      OBVIOUS
    <3>2. \E s \in st.buf : Q(s)
      BY <2>2
    <3>3. (CHOOSE s \in st.buf : Q(s)) \in st.buf /\ Q(CHOOSE s \in st.buf : Q(s))
      <4> HIDE DEF Q
      <4> QED
        BY ONLY <3>2, Zenon
    <3> HIDE DEF moved
    <3> QED
      BY ONLY <3>1, <3>3
  <2>4. Add(st.nxt, i - 1) = Sn(p + i)
    <3>1. Add(Sn(p + 1), i - 1) = Sn((p + 1) + (i - 1))
      BY <2>1, SnAdd
    <3> QED
      BY <1>2, <2>1, <3>1
  <2>5. PICK s \in st.buf : s = moved[i] /\ s.sn = Sn(p + i)
    BY <2>3, <2>4
  <2>6. s.data = p + i /\ s = SegOf(w, p + i) /\ p + i <= n
    <3>1. p = Pos(st, r) /\ i \in 1..RcvWnd /\ s.sn = Sn(p + i)
      BY <1>1, <2>1, <2>5
    <3> HIDE DEF moved
    <3> QED
      BY ONLY s \in st.buf, <3>1, <1>22 DEF Told
  <2> QED
    BY <2>5, <2>6
<1>8. k \in Nat /\ p + k <= n /\ q + k <= RcvWnd
  <2>1. CASE k = 0
    BY <1>2, <2>1
  <2>2. CASE k > 0
    <3>1. k \in 1..k
      BY <1>5, <2>2
    <3> QED
      BY <1>5, <1>7, <3>1
  <2> QED
    BY <1>5, <2>1, <2>2
<1>9. moved \in Seq(SegRec) /\ Len(moved) = k /\ DOMAIN moved = 1..k
  <2>1. moved \in [1..k -> SegRec]
    BY <1>2, <1>7
  <2> HIDE DEF moved
  <2> QED
    BY ONLY <1>8, <2>1
<1> HIDE DEF moved
<1>10. /\ queue2 \in Seq(SegRec) /\ Len(queue2) = q + k
       /\ \A i \in 1..q : queue2[i] = st.queue[i]
       /\ \A i \in 1..k : queue2[q + i] = moved[i]
  <2>1. queue2 = st.queue \o moved
    OBVIOUS
  <2> HIDE DEF queue2
  <2>2. /\ queue2 \in Seq(SegRec) /\ Len(queue2) = Len(st.queue) + Len(moved)
        /\ \A i \in 1..Len(st.queue) : queue2[i] = st.queue[i]
        /\ \A i \in 1..Len(moved) : queue2[Len(st.queue) + i] = moved[i]
    <3>1. PICK x \in Seq(SegRec) : x = st.queue
      BY <1>2
    <3>2. queue2 = x \o moved /\ moved \in Seq(SegRec)
      BY <1>9, <2>1, <3>1
    <3>3. /\ queue2 \in Seq(SegRec) /\ Len(queue2) = Len(x) + Len(moved)
          /\ \A i \in 1..Len(x) : queue2[i] = x[i]
          /\ \A i \in 1..Len(moved) : queue2[Len(x) + i] = moved[i]
      BY ONLY x \in Seq(SegRec), <3>2, SMT
    <3> QED
      BY ONLY <3>1, <3>3
  <2> QED
    BY <1>1, <1>9, <2>2
<1>11. nxt2 = Sn(p + k + 1)
  <2>1. Add(Sn(p + 1), k) = Sn((p + 1) + k) /\ (p + 1) + k = p + k + 1
    <3>1. p + 1 \in Nat \ {0} /\ (p + 1) + k = p + k + 1
      BY <1>8
    <3> QED
      BY <1>8, <3>1, SnAdd
  <2> QED
    BY <1>2, <2>1
<1>12. nxt2 \in 0..(SnMod - 1)
  BY <1>8, <1>11, SnType
<1>13. \A i \in 1..k : moved[i] \in Range(moved)
  BY <1>9 DEF Range
<1>14. buf2 \in SUBSET SegRec
  BY <1>2
<1> HIDE DEF buf2, queue2, nxt2
<1>15. /\ t \in RcvRec /\ t.buf = buf2 /\ t.queue = queue2 /\ t.nxt = nxt2 /\ t.out = st.out
  BY ONLY <1>2, <1>6, <1>10, <1>12, <1>14 DEF RcvRec
<1>16. Pos(t, r) = p + k /\ p + k \in Nat
  <2>1. Pos(t, r) = r + o + (q + k)
    BY <1>1, <1>10, <1>15 DEF Pos
  <2> QED
    BY ONLY p \in Nat, q \in Nat, o \in Nat, r \in Nat, <1>8, <1>21, <2>1
<1>17. ASSUME NEW i \in 1..(q + k) PROVE queue2[i] = SegOf(w, (r + o) + i)
  <2>1. CASE i <= q
    <3>1. i \in 1..q /\ queue2[i] = st.queue[i]
      BY <1>10, <2>1
    <3> QED
      BY <1>1, <3>1 DEF ReceiverOK
  <2>2. CASE ~ (i <= q)
    <3>1. PICK j \in 1..k : i = q + j
      <4>1. i - q \in 1..k /\ i = q + (i - q)
        BY <1>8, <2>2
      <4> QED
        BY <4>1
    <3>2. p + j = (r + o) + i
      BY ONLY q \in Nat, o \in Nat, r \in Nat, <1>8, <1>21, <3>1
    <3> QED
      BY <1>7, <1>10, <3>1, <3>2
  <2> QED
    BY <2>1, <2>2
<1>18. ASSUME NEW s \in buf2
       PROVE  s.data \in (p + k + 1)..n /\ s.data <= p + k + RcvWnd /\ s = SegOf(w, s.data)
  <2>1. s \in st.buf /\ s \notin Range(moved)
    BY DEF buf2
  <2>2. PICK d \in (p + 1)..n : d = s.data /\ d <= p + RcvWnd /\ s = SegOf(w, d)
    BY <1>1, <2>1 DEF ReceiverOK
  <2>3. ~ (d <= p + k)
    <3> SUFFICES ASSUME d <= p + k PROVE FALSE
      OBVIOUS
    <3>1. PICK i \in 1..k : d = p + i
      <4>1. d - p \in 1..k /\ d = p + (d - p)
        BY <1>8
      <4> QED
        BY <4>1
    <3>2. s = moved[i]
      BY <1>7, <2>2, <3>1
    <3> QED
      BY <1>13, <2>1, <3>2
  <2> QED
    BY <1>8, <2>2, <2>3
<1>19. ReceiverOK(t, w, n, r)
  <2>1. Len(t.queue) <= RcvWnd
    BY <1>8, <1>10, <1>15
  <2>2. \A i \in 1..Len(t.queue) : t.queue[i] = SegOf(w, r + Len(t.out) + i)
    BY <1>1, <1>10, <1>15, <1>17
  <2>3. t.nxt = Sn(Pos(t, r) + 1) /\ Pos(t, r) <= n
    BY <1>8, <1>11, <1>15, <1>16
  <2>4. \A s \in t.buf :
          s.data \in (Pos(t, r) + 1)..n /\ s.data <= Pos(t, r) + RcvWnd /\ s = SegOf(w, s.data)
    BY <1>15, <1>16, <1>18
  <2>5. /\ \A i \in 1..Len(t.out) : t.out[i] = SegOf(w, r + i)
        /\ Len(t.out) > 0 => w[r + Len(t.out)] = 0
    BY <1>15 DEF ReceiverOK
  <2> QED
    BY <1>15, <2>1, <2>2, <2>3, <2>4, <2>5 DEF ReceiverOK
<1>20. Keeps(st, t, r)
  <2>1. Pos(st, r) <= Pos(t, r)
    <3>1. p <= p + k
      BY <1>8
    <3> QED
      BY <1>1, <1>16, <3>1
  <2>2. ASSUME NEW d \in Nat, Holds(st, r, d) PROVE Holds(t, r, d)
    <3>1. CASE d <= p
      BY <1>8, <1>16, <3>1 DEF Holds
    <3>2. CASE \E s \in st.buf : s.data = d
      <4>1. PICK s \in st.buf : s.data = d
        BY <3>2
      <4>2. CASE s \in Range(moved)
        <5>1. PICK i \in 1..k : s = moved[i]
          BY <1>9, <4>2 DEF Range
        <5>2. d = p + i
          BY <1>7, <4>1, <5>1
        <5> QED
          BY <1>8, <1>16, <5>2 DEF Holds
      <4>3. CASE s \notin Range(moved)
        BY <1>15, <4>1, <4>3 DEF Holds, buf2
      <4> QED
        BY <4>2, <4>3
    <3> QED
      BY <1>1, <2>2, <3>1, <3>2 DEF Holds
  <2> QED
    BY <2>1, <2>2 DEF Keeps
<1> QED
  BY <1>15, <1>19, <1>20

\* The receiver goes from st to t.
Goes(st, t, w, n, r) == ReceiverOK(t, w, n, r) /\ Keeps(st, t, r)

\* One step after another.
LEMMA GoesOn ==
  ASSUME NEW w, NEW n \in Nat, NEW r \in Nat, NEW x, NEW y, NEW z, ReceiverOK(x, w, n, r),
         Goes(x, y, w, n, r), Goes(y, z, w, n, r)
  PROVE  Goes(x, z, w, n, r)
<1>1. ReceiverOK(y, w, n, r) /\ ReceiverOK(z, w, n, r)
  BY DEF Goes
<1>2. Pos(x, r) \in Nat /\ Pos(y, r) \in Nat /\ Pos(z, r) \in Nat
  BY <1>1, ReceiverTypes
<1> QED
  BY <1>1, <1>2 DEF Goes, Keeps

\* Standing still.
LEMMA GoesNowhere ==
  ASSUME NEW w, NEW n \in Nat, NEW r \in Nat, NEW x, ReceiverOK(x, w, n, r)
  PROVE  Goes(x, x, w, n, r)
<1>1. Pos(x, r) \in Nat
  BY ReceiverTypes
<1> QED
  BY <1>1 DEF Goes, Keeps

\* Without the tell flag a receiver is the same.
LEMMA TellIsApart ==
  ASSUME NEW w, NEW n \in Nat, NEW r \in Nat, NEW x, ReceiverOK(x, w, n, r),
         NEW b \in BOOLEAN, NEW y, y = [x EXCEPT !.tell = b]
  PROVE  Goes(x, y, w, n, r) /\ y.out = x.out
<1>1. x \in RcvRec
  BY DEF ReceiverOK
<1>2. y \in RcvRec /\ y.buf = x.buf /\ y.queue = x.queue /\ y.nxt = x.nxt /\ y.out = x.out
  BY ONLY <1>1, b \in BOOLEAN, y = [x EXCEPT !.tell = b] DEF RcvRec
<1>3. Pos(y, r) = Pos(x, r) /\ Pos(x, r) \in Nat
  BY <1>2, ReceiverTypes DEF Pos
<1>4. ReceiverOK(y, w, n, r)
  BY <1>2, <1>3 DEF ReceiverOK
<1>5. Keeps(x, y, r)
  BY <1>2, <1>3 DEF Keeps, Holds
<1> QED
  BY <1>2, <1>4, <1>5 DEF Goes

\* recv takes whole messages from the queue.
LEMMA RecvOneKeeps ==
  ASSUME HalfTurn, NEW w, Whole(w), NEW n \in Nat, n <= Len(w), NEW r \in Nat,
         NEW st, ReceiverOK(st, w, n, r), NEW t, t = RecvOne(st)
  PROVE  Goes(st, t, w, n, r)
<1> USE Constants
<1> DEFINE k == PeekSize(st.queue)
           front == SubSeq(st.queue, 1, k)
           rest == SubSeq(st.queue, k + 1, Len(st.queue))
           out2 == st.out \o front
           mid == [st EXCEPT !.queue = rest, !.out = out2]
           moved == MoveBuf(mid)
           b == moved.tell \/ (Len(st.queue) >= RcvWnd /\ Len(moved.queue) < RcvWnd)
<1>1. t = IF k = 0 THEN st ELSE [moved EXCEPT !.tell = b]
  BY DEF RecvOne
<1>2. CASE k = 0
  BY <1>1, <1>2, GoesNowhere
<1>3. CASE k # 0
  <2>1. PICK p \in Nat, q \in Nat, o \in Nat :
          p = Pos(st, r) /\ q = Len(st.queue) /\ o = Len(st.out) /\ p = (r + o) + q
    <3>1. Pos(st, r) \in Nat
      BY ONLY r \in Nat, ReceiverOK(st, w, n, r), ReceiverTypes
    <3>2. Len(st.queue) \in Nat /\ Len(st.out) \in Nat
      BY ONLY r \in Nat, ReceiverOK(st, w, n, r), ReceiverTypes
    <3>3. Pos(st, r) = (r + Len(st.out)) + Len(st.queue)
      BY DEF Pos
    <3> QED
      BY ONLY <3>1, <3>2, <3>3, Zenon
  <2>2. p = (r + o) + q
    BY <2>1
  <2>3. /\ st \in RcvRec /\ st.queue \in Seq(SegRec) /\ st.out \in Seq(SegRec)
        /\ st.nxt = Sn(p + 1) /\ q <= RcvWnd /\ p <= n
    BY <2>1, ReceiverTypes DEF ReceiverOK
  <2>4. st.queue # <<>> /\ k = st.queue[1].frg + 1 /\ ~ (Len(st.queue) < st.queue[1].frg + 1)
    BY <1>3 DEF PeekSize
  <2>5. q # 0
    BY <2>1, <2>3, <2>4, NoElement
  <2>6. st.queue[1] = SegOf(w, (r + o) + 1)
    <3>1. 1 \in 1..q
      BY <2>5
    <3> QED
      BY <2>1, <3>1 DEF ReceiverOK
  <2>7. PICK c \in 1..Len(w) : c = (r + o) + 1
    <3>1. (r + o) + 1 <= n /\ Len(w) \in Nat
      BY <2>2, <2>3, <2>5 DEF Whole
    <3> QED
      BY <3>1
  <2>8. st.queue[1].frg = w[c] /\ w[c] \in Nat
    <3>1. w[c] \in Nat
      BY ONLY c \in 1..Len(w), Whole(w) DEF Whole
    <3>2. SegOf(w, c).frg = w[c]
      BY ONLY c \in 1..Len(w), Whole(w), SegType
    <3>3. st.queue[1] = SegOf(w, c)
      BY ONLY <2>6, <2>7
    <3> QED
      BY ONLY <3>1, <3>2, <3>3
  <2>9. k \in Nat /\ k = w[c] + 1 /\ k <= q
    <3>1. PICK f \in Nat : f = w[c] /\ f = st.queue[1].frg
      BY ONLY <2>8
    <3>2. k = f + 1 /\ ~ (q < f + 1)
      BY ONLY <2>1, <2>4, <3>1
    <3> QED
      BY ONLY <3>1, <3>2, q \in Nat
  <2>10. w[(r + o) + k] = 0
    <3>1. PICK f \in Nat : f = w[c] /\ k = f + 1
      BY ONLY <2>8, <2>9
    <3>2. w[c + w[c]] = 0
      BY ONLY c \in 1..Len(w), Whole(w) DEF Whole
    <3>3. c + f = (r + o) + k
      BY ONLY <2>7, <3>1, f \in Nat, r \in Nat, o \in Nat
    <3>4. w[c + f] = 0
      BY ONLY <3>1, <3>2
    <3> QED
      BY ONLY <3>3, <3>4
  <2>11. front \in Seq(SegRec) /\ Len(front) = k /\ \A i \in 1..k : front[i] = st.queue[i]
    BY <2>1, <2>3, <2>9, Leading
  <2>12. /\ rest \in Seq(SegRec) /\ Len(rest) = q - k
         /\ \A i \in 1..(q - k) : rest[i] = st.queue[k + i]
    <3>1. PICK x \in Seq(SegRec) : x = st.queue
      BY <2>3
    <3>2. k \in Nat /\ k <= Len(x) /\ rest = SubSeq(x, k + 1, Len(x))
      BY <2>1, <2>9, <3>1
    <3> HIDE DEF rest, k
    <3>3. /\ rest \in Seq(SegRec) /\ Len(rest) = Len(x) - k
          /\ \A i \in 1..(Len(x) - k) : rest[i] = x[k + i]
      BY ONLY x \in Seq(SegRec), <3>2, Following
    <3> QED
      BY <2>1, <3>1, <3>3
  <2> HIDE DEF front, rest, k
  <2>13. /\ out2 \in Seq(SegRec) /\ Len(out2) = o + k
         /\ \A i \in 1..o : out2[i] = st.out[i]
         /\ \A i \in 1..k : out2[o + i] = front[i]
    <3>1. PICK x \in Seq(SegRec) : x = st.out /\ out2 = x \o front /\ front \in Seq(SegRec)
      BY <2>3, <2>11
    <3> HIDE DEF out2
    <3>2. out2 = x \o front /\ front \in Seq(SegRec)
      BY <3>1
    <3>3. /\ out2 \in Seq(SegRec) /\ Len(out2) = Len(x) + Len(front)
          /\ \A i \in 1..Len(x) : out2[i] = x[i]
          /\ \A i \in 1..Len(front) : out2[Len(x) + i] = front[i]
      BY ONLY x \in Seq(SegRec), <3>2, SMT
    <3> QED
      BY <2>1, <2>11, <3>1, <3>3
  <2> HIDE DEF out2
  <2>14. mid \in RcvRec /\ mid.buf = st.buf /\ mid.nxt = st.nxt /\ mid.queue = rest /\ mid.out = out2
    BY ONLY <2>3, <2>12, <2>13 DEF RcvRec
  <2> HIDE DEF mid
  <2>15. Pos(mid, r) = p /\ Pos(st, r) = p
    <3>1. Pos(mid, r) = r + (o + k) + (q - k)
      BY <2>12, <2>13, <2>14 DEF Pos
    <3>2. r + (o + k) + (q - k) = p
      BY ONLY r \in Nat, o \in Nat, q \in Nat, <2>9, <2>2
    <3> QED
      BY <2>1, <3>1, <3>2
  <2>16. \A i \in 1..(o + k) : out2[i] = SegOf(w, r + i)
    <3> SUFFICES ASSUME NEW i \in 1..(o + k) PROVE out2[i] = SegOf(w, r + i)
      OBVIOUS
    <3>1. CASE i <= o
      <4>1. i \in 1..o /\ out2[i] = st.out[i]
        BY <2>13, <3>1
      <4> QED
        BY <2>1, <4>1 DEF ReceiverOK
    <3>2. CASE ~ (i <= o)
      <4>1. PICK j \in 1..k : i = o + j
        <5>1. i - o \in 1..k /\ i = o + (i - o)
          BY <2>9, <3>2
        <5> QED
          BY <5>1
      <4>2. j \in 1..q /\ (r + o) + j = r + i
        BY <2>9, <4>1
      <4>3. st.queue[j] = SegOf(w, (r + o) + j)
        BY <2>1, <4>2 DEF ReceiverOK
      <4> QED
        BY <2>11, <2>13, <4>1, <4>2, <4>3
    <3> QED
      BY <3>1, <3>2
  <2>17. \A i \in 1..(q - k) : rest[i] = SegOf(w, r + (o + k) + i)
    <3> SUFFICES ASSUME NEW i \in 1..(q - k) PROVE rest[i] = SegOf(w, r + (o + k) + i)
      OBVIOUS
    <3>1. k + i \in 1..q /\ (r + o) + (k + i) = r + (o + k) + i
      <4>1. k \in Nat /\ k <= q
        BY ONLY <2>9
      <4> QED
        BY ONLY <4>1, q \in Nat, r \in Nat, o \in Nat, i \in 1..(q - k)
    <3>2. st.queue[k + i] = SegOf(w, (r + o) + (k + i))
      BY <2>1, <3>1 DEF ReceiverOK
    <3> QED
      BY <2>12, <3>1, <3>2
  <2>18. \A s \in st.buf : s.data \in (p + 1)..n /\ s.data <= p + RcvWnd /\ s = SegOf(w, s.data)
    BY <2>1 DEF ReceiverOK
  <2>19. Len(rest) <= RcvWnd /\ w[r + (o + k)] = 0
    <3>1. q - k <= RcvWnd /\ r + (o + k) = (r + o) + k
      BY <2>3, <2>9
    <3> QED
      BY <2>10, <2>12, <3>1
  <2>20. ReceiverOK(mid, w, n, r)
    BY <2>3, <2>12, <2>13, <2>14, <2>15, <2>16, <2>17, <2>18, <2>19 DEF ReceiverOK
  <2>21. Goes(st, mid, w, n, r)
    BY <2>14, <2>15, <2>20 DEF Goes, Keeps, Holds
  <2>22. Goes(mid, moved, w, n, r) /\ ReceiverOK(moved, w, n, r)
    BY <2>20, MoveKeeps DEF Goes
  <2> HIDE DEF moved
  <2>23. b \in BOOLEAN
    BY <2>22, ReceiverTypes
  <2> HIDE DEF b
  <2>24. t = [moved EXCEPT !.tell = b]
    BY <1>1, <1>3 DEF k
  <2>25. Goes(moved, t, w, n, r)
    BY ONLY n \in Nat, r \in Nat, <2>22, <2>23, <2>24, TellIsApart
  <2>26. Goes(mid, t, w, n, r)
    BY <2>20, <2>22, <2>25, GoesOn
  <2> QED
    BY <2>21, <2>26, GoesOn
<1> QED
  BY <1>2, <1>3

\* g is the receiver after each of the first rounds.
IsRun(g, st, len) == g = [i \in 0..len |-> IF i = 0 THEN st ELSE RecvOne(g[i - 1])]

\* The recursion of recv_messages has a solution.
LEMMA RunExists ==
  ASSUME NEW st, NEW len \in Nat
  PROVE  \E g : IsRun(g, st, len)
<1> USE DEF IsRun
<1> DEFINE Run(n, g) == IsRun(g, st, n)
           None == {n \in Nat : ~ \E g : Run(n, g)}
<1> SUFFICES ASSUME None # {} PROVE FALSE
  OBVIOUS
<1>1. PICK n \in None : \A m \in None : n <= m
  BY LeastNumber
<1>2. CASE n = 0
  <2> DEFINE g == [i \in 0..0 |-> st]
  <2>1. Run(0, g)
    OBVIOUS
  <2> QED
    BY <1>1, <1>2, <2>1
<1>3. CASE n # 0
  <2>1. n \in Nat /\ n - 1 \in Nat
    BY <1>1, <1>3
  <2>2. PICK g : Run(n - 1, g)
    <3>1. n - 1 \notin None
      <4> HIDE DEF None
      <4> QED
        BY <1>1, <2>1
    <3> QED
      BY <2>1, <3>1
  <2> DEFINE h == [i \in 0..n |-> IF i = n THEN RecvOne(g[n - 1]) ELSE g[i]]
  <2>3. \A i \in 0..n : h[i] = IF i = 0 THEN st ELSE RecvOne(h[i - 1])
    <3> SUFFICES ASSUME NEW i \in 0..n
                 PROVE  h[i] = IF i = 0 THEN st ELSE RecvOne(h[i - 1])
      OBVIOUS
    <3>1. CASE i = n
      <4>1. h[i - 1] = g[i - 1] /\ h[i] = RecvOne(g[i - 1])
        BY <1>3, <2>1, <3>1
      <4> QED
        BY <1>3, <3>1, <4>1
    <3>2. CASE i # n /\ i # 0
      <4>1. i \in 0..(n - 1) /\ i - 1 \in 0..n /\ i - 1 # n
        BY <2>1, <3>2
      <4>2. h[i] = g[i] /\ h[i - 1] = g[i - 1]
        BY <3>2, <4>1
      <4>3. g[i] = RecvOne(g[i - 1])
        BY <2>2, <3>2, <4>1
      <4> QED
        BY <3>2, <4>2, <4>3
    <3>3. CASE i # n /\ i = 0
      <4>1. h[0] = g[0] /\ g[0] = st
        BY <2>1, <2>2, <3>3
      <4> QED
        BY <3>3, <4>1
    <3> QED
      BY <3>1, <3>2, <3>3
  <2>4. Run(n, h)
    <3>1. h = [i \in 0..n |-> h[i]]
      OBVIOUS
    <3> HIDE DEF h
    <3> QED
      BY <2>3, <3>1
  <2> QED
    BY <1>1, <2>1, <2>4
<1> QED
  BY <1>2, <1>3

\* Rounds of recv stay among the states that one round cannot leave.
LEMMA RoundsKeep ==
  ASSUME NEW Good, NEW st \in Good, Len(st.queue) + Cardinality(st.buf) \in Nat,
         \A x \in Good : RecvOne(x) \in Good
  PROVE  RecvMessages(st) \in Good
<1> DEFINE rounds == Len(st.queue) + Cardinality(st.buf)
           Run(g) == IsRun(g, st, rounds)
           run == CHOOSE g : Run(g)
<1>1. rounds \in Nat
  OBVIOUS
<1>2. \E g : Run(g)
  BY <1>1, RunExists
<1>3. Run(run)
  BY ONLY <1>2, Zenon
<1>4. RecvMessages(st) = run[rounds]
  BY DEF RecvMessages, IsRun
<1> HIDE DEF rounds
<1>5. run[0] = st /\ \A i \in 1..rounds : run[i] = RecvOne(run[i - 1])
  <2> HIDE DEF run
  <2> QED
    BY <1>1, <1>3 DEF IsRun
<1> HIDE DEF run
<1> DEFINE Bad == {i \in 0..rounds : run[i] \notin Good}
<1> SUFFICES ASSUME Bad # {} PROVE FALSE
  BY <1>1, <1>4
<1>6. PICK n \in Bad : \A m \in Bad : n <= m
  <2>1. Bad \in SUBSET Nat
    BY <1>1
  <2> HIDE DEF Bad
  <2> QED
    BY <2>1, LeastNumber
<1>7. n # 0 /\ n - 1 \in 0..rounds /\ n \in 1..rounds
  BY <1>1, <1>5, <1>6
<1>8. run[n - 1] \in Good
  BY <1>6, <1>7
<1> QED
  BY <1>1, <1>5, <1>6, <1>7, <1>8

\* The buffer is finite and no larger than the window.
LEMMA BufferFinite ==
  ASSUME NEW w, NEW n \in Nat, NEW r \in Nat, NEW st, ReceiverOK(st, w, n, r)
  PROVE  IsFiniteSet(st.buf) /\ Cardinality(st.buf) \in Nat /\ Cardinality(st.buf) <= RcvWnd
<1> USE Constants
<1>1. PICK p \in Nat : p = Pos(st, r)
  BY ReceiverTypes
<1>2. \A s \in st.buf : s.data \in (p + 1)..(p + RcvWnd) /\ s = SegOf(w, s.data)
  BY <1>1 DEF ReceiverOK
<1> DEFINE I == (p + 1)..(p + RcvWnd)
           f == [s \in st.buf |-> s.data]
<1>3. IsFiniteSet(I) /\ Cardinality(I) = RcvWnd
  BY FS_Interval
<1>4. f \in Injection(st.buf, I)
  BY <1>2 DEF Injection, IsInjective
<1> HIDE DEF f, I
<1>5. IsFiniteSet(st.buf) /\ Cardinality(st.buf) <= Cardinality(I)
  BY <1>3, <1>4, FS_Injection
<1>6. Cardinality(st.buf) \in Nat
  BY <1>5, FS_CardinalityType
<1> QED
  BY <1>3, <1>5, <1>6

\* recv_messages.
LEMMA RecvMessagesKeeps ==
  ASSUME HalfTurn, NEW w, Whole(w), NEW n \in Nat, n <= Len(w), NEW r \in Nat,
         NEW st, ReceiverOK(st, w, n, r), NEW t, t = RecvMessages(st)
  PROVE  Goes(st, t, w, n, r)
<1> DEFINE Good == {x \in RcvRec : Goes(st, x, w, n, r)}
<1>1. st \in RcvRec /\ Goes(st, st, w, n, r)
  BY GoesNowhere DEF ReceiverOK
<1>2. ASSUME NEW x \in Good PROVE RecvOne(x) \in Good
  <2>1. Goes(st, x, w, n, r) /\ ReceiverOK(x, w, n, r)
    BY DEF Goes
  <2>2. Goes(x, RecvOne(x), w, n, r)
    BY <2>1, RecvOneKeeps
  <2>3. Goes(st, RecvOne(x), w, n, r)
    BY <2>1, <2>2, GoesOn
  <2>4. RecvOne(x) \in RcvRec
    BY <2>3 DEF Goes, ReceiverOK
  <2> QED
    BY <2>3, <2>4
<1>3. Len(st.queue) + Cardinality(st.buf) \in Nat
  <2>1. Len(st.queue) \in Nat /\ Cardinality(st.buf) \in Nat
    BY ReceiverTypes, BufferFinite
  <2> QED
    BY <2>1
<1>4. st \in Good
  BY <1>1
<1> HIDE DEF Good
<1>5. t \in Good
  BY <1>2, <1>3, <1>4, RoundsKeep
<1> QED
  BY <1>5 DEF Good

\* parse_data stores a segment of the window unless the receiver has it.
LEMMA ParseDataKeeps ==
  ASSUME HalfTurn, NEW w, Whole(w), NEW n \in Nat, n <= Len(w), NEW r \in Nat,
         NEW st, ReceiverOK(st, w, n, r), NEW d \in 1..n, InWindow(Sn(d), st.nxt),
         NEW t, t = ParseData(st, SegOf(w, d))
  PROVE  Goes(st, t, w, n, r) /\ Holds(t, r, d) /\ t.out = st.out
<1> USE Constants
<1>1. PICK p \in Nat : p = Pos(st, r) /\ st.nxt = Sn(p + 1) /\ p <= n
  BY ReceiverTypes DEF ReceiverOK
<1>2. n <= MaxSegments /\ d \in 1..Len(w) /\ p <= n
  BY <1>1 DEF Whole
<1>3. SegOf(w, d) \in SegRec /\ SegOf(w, d).data = d /\ SegOf(w, d).sn = Sn(d)
  BY <1>2, SegType
<1>4. d <= p + RcvWnd
  <2>1. PICK e \in Nat \ {0} : e = (p + 1) + RcvWnd
    OBVIOUS
  <2>2. 2 * (d - e) < SnMod /\ 2 * (e - d) <= SnMod /\ d \in Nat \ {0} /\ p + 1 \in Nat \ {0}
    BY <1>2, <2>1 DEF HalfTurn
  <2>3. Add(st.nxt, RcvWnd) = Sn(e)
    <3>1. PICK f \in Nat \ {0} : f = p + 1
      OBVIOUS
    <3>2. st.nxt = Sn(f) /\ e = f + RcvWnd /\ RcvWnd \in Nat
      BY <1>1, <2>1, <3>1
    <3> QED
      BY ONLY <3>2, f \in Nat \ {0}, SnAdd
  <2>4. TimeDiff(Sn(d), Sn(e)) = d - e
    BY <2>2, SnDiff
  <2>5. d - e < 0
    BY <2>3, <2>4 DEF InWindow
  <2> QED
    BY <2>1, <2>5
<1>5. TimeDiff(Sn(d), st.nxt) = d - (p + 1)
  <2>1. PICK e \in Nat \ {0} : e = p + 1
    OBVIOUS
  <2>2. 2 * (d - e) < SnMod /\ 2 * (e - d) <= SnMod /\ d \in Nat \ {0}
    BY <1>1, <1>2, <2>1 DEF HalfTurn
  <2>3. TimeDiff(Sn(d), Sn(e)) = d - e
    BY <2>2, SnDiff
  <2> QED
    BY <1>1, <2>1, <2>3
<1>6. CASE TimeDiff(Sn(d), st.nxt) < 0
  <2>1. t = st
    BY <1>3, <1>6 DEF ParseData
  <2>2. d <= p
    BY <1>5, <1>6
  <2> QED
    BY <1>1, <2>1, <2>2, GoesNowhere DEF Holds
<1>7. CASE ~ (TimeDiff(Sn(d), st.nxt) < 0) /\ \E s \in st.buf : s.sn = Sn(d)
  <2>1. t = MoveBuf(st)
    BY <1>3, <1>7 DEF ParseData
  <2>2. PICK s \in st.buf : s.sn = Sn(d)
    BY <1>7
  <2>3. PICK i \in 1..RcvWnd : d = p + i
    <3>1. d - p \in 1..RcvWnd /\ d = p + (d - p)
      BY <1>4, <1>5, <1>7
    <3> QED
      BY <3>1
  <2>4. Told(st, w, n, p)
    BY <1>1, BufferPlaces
  <2>5. s.data = d
    BY <2>2, <2>3, <2>4 DEF Told
  <2>6. Holds(st, r, d)
    BY <2>5 DEF Holds
  <2>7. ReceiverOK(t, w, n, r) /\ Keeps(st, t, r) /\ t.out = st.out
    BY <2>1, MoveKeeps
  <2> QED
    BY <2>6, <2>7 DEF Goes, Keeps
<1>8. CASE ~ (TimeDiff(Sn(d), st.nxt) < 0) /\ ~ \E s \in st.buf : s.sn = Sn(d)
  <2> DEFINE seg == SegOf(w, d)
             buf2 == st.buf \cup {seg}
             mid == [st EXCEPT !.buf = buf2]
  <2>1. t = MoveBuf(mid)
    BY <1>3, <1>8 DEF ParseData
  <2>2. st \in RcvRec /\ buf2 \in SUBSET SegRec
    BY <1>3, ReceiverTypes DEF ReceiverOK
  <2>3. seg \in buf2 /\ st.buf \subseteq buf2
    OBVIOUS
  <2>4. \A s \in buf2 : s \in st.buf \/ s = seg
    OBVIOUS
  <2> HIDE DEF buf2
  <2>5. mid \in RcvRec /\ mid.buf = buf2 /\ mid.queue = st.queue /\ mid.nxt = st.nxt /\ mid.out = st.out
    BY ONLY <2>2 DEF RcvRec
  <2> HIDE DEF mid
  <2>6. Pos(mid, r) = p /\ Pos(st, r) = p
    BY <1>1, <2>5 DEF Pos
  <2>7. d \in (p + 1)..n
    BY <1>5, <1>8
  <2>8. ASSUME NEW s \in buf2
        PROVE  s.data \in (p + 1)..n /\ s.data <= p + RcvWnd /\ s = SegOf(w, s.data)
    <3>1. CASE s \in st.buf
      BY <1>1, <3>1 DEF ReceiverOK
    <3>2. CASE s = seg
      BY <1>3, <1>4, <2>7, <3>2
    <3> QED
      BY <2>4, <3>1, <3>2
  <2>9. ReceiverOK(mid, w, n, r)
    BY <2>5, <2>6, <2>8 DEF ReceiverOK
  <2>10. Goes(st, mid, w, n, r) /\ Holds(mid, r, d)
    BY <1>3, <2>3, <2>5, <2>6, <2>9 DEF Goes, Keeps, Holds
  <2>11. ReceiverOK(t, w, n, r) /\ Keeps(mid, t, r) /\ t.out = mid.out
    BY <2>1, <2>9, MoveKeeps
  <2>12. Goes(st, t, w, n, r)
    BY <2>10, <2>11, GoesOn DEF Goes
  <2> QED
    BY <2>5, <2>10, <2>11, <2>12 DEF Keeps
<1> QED
  BY <1>6, <1>7, <1>8

-----------------------------------------------------------------------------
(* Steps of the sender. *)

\* The stream w continues the first n segments of v.
Continues(v, w, n) == \A d \in 1..n : w[d] = v[d]

\* What is known of the receiver stays true when the stream grows.
LEMMA ReceiverStays ==
  ASSUME NEW w, NEW v, NEW n \in Nat, NEW m \in Nat, n <= m, Continues(w, v, n), NEW r \in Nat,
         NEW st, ReceiverOK(st, w, n, r)
  PROVE  ReceiverOK(st, v, m, r)
<1>1. \A d \in 1..n : SegOf(v, d) = SegOf(w, d)
  BY DEF Continues, SegOf
<1>2. PICK p \in Nat, q \in Nat, o \in Nat :
        p = Pos(st, r) /\ q = Len(st.queue) /\ o = Len(st.out) /\ p = (r + o) + q
  <2>1. Pos(st, r) \in Nat
    BY ReceiverTypes
  <2>2. Len(st.queue) \in Nat
    BY ReceiverTypes
  <2>3. Len(st.out) \in Nat
    BY ReceiverTypes
  <2>4. Pos(st, r) = (r + Len(st.out)) + Len(st.queue)
    BY DEF Pos
  <2> QED
    BY ONLY <2>1, <2>2, <2>3, <2>4, Zenon
<1>3. p = (r + o) + q
  BY <1>2
<1>4. p <= n
  BY <1>2 DEF ReceiverOK
<1>5. \A i \in 1..o : st.out[i] = SegOf(v, r + i)
  <2> SUFFICES ASSUME NEW i \in 1..o PROVE st.out[i] = SegOf(v, r + i)
    OBVIOUS
  <2>1. r + i \in 1..n
    BY <1>3, <1>4
  <2>2. st.out[i] = SegOf(w, r + i)
    BY <1>2 DEF ReceiverOK
  <2> QED
    BY <1>1, <2>1, <2>2
<1>6. \A i \in 1..q : st.queue[i] = SegOf(v, (r + o) + i)
  <2> SUFFICES ASSUME NEW i \in 1..q PROVE st.queue[i] = SegOf(v, (r + o) + i)
    OBVIOUS
  <2>1. (r + o) + i \in 1..n
    BY <1>3, <1>4
  <2>2. st.queue[i] = SegOf(w, (r + o) + i)
    BY <1>2 DEF ReceiverOK
  <2> QED
    BY <1>1, <2>1, <2>2
<1>7. \A s \in st.buf : s.data \in (p + 1)..m /\ s.data <= p + RcvWnd /\ s = SegOf(v, s.data)
  <2> SUFFICES ASSUME NEW s \in st.buf
               PROVE  s.data \in (p + 1)..m /\ s.data <= p + RcvWnd /\ s = SegOf(v, s.data)
    OBVIOUS
  <2>1. PICK d \in (p + 1)..n : d = s.data /\ d <= p + RcvWnd /\ s = SegOf(w, d)
    BY <1>2 DEF ReceiverOK
  <2>2. d \in 1..n /\ d \in (p + 1)..m
    OBVIOUS
  <2> QED
    BY <1>1, <2>1, <2>2
<1>8. o > 0 => v[r + o] = 0
  <2> SUFFICES ASSUME o > 0 PROVE v[r + o] = 0
    OBVIOUS
  <2>1. r + o \in 1..n
    BY <1>3, <1>4
  <2> QED
    BY <1>2, <2>1 DEF ReceiverOK, Continues
<1>9. st \in RcvRec /\ Len(st.queue) <= RcvWnd /\ st.nxt = Sn(Pos(st, r) + 1)
  BY DEF ReceiverOK
<1>10. p <= m
  BY <1>4
<1> QED
  BY <1>2, <1>5, <1>6, <1>7, <1>8, <1>9, <1>10 DEF ReceiverOK

\* Likewise, of a packet.
LEMMA PacketStays ==
  ASSUME NEW v, NEW w, NEW n \in Nat, NEW m \in Nat, n <= m, Continues(v, w, n), NEW r,
         NEW st, NEW p, PacketOK(p, v, n, st, r)
  PROVE  PacketOK(p, w, m, st, r)
<1>1. \A d \in 1..n : SegOf(w, d) = SegOf(v, d)
  BY DEF Continues, SegOf
<1>2. \A d \in 1..n : d \in 1..m
  OBVIOUS
<1>3. CASE \E d \in 1..n : p = Push(SegOf(v, d))
  BY <1>1, <1>2, <1>3 DEF PacketOK
<1>4. CASE p = Wask
  BY <1>4 DEF PacketOK
<1>5. CASE \E d \in 1..n, a \in 1..(Pos(st, r) + 1), wnd \in 0..RcvWnd :
             p = Ack(Sn(d), Sn(a), wnd) /\ Holds(st, r, d)
  BY <1>2, <1>5, Zenon DEF PacketOK
<1>6. CASE \E a \in 1..(Pos(st, r) + 1), wnd \in 0..RcvWnd : p = Wins(Sn(a), wnd)
  BY <1>6, Zenon DEF PacketOK
<1> QED
  BY <1>3, <1>4, <1>5, <1>6, Zenon DEF PacketOK

\* The parts of the invariant and their numbers.
LEMMA InvariantTypes ==
  ASSUME IInv
  PROVE  /\ written \in Seq(Nat) /\ Len(written) \in Nat /\ sndQueue \in Seq(Nat)
         /\ Numbered \in Nat /\ Numbered + Len(sndQueue) = Len(written) /\ Numbered <= Len(written)
         /\ Len(read) \in Nat /\ Len(read) <= Numbered /\ read \in Seq(SegRec)
         /\ Pos(Receiver, Len(read)) \in Nat /\ Pos(Receiver, Len(read)) <= Numbered
         /\ Pos(Receiver, Len(read)) = Len(read) + Len(rcvQueue) /\ Len(rcvQueue) \in Nat
<1>1. written \in Seq(Nat) /\ sndQueue \in Seq(Nat) /\ read \in Seq(SegRec)
  BY DEF IInv, Whole, SenderOK, ReadOK
<1>2. Len(written) \in Nat /\ Len(sndQueue) \in Nat /\ Len(read) \in Nat
  BY <1>1
<1>3. Numbered \in Nat /\ Numbered + Len(sndQueue) = Len(written)
  BY DEF IInv, SenderOK
<1> DEFINE r == Len(read)
           q == Len(rcvQueue)
           st == Receiver
<1>4. ReceiverOK(st, written, Numbered, r)
  BY DEF IInv
<1>5. st.queue = rcvQueue /\ st.out = <<>> /\ Len(<<>>) = 0
  BY DEF Receiver
<1>6. st.queue \in Seq(SegRec) /\ Pos(st, r) <= Numbered
  BY <1>4 DEF ReceiverOK, RcvRec
<1>7. q \in Nat /\ Pos(st, r) = r + 0 + q
  BY <1>5, <1>6 DEF Pos
<1> HIDE DEF r, q, st
<1>8. r \in Nat
  BY <1>2 DEF r
<1>9. Pos(st, r) = r + q /\ Pos(st, r) \in Nat /\ r <= Numbered
  BY <1>3, <1>6, <1>7, <1>8
<1>10. Numbered <= Len(written)
  BY <1>2, <1>3
<1> QED
  BY <1>1, <1>2, <1>3, <1>6, <1>7, <1>8, <1>9, <1>10 DEF r, q, st

\* A step of the sender that ends with flush, from the queue and the buffer
\* given, keeps the invariant.
LEMMA SenderStep ==
  ASSUME HalfTurn, IInv, NEW w, w = written', Whole(w), Continues(written, w, Len(written)),
         NEW queue, NEW buf, NEW una, NEW wnd \in Wnds, NEW rest \in SUBSET net, NEW sure,
         SenderOK(w, Numbered, queue, buf, una, sndNxt),
         KeptOK(Numbered, buf, Receiver, Len(read)),
         FlushSender(queue, buf, una, wnd, rest, sure), UNCHANGED <<rcvVars, read>>
  PROVE  IInv'
<1> DEFINE n == Numbered
           r == Len(read)
           st == Receiver
<1>1. /\ n \in Nat /\ n <= Len(written) /\ r \in Nat /\ r <= n /\ Len(written) \in Nat
      /\ Pos(st, r) \in Nat
  BY InvariantTypes
<1>2. PICK m \in Nat :
        /\ Grown(w, n, buf, m, sndQueue', sndBuf', sndUna', sndNxt')
        /\ n <= m /\ rmtWnd' \in Wnds /\ probing' \in BOOLEAN
        /\ \A p \in net' : p \in rest \/ p = Wask \/ \E d \in 1..m : p = Push(SegOf(w, d))
  <2> HIDE DEF n
  <2>1. SenderOK(w, n, queue, buf, una, sndNxt)
    BY DEF n
  <2> QED
    BY ONLY HalfTurn, w = written', Whole(w), wnd \in Wnds, <2>1,
            FlushSender(queue, buf, una, wnd, rest, sure), FlushSenderKeeps
<1>3. SenderOK(w, m, sndQueue', sndBuf', sndUna', sndNxt')
  BY <1>2 DEF Grown
<1>4. Numbered' = m
  <2>1. sndQueue' \in Seq(Nat) /\ m + Len(sndQueue') = Len(w) /\ w \in Seq(Nat)
    BY <1>3 DEF SenderOK, Whole
  <2> DEFINE x == Len(sndQueue')
             y == Len(w)
  <2>2. x \in Nat /\ y \in Nat /\ m + x = y
    BY <2>1
  <2>3. Numbered' = y - x
    BY DEF Numbered
  <2> HIDE DEF x, y
  <2> QED
    BY <2>2, <2>3
<1>5. Receiver' = st /\ read' = read
  BY DEF rcvVars, Receiver
<1>6. Continues(written, w, n)
  BY <1>1 DEF Continues
<1>7. ReceiverOK(st, written, n, r) /\ \A p \in net : PacketOK(p, written, n, st, r)
  BY DEF IInv
<1>8. ReceiverOK(st, w, m, r)
  <2> HIDE DEF n, r, st
  <2> QED
    BY <1>1, <1>2, <1>6, <1>7, ReceiverStays
<1>9. ASSUME NEW p \in net' PROVE PacketOK(p, w, m, st, r)
  <2> HIDE DEF n, r, st
  <2>1. CASE p \in rest
    <3>1. PacketOK(p, written, n, st, r)
      BY <1>7, <2>1
    <3> QED
      BY <1>1, <1>2, <1>6, <3>1, PacketStays
  <2>2. CASE p = Wask \/ \E d \in 1..m : p = Push(SegOf(w, d))
    BY <2>2 DEF PacketOK
  <2> QED
    BY <1>2, <2>1, <2>2
<1>10. KeptOK(m, sndBuf', st, r)
  <2> SUFFICES ASSUME NEW d \in 1..m
               PROVE  (\E i \in 1..Len(sndBuf') : sndBuf'[i].data = d) \/ Holds(st, r, d)
    BY DEF KeptOK
  <2> HIDE DEF n, r, st
  <2>1. CASE d \in 1..n
    <3>1. (\E i \in 1..Len(buf) : buf[i].data = d) \/ Holds(st, r, d)
      BY <2>1 DEF KeptOK, n, r, st
    <3> QED
      BY <1>2, <3>1 DEF Grown
  <2>2. CASE d \notin 1..n
    <3>1. d \in (n + 1)..m
      BY <1>1, <2>2
    <3> QED
      BY <1>2, <3>1 DEF Grown
  <2> QED
    BY <2>1, <2>2
<1>11. ReadOK(w, read)
  <2>1. ReadOK(written, read)
    BY DEF IInv
  <2>2. \A d \in 1..r : d \in 1..n
    BY <1>1
  <2>3. \A d \in 1..r : SegOf(w, d) = SegOf(written, d) /\ w[d] = written[d]
    BY <1>6, <2>2 DEF Continues, SegOf
  <2>4. r > 0 => r \in 1..r
    BY <1>1
  <2> QED
    BY <2>1, <2>3, <2>4 DEF ReadOK
<1> HIDE DEF n, r, st
<1>12. Len(read') = r
  BY <1>5 DEF r
<1> QED
  BY <1>2, <1>3, <1>4, <1>5, <1>8, <1>9, <1>10, <1>11, <1>12 DEF IInv

\* A message of the given number of fragments is written behind v.
Message(v, count, frgs, w) ==
  frgs = [i \in 1..count |-> count - i] /\ w = v \o frgs /\ Len(v) + count <= MaxSegments

\* The stream w is v and then frgs.
Written(v, frgs, w) ==
  /\ frgs \in Seq(Nat) /\ Len(w) = Len(v) + Len(frgs)
  /\ \A i \in 1..Len(frgs) : w[Len(v) + i] = frgs[i]
  /\ Whole(w) /\ Continues(v, w, Len(v))

\* A message is written whole, behind the others.
LEMMA WholeGrows ==
  ASSUME NEW v, Whole(v), NEW count \in Nat \ {0}, NEW frgs, NEW w, Message(v, count, frgs, w)
  PROVE  Written(v, frgs, w) /\ Len(frgs) = count
<1>1. frgs \in Seq(Nat) /\ Len(frgs) = count /\ \A i \in 1..count : frgs[i] = count - i
  BY DEF Message
<1>2. PICK l \in Nat : l = Len(v) /\ v \in Seq(Nat)
  BY DEF Whole
<1>3. /\ w \in Seq(Nat) /\ Len(w) = l + count
      /\ \A i \in 1..l : w[i] = v[i]
      /\ \A i \in 1..count : w[l + i] = frgs[i]
  <2>1. /\ w \in Seq(Nat) /\ Len(w) = Len(v) + Len(frgs)
        /\ \A i \in 1..Len(v) : w[i] = v[i]
        /\ \A i \in 1..Len(frgs) : w[Len(v) + i] = frgs[i]
    <3>1. frgs \in Seq(Nat) /\ v \in Seq(Nat) /\ w = v \o frgs
      BY <1>1, <1>2 DEF Message
    <3> QED
      BY ONLY <3>1, SMT
  <2> QED
    BY <1>1, <1>2, <2>1
<1>4. ASSUME NEW i \in 1..(l + count)
      PROVE  i + w[i] <= l + count /\ w[i + w[i]] = 0
  <2>1. CASE i \in 1..l
    <3>1. PICK x \in Nat : x = v[i] /\ w[i] = x
      BY <1>2, <1>3, <2>1
    <3>2. i + x <= l /\ v[i + x] = 0
      BY <1>2, <2>1, <3>1 DEF Whole
    <3>3. i + x \in 1..l /\ i + x <= l + count
      BY <2>1, <3>2
    <3>4. w[i + x] = 0
      BY <1>3, <3>2, <3>3
    <3> QED
      BY ONLY <3>1, <3>3, <3>4
  <2>2. CASE i \notin 1..l
    <3>1. PICK j \in 1..count : i = l + j
      BY <2>2
    <3>2. frgs[j] = count - j /\ w[l + j] = frgs[j]
      BY <1>1, <1>3
    <3>3. PICK y \in Nat : y = count - j
      OBVIOUS
    <3>4. i + y = l + count /\ count \in 1..count
      BY <3>1, <3>3
    <3>5. frgs[count] = count - count /\ w[l + count] = frgs[count]
      BY <1>1, <1>3, <3>4
    <3>6. w[i] = y /\ w[l + count] = 0
      BY <3>1, <3>2, <3>3, <3>5
    <3> QED
      BY ONLY <3>4, <3>6, count \in Nat \ {0}, l \in Nat
  <2> QED
    BY <2>1, <2>2
<1>5. Whole(w)
  <2>1. Len(w) <= MaxSegments
    BY <1>2, <1>3 DEF Message
  <2> QED
    BY <1>3, <1>4, <2>1 DEF Whole
<1> QED
  BY <1>1, <1>2, <1>3, <1>5 DEF Written, Continues

\* The queue of the sender grows with it.
LEMMA QueueGrows ==
  ASSUME NEW v, Whole(v), NEW w, NEW frgs, Written(v, frgs, w),
         NEW n \in Nat, NEW queue, NEW buf, NEW una, NEW nxt,
         SenderOK(v, n, queue, buf, una, nxt),
         Len(buf) + Len(queue) + Len(frgs) <= SndWnd,
         NEW queue2, queue2 = queue \o frgs
  PROVE  SenderOK(w, n, queue2, buf, una, nxt)
<1>1. PICK l \in Nat, q \in Nat, c \in Nat, b \in Nat :
        l = Len(v) /\ q = Len(queue) /\ c = Len(frgs) /\ b = Len(buf)
  <2>1. v \in Seq(Nat) /\ queue \in Seq(Nat) /\ frgs \in Seq(Nat) /\ buf \in Seq(SegRec)
    BY DEF SenderOK, Whole, Written
  <2> QED
    BY ONLY <2>1
<1>2. queue \in Seq(Nat) /\ n + q = l /\ \A i \in 1..q : queue[i] = v[n + i]
  BY <1>1 DEF SenderOK
<1>3. /\ queue2 \in Seq(Nat) /\ Len(queue2) = q + c
      /\ \A i \in 1..q : queue2[i] = queue[i]
      /\ \A i \in 1..c : queue2[q + i] = frgs[i]
  <2>1. /\ queue2 \in Seq(Nat) /\ Len(queue2) = Len(queue) + Len(frgs)
        /\ \A i \in 1..Len(queue) : queue2[i] = queue[i]
        /\ \A i \in 1..Len(frgs) : queue2[Len(queue) + i] = frgs[i]
    <3>1. queue \in Seq(Nat) /\ frgs \in Seq(Nat)
      BY <1>2 DEF Written
    <3> QED
      BY ONLY <3>1, queue2 = queue \o frgs, SMT
  <2> QED
    BY <1>1, <2>1
<1>4. ASSUME NEW i \in 1..(q + c) PROVE queue2[i] = w[n + i]
  <2>1. CASE i \in 1..q
    <3>1. n + i \in 1..l
      BY <1>2, <2>1
    <3>2. w[n + i] = v[n + i]
      BY <1>1, <3>1 DEF Written, Continues
    <3> QED
      BY <1>2, <1>3, <2>1, <3>2
  <2>2. CASE i \notin 1..q
    <3>1. PICK j \in 1..c : i = q + j
      BY <2>2
    <3>2. n + i = l + j
      BY <1>2, <3>1
    <3>3. w[l + j] = frgs[j]
      BY <1>1 DEF Written
    <3> QED
      BY <1>3, <3>1, <3>2, <3>3
  <2> QED
    BY <2>1, <2>2
<1>5. \A d \in 1..n : SegOf(w, d) = SegOf(v, d)
  <2>1. \A d \in 1..n : d \in 1..l
    BY <1>2
  <2> QED
    BY <1>1, <2>1 DEF Written, Continues, SegOf
<1>6. /\ buf \in Seq(SegRec)
      /\ \A i \in 1..Len(buf) : buf[i].data \in 1..n /\ buf[i] = SegOf(v, buf[i].data)
      /\ \A i, j \in 1..Len(buf) : i < j => buf[i].data < buf[j].data
      /\ nxt = Sn(n + 1) /\ una = Sn(First(buf, n))
      /\ n + 1 - First(buf, n) <= SndWnd
  BY DEF SenderOK
<1>7. \A i \in 1..Len(buf) : buf[i].data \in 1..n /\ buf[i] = SegOf(w, buf[i].data)
  BY <1>5, <1>6
<1>8. n + Len(queue2) = Len(w)
  <2>1. n + (q + c) = l + c
    BY <1>2
  <2>2. Len(w) = l + c
    BY <1>1 DEF Written
  <2> QED
    BY <1>3, <2>1, <2>2
<1>9. Len(buf) + Len(queue2) <= SndWnd
  <2>1. b + q + c <= SndWnd
    BY <1>1
  <2>2. b + (q + c) <= SndWnd
    BY ONLY <2>1, Constants, b \in Nat, q \in Nat, c \in Nat
  <2> QED
    BY <1>1, <1>3, <2>2
<1>10. \A i \in 1..Len(queue2) : queue2[i] = w[n + i]
  BY <1>3, <1>4
<1> QED
  BY ONLY <1>3, <1>6, <1>7, <1>8, <1>9, <1>10, n \in Nat, Zenon DEF SenderOK

\* poll of the sender.
LEMMA PollSenderKeeps ==
  ASSUME HalfTurn, IInv, NEW sure, PollSender(sure)
  PROVE  IInv'
<1>1. PICK w : w = written' /\ w = written
  BY DEF PollSender
<1>2. Whole(w) /\ Continues(written, w, Len(written))
  BY <1>1 DEF IInv, Continues
<1>3. /\ SenderOK(w, Numbered, sndQueue, sndBuf, sndUna, sndNxt)
      /\ KeptOK(Numbered, sndBuf, Receiver, Len(read)) /\ rmtWnd \in Wnds
  BY <1>1 DEF IInv
<1>4. FlushSender(sndQueue, sndBuf, sndUna, rmtWnd, net, sure) /\ UNCHANGED <<rcvVars, read>>
  BY DEF PollSender
<1>5. net \in SUBSET net
  OBVIOUS
<1> QED
  BY <1>1, <1>2, <1>3, <1>4, <1>5, SenderStep

\* send of a message.
LEMMA SendKeeps ==
  ASSUME HalfTurn, IInv, NEW count \in Fragments, Send(count)
  PROVE  IInv'
<1> DEFINE frgs == [i \in 1..count |-> count - i]
           w == written \o frgs
           queue2 == sndQueue \o frgs
<1>1. w = written' /\ FlushSender(queue2, sndBuf, sndUna, rmtWnd, net, {})
  BY DEF Send
<1>2. count \in Nat \ {0} /\ Message(written, count, frgs, w) /\ Whole(written)
  BY Constants DEF Send, IInv, Message
<1>3. queue2 = sndQueue \o frgs
  OBVIOUS
<1> HIDE DEF frgs, w, queue2
<1>4. Written(written, frgs, w) /\ Len(frgs) = count
  BY <1>2, WholeGrows
<1>5. /\ SenderOK(written, Numbered, sndQueue, sndBuf, sndUna, sndNxt)
      /\ KeptOK(Numbered, sndBuf, Receiver, Len(read)) /\ rmtWnd \in Wnds
  BY DEF IInv
<1>6. Len(sndBuf) + Len(sndQueue) + Len(frgs) <= SndWnd
  BY <1>4 DEF Send, WaitSnd
<1>7. Numbered \in Nat
  BY InvariantTypes
<1>8. SenderOK(w, Numbered, queue2, sndBuf, sndUna, sndNxt)
  BY <1>2, <1>3, <1>4, <1>5, <1>6, <1>7, QueueGrows
<1>9. UNCHANGED <<rcvVars, read>> /\ net \in SUBSET net
  BY DEF Send
<1>10. Whole(w) /\ Continues(written, w, Len(written))
  BY <1>4 DEF Written
<1> QED
  BY <1>1, <1>5, <1>8, <1>9, <1>10, SenderStep

\* What the receiver has may leave the buffer.
LEMMA KeptStays ==
  ASSUME NEW n, NEW buf, NEW buf2, NEW st, NEW r, KeptOK(n, buf, st, r),
         \A i \in 1..Len(buf) : (\E j \in 1..Len(buf2) : buf2[j] = buf[i]) \/ Holds(st, r, buf[i].data)
  PROVE  KeptOK(n, buf2, st, r)
BY Zenon DEF KeptOK

\* shrink_buf gives the number of the oldest outstanding segment.
LEMMA ShrinkIsFirst ==
  ASSUME NEW w, NEW n, NEW queue, NEW buf, NEW una, SenderOK(w, n, queue, buf, una, sndNxt)
  PROVE  ShrinkBuf(buf) = Sn(First(buf, n))
<1>1. CASE buf = <<>>
  BY <1>1 DEF ShrinkBuf, First, SenderOK
<1>2. CASE buf # <<>>
  <2>1. 1 \in 1..Len(buf)
    BY <1>2 DEF SenderOK
  <2>2. buf[1] = SegOf(w, buf[1].data)
    BY <2>1 DEF SenderOK
  <2>3. buf[1].sn = Sn(buf[1].data)
    BY <2>2 DEF SegOf, Segment
  <2> QED
    BY <1>2, <2>3 DEF ShrinkBuf, First
<1> QED
  BY <1>1, <1>2

\* The news a packet to the sender carries: the receiver has come to a, and has
\* the segment of the number acknowledged.
News(p, a, wnd, n, st, r) ==
  /\ p.una = Sn(a) /\ p.wnd = wnd
  /\ p.cmd = "ACK" => \E d \in 1..n : p.sn = Sn(d) /\ Holds(st, r, d)

\* Such a packet is one the receiver sent.
LEMMA PacketNews ==
  ASSUME NEW p, NEW w, NEW n, NEW st, NEW r, PacketOK(p, w, n, st, r), p.cmd \in {"ACK", "WINS"}
  PROVE  \E a \in 1..(Pos(st, r) + 1), wnd \in 0..RcvWnd : News(p, a, wnd, n, st, r)
<1>1. ~ \E d \in 1..n : p = Push(SegOf(w, d))
  BY DEF Push
<1>2. p # Wask
  BY DEF Wask
<1>3. CASE \E d \in 1..n, a \in 1..(Pos(st, r) + 1), wnd \in 0..RcvWnd :
             p = Ack(Sn(d), Sn(a), wnd) /\ Holds(st, r, d)
  <2>1. PICK d \in 1..n, a \in 1..(Pos(st, r) + 1), wnd \in 0..RcvWnd :
             p = Ack(Sn(d), Sn(a), wnd) /\ Holds(st, r, d)
    BY <1>3
  <2>2. p.una = Sn(a) /\ p.wnd = wnd /\ p.sn = Sn(d)
    BY ONLY <2>1 DEF Ack
  <2>3. News(p, a, wnd, n, st, r)
    BY <2>1, <2>2 DEF News
  <2> QED
    BY <2>3, Zenon
<1>4. CASE \E a \in 1..(Pos(st, r) + 1), wnd \in 0..RcvWnd : p = Wins(Sn(a), wnd)
  <2>1. PICK a \in 1..(Pos(st, r) + 1), wnd \in 0..RcvWnd : p = Wins(Sn(a), wnd)
    BY <1>4
  <2>2. p.una = Sn(a) /\ p.wnd = wnd /\ p.cmd = "WINS"
    BY ONLY <2>1 DEF Wins
  <2>3. News(p, a, wnd, n, st, r)
    BY <2>1, <2>2 DEF News
  <2> QED
    BY <2>3, Zenon
<1> QED
  BY <1>1, <1>2, <1>3, <1>4, Zenon DEF PacketOK

\* input of an acknowledgement or of a window.
LEMMA RecvAckKeeps ==
  ASSUME HalfTurn, IInv, NEW p \in net, RecvAck(p)
  PROVE  IInv'
<1> DEFINE n == Numbered
           r == Len(read)
           st == Receiver
           w == written
           una == sndUna
           queue == sndQueue
           afterUna == ParseUna(sndBuf, p.una)
           inRange == /\ p.cmd = "ACK"
                      /\ TimeDiff(p.sn, ShrinkBuf(afterUna)) >= 0
                      /\ TimeDiff(p.sn, sndNxt) < 0
           after == IF inRange THEN ParseAck(afterUna, p.sn) ELSE afterUna
<1>1. /\ p.cmd \in {"ACK", "WINS"} /\ w = written' /\ UNCHANGED <<rcvVars, read>>
      /\ FlushSender(queue, after, ShrinkBuf(after), p.wnd, net \ {p}, {})
  BY DEF RecvAck
<1>2. /\ Whole(w) /\ SenderOK(w, n, queue, sndBuf, una, sndNxt)
      /\ KeptOK(n, sndBuf, st, r) /\ PacketOK(p, w, n, st, r)
  BY DEF IInv
<1>3. n \in Nat /\ Pos(st, r) \in Nat /\ Pos(st, r) <= n
  BY InvariantTypes
<1>4. n = Numbered /\ r = Len(read) /\ st = Receiver
  OBVIOUS
<1>5. Continues(written, w, Len(written)) /\ w = written
  BY DEF Continues
<1> HIDE DEF n, r, st, w, una, queue
<1>6. PICK a \in 1..(Pos(st, r) + 1), wnd \in 0..RcvWnd : News(p, a, wnd, n, st, r)
  BY <1>1, <1>2, PacketNews
<1>7. a \in 1..(n + 1) /\ p.una = Sn(a) /\ p.wnd \in Wnds
  BY <1>3, <1>6 DEF News, Wnds
<1>8. Thinned(w, n, queue, sndBuf, afterUna, sndNxt, LAMBDA d : d < a)
  <2>1. afterUna = ParseUna(sndBuf, Sn(a))
    BY <1>7
  <2> HIDE DEF afterUna
  <2> QED
    BY <1>2, <1>3, <1>7, <2>1, UnaRemoves
<1> DEFINE una2 == Sn(First(afterUna, n))
<1>9. SenderOK(w, n, queue, afterUna, una2, sndNxt)
  BY <1>8 DEF Thinned
<1>10. KeptOK(n, afterUna, st, r)
  <2> HIDE DEF afterUna, una2
  <2>1. ASSUME NEW i \in 1..Len(sndBuf)
        PROVE  (\E j \in 1..Len(afterUna) : afterUna[j] = sndBuf[i]) \/ Holds(st, r, sndBuf[i].data)
    <3>1. sndBuf[i].data \in 1..n
      BY <1>2 DEF SenderOK
    <3>2. (\E j \in 1..Len(afterUna) : afterUna[j] = sndBuf[i]) \/ sndBuf[i].data < a
      BY <1>8 DEF Thinned
    <3>3. sndBuf[i].data < a => Holds(st, r, sndBuf[i].data)
      BY <1>3, <1>6, <3>1 DEF Holds
    <3> QED
      BY <3>2, <3>3
  <2> QED
    BY <1>2, <2>1, KeptStays
<1>11. SenderOK(w, n, queue, after, Sn(First(after, n)), sndNxt) /\ KeptOK(n, after, st, r)
  <2>1. CASE ~ inRange
    <3>1. after = afterUna
      BY <2>1
    <3> HIDE DEF after, afterUna
    <3> QED
      BY <1>9, <1>10, <3>1
  <2>2. CASE inRange
    <3>1. PICK d \in 1..n : p.sn = Sn(d) /\ Holds(st, r, d)
      BY <1>6, <2>2 DEF News
    <3>2. after = ParseAck(afterUna, Sn(d))
      BY <2>2, <3>1
    <3> HIDE DEF after, afterUna, una2, inRange
    <3>3. Thinned(w, n, queue, afterUna, after, sndNxt, LAMBDA e : e = d)
      BY <1>2, <1>3, <1>9, <3>2, AckRemoves
    <3>4. SenderOK(w, n, queue, after, Sn(First(after, n)), sndNxt)
      BY <3>3 DEF Thinned
    <3>5. \A i \in 1..Len(afterUna) :
            (\E j \in 1..Len(after) : after[j] = afterUna[i]) \/ Holds(st, r, afterUna[i].data)
      BY <3>1, <3>3 DEF Thinned
    <3>6. KeptOK(n, after, st, r)
      BY <1>10, <3>5, KeptStays
    <3> QED
      BY <3>4, <3>6
  <2> QED
    BY <2>1, <2>2
<1> HIDE DEF after, afterUna, una2, inRange
<1>12. ShrinkBuf(after) = Sn(First(after, n))
  BY <1>11, ShrinkIsFirst
<1>13. SenderOK(w, n, queue, after, ShrinkBuf(after), sndNxt) /\ net \ {p} \in SUBSET net
  BY <1>11, <1>12
<1> QED
  BY <1>1, <1>2, <1>4, <1>5, <1>7, <1>11, <1>13, SenderStep

-----------------------------------------------------------------------------
(* Steps of the receiver. *)

\* A receiver t that counts from r2 has what st, counting from r, has.
Further(st, r, t, r2) ==
  /\ Pos(st, r) \in Nat /\ Pos(t, r2) \in Nat /\ Pos(st, r) <= Pos(t, r2)
  /\ \A d \in Nat : Holds(st, r, d) => Holds(t, r2, d)

\* Once what was read is handed over, counting begins behind it.
LEMMA Rebase ==
  ASSUME NEW w, NEW n \in Nat, NEW r \in Nat, NEW t, ReceiverOK(t, w, n, r),
         NEW u, u = [t EXCEPT !.out = <<>>], NEW r2 \in Nat, r2 = r + Len(t.out)
  PROVE  ReceiverOK(u, w, n, r2) /\ Further(t, r, u, r2)
<1>1. t \in RcvRec /\ <<>> \in Seq(SegRec)
  BY DEF ReceiverOK
<1>2. u \in RcvRec /\ u.buf = t.buf /\ u.queue = t.queue /\ u.nxt = t.nxt /\ u.out = <<>>
  BY ONLY <1>1, u = [t EXCEPT !.out = <<>>] DEF RcvRec
<1>3. PICK p \in Nat, q \in Nat : p = Pos(t, r) /\ q = Len(t.queue)
  BY ReceiverTypes
<1>4. Len(u.out) = 0
  BY <1>2
<1>5. p = r2 + q
  BY <1>3 DEF Pos
<1>6. Pos(u, r2) = r2 + 0 + q
  BY <1>2, <1>3, <1>4 DEF Pos
<1>7. Pos(u, r2) = p
  BY <1>5, <1>6
<1>8. \A i \in 1..q : u.queue[i] = SegOf(w, r2 + 0 + i)
  <2> SUFFICES ASSUME NEW i \in 1..q PROVE u.queue[i] = SegOf(w, r2 + 0 + i)
    OBVIOUS
  <2>1. u.queue[i] = SegOf(w, r2 + i)
    BY <1>2, <1>3 DEF ReceiverOK
  <2>2. r2 + i = r2 + 0 + i
    OBVIOUS
  <2> QED
    BY <2>1, <2>2
<1>9. /\ Len(u.queue) <= RcvWnd /\ u.nxt = Sn(p + 1) /\ p <= n
      /\ \A s \in u.buf :
           s.data \in (p + 1)..n /\ s.data <= p + RcvWnd /\ s = SegOf(w, s.data)
  BY <1>2, <1>3 DEF ReceiverOK
<1>10. \A i \in 1..Len(u.queue) : u.queue[i] = SegOf(w, r2 + Len(u.out) + i)
  BY <1>2, <1>3, <1>4, <1>8
<1>11. ReceiverOK(u, w, n, r2)
  BY <1>2, <1>4, <1>7, <1>9, <1>10 DEF ReceiverOK
<1>12. Further(t, r, u, r2)
  BY <1>2, <1>3, <1>7 DEF Further, Holds
<1> QED
  BY <1>11, <1>12

\* The r segments rd were read, and with those that t hands over rd2.
ReadMore(rd, r, t, rd2) == r = Len(rd) /\ rd2 = rd \o t.out

\* What is read continues what was read, in whole messages.
LEMMA ReadGrows ==
  ASSUME NEW w, NEW n \in Nat, NEW rd, ReadOK(w, rd), NEW r \in Nat,
         NEW t, ReceiverOK(t, w, n, r), NEW rd2, ReadMore(rd, r, t, rd2)
  PROVE  ReadOK(w, rd2) /\ Len(rd2) = r + Len(t.out)
<1>1. PICK out : out = t.out /\ out \in Seq(SegRec)
  BY ReceiverTypes
<1>2. rd \in Seq(SegRec) /\ rd2 = rd \o out /\ r = Len(rd)
  BY <1>1 DEF ReadOK, ReadMore
<1>3. PICK o \in Nat : o = Len(out)
  BY <1>1
<1>4. /\ rd2 \in Seq(SegRec) /\ Len(rd2) = r + o
      /\ \A i \in 1..r : rd2[i] = rd[i]
      /\ \A i \in 1..o : rd2[r + i] = out[i]
  <2>1. /\ rd2 \in Seq(SegRec) /\ Len(rd2) = Len(rd) + Len(out)
        /\ \A i \in 1..Len(rd) : rd2[i] = rd[i]
        /\ \A i \in 1..Len(out) : rd2[Len(rd) + i] = out[i]
    <3>1. rd \in Seq(SegRec) /\ out \in Seq(SegRec) /\ rd2 = rd \o out
      BY <1>1, <1>2
    <3> QED
      BY ONLY <3>1, SMT
  <2> QED
    BY <1>2, <1>3, <2>1
<1>5. \A i \in 1..r : rd[i] = SegOf(w, i)
  BY <1>2 DEF ReadOK
<1>6. \A i \in 1..o : out[i] = SegOf(w, r + i)
  BY <1>1, <1>3 DEF ReceiverOK
<1>7. ASSUME NEW i \in 1..(r + o) PROVE rd2[i] = SegOf(w, i)
  <2>1. CASE i \in 1..r
    BY <1>4, <1>5, <2>1
  <2>2. CASE i \notin 1..r
    <3>1. PICK j \in 1..o : i = r + j
      BY <2>2
    <3>2. rd2[r + j] = SegOf(w, r + j)
      BY <1>4, <1>6
    <3> QED
      BY <3>1, <3>2
  <2> QED
    BY <2>1, <2>2
<1>8. r + o > 0 => w[r + o] = 0
  <2>1. CASE o > 0
    BY <1>1, <1>3, <2>1 DEF ReceiverOK
  <2>2. CASE ~ (o > 0)
    <3>1. r + o = r
      BY <2>2
    <3> QED
      BY <1>2, <3>1 DEF ReadOK
  <2> QED
    BY <2>1, <2>2
<1> QED
  BY <1>1, <1>3, <1>4, <1>7, <1>8 DEF ReadOK

\* A packet stays true of a receiver that has come further.
LEMMA PacketFollows ==
  ASSUME NEW w, NEW n \in Nat, NEW st, NEW r, NEW t, NEW r2, Further(st, r, t, r2),
         NEW p, PacketOK(p, w, n, st, r)
  PROVE  PacketOK(p, w, n, t, r2)
<1>1. \A a \in 1..(Pos(st, r) + 1) : a \in 1..(Pos(t, r2) + 1)
  BY DEF Further
<1>2. \A d \in 1..n : Holds(st, r, d) => Holds(t, r2, d)
  <2>1. \A d \in 1..n : d \in Nat
    OBVIOUS
  <2> QED
    BY <2>1, Zenon DEF Further
<1> QED
  BY <1>1, <1>2, Zenon DEF PacketOK

\* Likewise for what the sender has let go.
LEMMA KeptFollows ==
  ASSUME NEW n \in Nat, NEW st, NEW r, NEW t, NEW r2, Further(st, r, t, r2),
         NEW buf, KeptOK(n, buf, st, r)
  PROVE  KeptOK(n, buf, t, r2)
<1>1. \A d \in 1..n : d \in Nat
  OBVIOUS
<1> QED
  BY <1>1, Zenon DEF KeptOK, Further

\* Going on is to come further.
LEMMA GoesFurther ==
  ASSUME NEW w, NEW n \in Nat, NEW r \in Nat, NEW st, ReceiverOK(st, w, n, r),
         NEW t, Goes(st, t, w, n, r)
  PROVE  Further(st, r, t, r)
<1>1. ReceiverOK(t, w, n, r) /\ Keeps(st, t, r)
  BY DEF Goes
<1>2. Pos(st, r) \in Nat /\ Pos(t, r) \in Nat
  BY <1>1, ReceiverTypes
<1> QED
  BY <1>1, <1>2 DEF Further, Keeps

\* And to come further twice is to come further.
LEMMA FurtherOn ==
  ASSUME NEW x, NEW rx, NEW y, NEW ry, NEW z, NEW rz, Further(x, rx, y, ry), Further(y, ry, z, rz)
  PROVE  Further(x, rx, z, rz)
BY DEF Further

\* flush of the receiver tells what it has.
LEMMA FlushReceiverKeeps ==
  ASSUME NEW w, NEW n \in Nat, NEW r \in Nat, NEW st, ReceiverOK(st, w, n, r),
         NEW acked, \A sn \in acked : \E d \in 1..n : sn = Sn(d) /\ Holds(st, r, d),
         NEW rest, NEW sure, FlushReceiver(st, acked, rest, sure)
  PROVE  \A p \in net' : p \in rest \/ PacketOK(p, w, n, st, r)
<1> USE Constants
<1> DEFINE wnd == WndUnused(st.queue)
           acks == {Ack(sn, st.nxt, wnd) : sn \in acked}
           told == IF st.tell THEN {Wins(st.nxt, wnd)} ELSE {}
<1>1. \E must : Transmit(rest, acks \cup told, must)
  BY DEF FlushReceiver
<1>2. net' \subseteq rest \cup acks \cup told
  <2> HIDE DEF acks, told
  <2> QED
    BY <1>1 DEF Transmit
<1>3. wnd \in 0..RcvWnd
  <2>1. Len(st.queue) \in Nat
    BY ReceiverTypes
  <2> QED
    BY <2>1 DEF WndUnused
<1>4. PICK a \in 1..(Pos(st, r) + 1) : st.nxt = Sn(a)
  <2>1. Pos(st, r) \in Nat /\ st.nxt = Sn(Pos(st, r) + 1)
    BY ReceiverTypes DEF ReceiverOK
  <2>2. Pos(st, r) + 1 \in 1..(Pos(st, r) + 1)
    BY <2>1
  <2> QED
    BY <2>1, <2>2
<1> HIDE DEF wnd
<1>5. ASSUME NEW p \in acks PROVE PacketOK(p, w, n, st, r)
  <2>1. PICK sn \in acked : p = Ack(sn, st.nxt, wnd)
    OBVIOUS
  <2>2. PICK d \in 1..n : sn = Sn(d) /\ Holds(st, r, d)
    BY <2>1
  <2>3. p = Ack(Sn(d), Sn(a), wnd)
    BY <1>4, <2>1, <2>2
  <2> QED
    BY <1>3, <1>4, <2>2, <2>3, Zenon DEF PacketOK
<1>6. ASSUME NEW p \in told PROVE PacketOK(p, w, n, st, r)
  <2>1. p = Wins(Sn(a), wnd)
    BY <1>4
  <2> QED
    BY <1>3, <1>4, <2>1, Zenon DEF PacketOK
<1> HIDE DEF acks, told
<1> QED
  BY <1>2, <1>5, <1>6

\* The invariant follows for a receiver that has come further while the sender
\* stays as it is.
LEMMA ReceiverMoves ==
  ASSUME IInv, UNCHANGED <<sndVars, written>>, NEW u, u = Receiver', NEW r2 \in Nat, r2 = Len(read'),
         ReadOK(written, read'), ReceiverOK(u, written, Numbered, r2),
         NEW st, NEW rest \in SUBSET net, Further(Receiver, Len(read), u, r2),
         NEW r, Further(st, r, u, r2),
         \A p \in net' : p \in rest \/ PacketOK(p, written, Numbered, st, r)
  PROVE  IInv'
<1>1. Numbered' = Numbered /\ written' = written /\ Numbered \in Nat
  BY InvariantTypes DEF Numbered, sndVars
<1>2. /\ Whole(written) /\ SenderOK(written, Numbered, sndQueue, sndBuf, sndUna, sndNxt)
      /\ rmtWnd \in Wnds /\ probing \in BOOLEAN
      /\ KeptOK(Numbered, sndBuf, Receiver, Len(read))
      /\ \A p \in net : PacketOK(p, written, Numbered, Receiver, Len(read))
  BY DEF IInv
<1>3. KeptOK(Numbered, sndBuf, u, r2)
  BY <1>1, <1>2, KeptFollows
<1>4. ASSUME NEW p \in net' PROVE PacketOK(p, written, Numbered, u, r2)
  <2>1. CASE p \in rest
    <3>1. PacketOK(p, written, Numbered, Receiver, Len(read))
      BY <1>2, <2>1
    <3> QED
      BY <1>1, <3>1, PacketFollows
  <2>2. CASE PacketOK(p, written, Numbered, st, r)
    BY <1>1, <2>2, PacketFollows
  <2> QED
    BY <2>1, <2>2
<1>5. /\ sndQueue' = sndQueue /\ sndBuf' = sndBuf /\ sndUna' = sndUna /\ sndNxt' = sndNxt
      /\ rmtWnd' = rmtWnd /\ probing' = probing
  BY DEF sndVars
<1> QED
  BY <1>1, <1>2, <1>3, <1>4, <1>5 DEF IInv

\* The input of a packet, from the state st of the receiver before its flush.
LEMMA ReceiverStep ==
  ASSUME HalfTurn, IInv, UNCHANGED <<sndVars, written>>,
         NEW st, Goes(Receiver, st, written, Numbered, Len(read)),
         NEW acked, \A sn \in acked : \E d \in 1..Numbered : sn = Sn(d) /\ Holds(st, Len(read), d),
         NEW rest \in SUBSET net, NEW sure, FlushReceiver(st, acked, rest, sure), FinishInput(st)
  PROVE  IInv' /\ Len(read) <= Len(read')
<1> DEFINE n == Numbered
           r == Len(read)
           w == written
           mid == [st EXCEPT !.tell = FALSE]
           after == RecvMessages(mid)
           u == [after EXCEPT !.out = <<>>]
           r2 == r + Len(after.out)
<1>1. /\ Whole(w) /\ ReadOK(w, read) /\ ReceiverOK(Receiver, w, n, r)
      /\ n \in Nat /\ n <= Len(w) /\ r \in Nat
  BY InvariantTypes DEF IInv
<1>2. ReceiverOK(st, w, n, r) /\ Goes(Receiver, st, w, n, r)
  BY DEF Goes
<1>3. /\ rcvBuf' = after.buf /\ rcvQueue' = after.queue /\ rcvNxt' = after.nxt
      /\ tell' = after.tell /\ read' = read \o after.out
  BY DEF FinishInput
<1>4. r = Len(read) /\ w = written /\ n = Numbered /\ mid = [st EXCEPT !.tell = FALSE]
      /\ after = RecvMessages(mid) /\ u = [after EXCEPT !.out = <<>>] /\ r2 = r + Len(after.out)
  OBVIOUS
<1> HIDE DEF n, r, w, mid, after, u, r2
<1>5. Goes(st, mid, w, n, r) /\ ReceiverOK(mid, w, n, r)
  <2>1. FALSE \in BOOLEAN
    OBVIOUS
  <2>2. Goes(st, mid, w, n, r)
    BY <1>1, <1>2, <1>4, <2>1, TellIsApart
  <2> QED
    BY <2>2 DEF Goes
<1>6. Goes(mid, after, w, n, r) /\ ReceiverOK(after, w, n, r)
  <2>1. Goes(mid, after, w, n, r)
    BY <1>1, <1>4, <1>5, RecvMessagesKeeps
  <2> QED
    BY <2>1 DEF Goes
<1>7. Goes(st, after, w, n, r)
  BY <1>1, <1>2, <1>5, <1>6, GoesOn
<1>8. r2 \in Nat /\ r <= r2
  <2>1. Len(after.out) \in Nat
    BY <1>1, <1>6, ReceiverTypes
  <2> QED
    BY <1>1, <1>4, <2>1
<1>9. ReceiverOK(u, w, n, r2) /\ Further(after, r, u, r2)
  BY <1>1, <1>4, <1>6, <1>8, Rebase
<1>10. Further(st, r, u, r2) /\ Further(Receiver, r, u, r2)
  <2>1. Further(Receiver, r, st, r) /\ Further(st, r, after, r)
    BY <1>1, <1>2, <1>7, GoesFurther
  <2> QED
    BY <1>9, <2>1, FurtherOn
<1>11. u = Receiver'
  <2>1. after \in RcvRec
    BY <1>6 DEF ReceiverOK
  <2>2. u = [buf |-> after.buf, queue |-> after.queue, nxt |-> after.nxt,
             tell |-> after.tell, out |-> <<>>]
    BY ONLY <1>4, <2>1 DEF RcvRec
  <2> QED
    BY <1>3, <2>2 DEF Receiver
<1>12. ReadOK(w, read') /\ r2 = Len(read')
  <2> DEFINE rd2 == read \o after.out
  <2>1. read' = rd2 /\ rd2 = read \o after.out
    BY <1>3
  <2> HIDE DEF rd2
  <2>2. ReadOK(w, rd2) /\ Len(rd2) = r + Len(after.out)
    <3>1. ReadMore(read, r, after, rd2)
      BY <1>4, <2>1 DEF ReadMore
    <3> QED
      BY ONLY <1>1, <1>6, <3>1, ReadGrows
  <2> QED
    BY <1>4, <2>1, <2>2
<1>13. \A p \in net' : p \in rest \/ PacketOK(p, w, n, st, r)
  <2>1. \A sn \in acked : \E d \in 1..n : sn = Sn(d) /\ Holds(st, r, d)
    BY <1>4
  <2> QED
    BY <1>1, <1>2, <2>1, FlushReceiverKeeps
<1>14. IInv'
  BY <1>4, <1>8, <1>9, <1>10, <1>11, <1>12, <1>13, ReceiverMoves
<1>15. Len(read) <= Len(read')
  BY ONLY <1>4, <1>8, <1>12
<1> QED
  BY <1>14, <1>15

\* input of a segment.
LEMMA RecvPushKeeps ==
  ASSUME HalfTurn, IInv, NEW p \in net, NEW sure, RecvPush(p, sure)
  PROVE  IInv' /\ Len(read) <= Len(read')
<1> DEFINE n == Numbered
           r == Len(read)
           w == written
           ok == InWindow(p.seg.sn, rcvNxt)
           st == IF ok THEN ParseData(Receiver, p.seg) ELSE Receiver
           acked == IF ok THEN {p.seg.sn} ELSE {}
<1>1. /\ p.cmd = "PUSH" /\ FlushReceiver(st, acked, net \ {p}, sure) /\ FinishInput(st)
      /\ UNCHANGED <<sndVars, written>> /\ net \ {p} \in SUBSET net
  BY DEF RecvPush
<1>2. /\ Whole(w) /\ ReceiverOK(Receiver, w, n, r) /\ n \in Nat /\ n <= Len(w) /\ r \in Nat
      /\ PacketOK(p, w, n, Receiver, r)
  BY InvariantTypes DEF IInv
<1>3. n = Numbered /\ r = Len(read) /\ w = written
  OBVIOUS
<1> HIDE DEF n, r, w
<1>4. PICK d \in 1..n : p = Push(SegOf(w, d))
  <2>1. p # Wask
    BY <1>1 DEF Wask
  <2>2. ~ \E d \in 1..n, a \in 1..(Pos(Receiver, r) + 1), wnd \in 0..RcvWnd :
            p = Ack(Sn(d), Sn(a), wnd) /\ Holds(Receiver, r, d)
    BY <1>1 DEF Ack
  <2>3. ~ \E a \in 1..(Pos(Receiver, r) + 1), wnd \in 0..RcvWnd : p = Wins(Sn(a), wnd)
    BY <1>1 DEF Wins
  <2> QED
    BY <1>2, <2>1, <2>2, <2>3, Zenon DEF PacketOK
<1>5. p.seg = SegOf(w, d) /\ p.seg.sn = Sn(d)
  BY <1>4 DEF Push, SegOf, Segment
<1>6. Receiver.nxt = rcvNxt
  BY DEF Receiver
<1>7. Goes(Receiver, st, w, n, r) /\ \A sn \in acked : \E e \in 1..n : sn = Sn(e) /\ Holds(st, r, e)
  <2>1. CASE ok
    <3>1. st = ParseData(Receiver, SegOf(w, d)) /\ InWindow(Sn(d), Receiver.nxt) /\ acked = {Sn(d)}
      BY <1>5, <1>6, <2>1
    <3> HIDE DEF st, ok, acked
    <3>2. Goes(Receiver, st, w, n, r) /\ Holds(st, r, d)
      BY <1>2, <3>1, ParseDataKeeps
    <3> QED
      BY <3>1, <3>2
  <2>2. CASE ~ ok
    <3>1. st = Receiver /\ acked = {}
      BY <2>2
    <3> HIDE DEF st, ok, acked
    <3> QED
      BY <1>2, <3>1, GoesNowhere
  <2> QED
    BY <2>1, <2>2
<1> HIDE DEF st, ok, acked
<1> QED
  BY <1>1, <1>3, <1>7, ReceiverStep

\* input of a probe.
LEMMA RecvWaskKeeps ==
  ASSUME HalfTurn, IInv, NEW p \in net, NEW sure, RecvWask(p, sure)
  PROVE  IInv' /\ Len(read) <= Len(read')
<1> DEFINE st == [Receiver EXCEPT !.tell = TRUE]
<1>1. /\ FlushReceiver(st, {}, net \ {p}, sure) /\ FinishInput(st)
      /\ UNCHANGED <<sndVars, written>> /\ net \ {p} \in SUBSET net
  BY DEF RecvWask
<1>2. ReceiverOK(Receiver, written, Numbered, Len(read)) /\ Numbered \in Nat /\ Len(read) \in Nat
  BY InvariantTypes DEF IInv
<1>3. st = [Receiver EXCEPT !.tell = TRUE] /\ TRUE \in BOOLEAN
  OBVIOUS
<1> HIDE DEF st
<1>4. Goes(Receiver, st, written, Numbered, Len(read))
  BY <1>2, <1>3, TellIsApart
<1> DEFINE acked == {}
<1>5. /\ \A sn \in acked : \E d \in 1..Numbered : sn = Sn(d) /\ Holds(st, Len(read), d)
      /\ FlushReceiver(st, acked, net \ {p}, sure)
  BY <1>1
<1> HIDE DEF acked
<1> QED
  BY <1>1, <1>4, <1>5, ReceiverStep

\* poll of the receiver.
LEMMA PollReceiverKeeps ==
  ASSUME HalfTurn, IInv, PollReceiver
  PROVE  IInv'
<1> DEFINE u == [Receiver EXCEPT !.tell = FALSE]
           acked == {}
<1>1. /\ FlushReceiver(Receiver, acked, net, FALSE) /\ tell' = FALSE /\ read' = read
      /\ rcvBuf' = rcvBuf /\ rcvQueue' = rcvQueue /\ rcvNxt' = rcvNxt
      /\ UNCHANGED <<sndVars, written>> /\ net \in SUBSET net
  BY DEF PollReceiver
<1>2. /\ ReceiverOK(Receiver, written, Numbered, Len(read)) /\ ReadOK(written, read)
      /\ Numbered \in Nat /\ Len(read) \in Nat
  BY InvariantTypes DEF IInv
<1>3. u = Receiver' /\ u = [Receiver EXCEPT !.tell = FALSE] /\ FALSE \in BOOLEAN
  <2>1. Receiver' = [buf |-> rcvBuf', queue |-> rcvQueue', nxt |-> rcvNxt', tell |-> tell',
                     out |-> <<>>]
    BY DEF Receiver
  <2>2. u = [buf |-> rcvBuf, queue |-> rcvQueue, nxt |-> rcvNxt, tell |-> FALSE, out |-> <<>>]
    <3>1. Receiver \in RcvRec
      BY <1>2 DEF ReceiverOK
    <3>2. u = [buf |-> Receiver.buf, queue |-> Receiver.queue, nxt |-> Receiver.nxt,
               tell |-> FALSE, out |-> Receiver.out]
      <4>1. PICK x \in RcvRec : x = Receiver
        BY <3>1
      <4>2. PICK b \in BOOLEAN : b = FALSE
        OBVIOUS
      <4>3. [x EXCEPT !.tell = b] = [buf |-> x.buf, queue |-> x.queue, nxt |-> x.nxt,
                                     tell |-> b, out |-> x.out]
        BY ONLY x \in RcvRec, b \in BOOLEAN DEF RcvRec
      <4> QED
        BY <4>1, <4>2, <4>3
    <3>3. /\ Receiver.buf = rcvBuf /\ Receiver.queue = rcvQueue /\ Receiver.nxt = rcvNxt
          /\ Receiver.out = <<>>
      BY DEF Receiver
    <3> QED
      BY <3>2, <3>3
  <2> QED
    BY <1>1, <2>1, <2>2
<1>4. \A sn \in acked : \E d \in 1..Numbered : sn = Sn(d) /\ Holds(Receiver, Len(read), d)
  OBVIOUS
<1> HIDE DEF u, acked
<1>5. Goes(Receiver, u, written, Numbered, Len(read))
  BY <1>2, <1>3, TellIsApart
<1>6. ReceiverOK(u, written, Numbered, Len(read)) /\ Further(Receiver, Len(read), u, Len(read))
  BY <1>2, <1>5, GoesFurther DEF Goes
<1>7. \A p \in net' : p \in net \/ PacketOK(p, written, Numbered, Receiver, Len(read))
  BY <1>1, <1>2, <1>4, FlushReceiverKeeps
<1>8. ReadOK(written, read') /\ Len(read) = Len(read')
  BY <1>1, <1>2
<1> QED
  BY <1>1, <1>2, <1>3, <1>6, <1>7, <1>8, ReceiverMoves

-----------------------------------------------------------------------------
(* The theorems. *)

\* The invariant holds at the start.
LEMMA InitHolds ==
  ASSUME Init
  PROVE  IInv
<1> USE Constants
<1>1. /\ sndQueue = <<>> /\ sndBuf = <<>> /\ sndUna = FirstSn /\ sndNxt = FirstSn
      /\ rmtWnd = OwnWnd /\ probing = FALSE
      /\ rcvBuf = {} /\ rcvQueue = <<>> /\ rcvNxt = FirstSn /\ tell = FALSE
      /\ net = {} /\ written = <<>> /\ read = <<>>
  BY DEF Init
<1>2. Len(<<>>) = 0 /\ (\A i : i \notin 1..0) /\ <<>> \in Seq(Nat) /\ <<>> \in Seq(SegRec)
  OBVIOUS
<1>3. Sn(1) = FirstSn
  <2>1. FirstSn + (1 - 1) = FirstSn /\ FirstSn \in 0..(SnMod - 1) /\ FirstSn \in Int
    OBVIOUS
  <2>2. FirstSn % SnMod = FirstSn
    BY <2>1, ModNear
  <2> QED
    BY <2>1, <2>2 DEF Sn, Add
<1>4. Numbered = 0
  BY <1>1, <1>2 DEF Numbered
<1>5. Whole(written) /\ ReadOK(written, read)
  BY <1>1, <1>2 DEF Whole, ReadOK
<1>6. SenderOK(written, 0, sndQueue, sndBuf, sndUna, sndNxt)
  <2>1. First(sndBuf, 0) = 1
    BY <1>1 DEF First
  <2> QED
    BY <1>1, <1>2, <1>3, <2>1 DEF SenderOK
<1>7. ReceiverOK(Receiver, written, 0, 0)
  <2>1. /\ Receiver.queue = <<>> /\ Receiver.out = <<>> /\ Receiver.buf = {}
        /\ Receiver.nxt = FirstSn
    BY <1>1 DEF Receiver
  <2>2. Receiver \in RcvRec
    BY <1>1, <1>2 DEF Receiver, RcvRec
  <2>3. Pos(Receiver, 0) = 0
    BY <1>2, <2>1 DEF Pos
  <2> QED
    BY <1>2, <1>3, <2>1, <2>2, <2>3 DEF ReceiverOK
<1>8. KeptOK(0, sndBuf, Receiver, 0)
  BY <1>2 DEF KeptOK
<1>9. Len(read) = 0
  BY <1>1, <1>2
<1> QED
  <2>1. rmtWnd \in Wnds /\ probing \in BOOLEAN
    <3>1. rmtWnd = OwnWnd /\ probing = FALSE
      BY DEF Init
    <3>2. OwnWnd \in Wnds
      BY DEF Wnds
    <3> QED
      BY ONLY <3>1, <3>2, Zenon
  <2>2. \A p \in net : PacketOK(p, written, 0, Receiver, 0)
    <3>1. net = {}
      BY DEF Init
    <3> QED
      BY ONLY <3>1
  <2> QED
    BY ONLY <1>4, <1>5, <1>6, <1>7, <1>8, <1>9, <2>1, <2>2 DEF IInv

\* Every step keeps the invariant.
LEMMA NextKeeps ==
  ASSUME HalfTurn, IInv, [Next]_vars
  PROVE  IInv'
<1>1. ASSUME NEW count \in Fragments, Send(count) PROVE IInv'
  BY <1>1, SendKeeps
<1>2. CASE PollSender({})
  BY <1>2, PollSenderKeeps
<1>3. CASE PollReceiver
  BY <1>3, PollReceiverKeeps
<1>4. ASSUME NEW p \in net, RecvAck(p) PROVE IInv'
  BY <1>4, RecvAckKeeps
<1>5. ASSUME NEW p \in net, RecvPush(p, FALSE) PROVE IInv'
  BY <1>5, RecvPushKeeps
<1>6. ASSUME NEW p \in net, RecvWask(p, FALSE) PROVE IInv'
  BY <1>6, RecvWaskKeeps
<1>7. CASE UNCHANGED vars
  <2>1. /\ sndQueue' = sndQueue /\ sndBuf' = sndBuf /\ sndUna' = sndUna /\ sndNxt' = sndNxt
        /\ rmtWnd' = rmtWnd /\ probing' = probing /\ Receiver' = Receiver /\ net' = net
        /\ written' = written /\ read' = read /\ Numbered' = Numbered
    BY <1>7 DEF vars, sndVars, rcvVars, Receiver, Numbered
  <2> QED
    BY <2>1 DEF IInv
<1> QED
  BY <1>1, <1>2, <1>3, <1>4, <1>5, <1>6, <1>7 DEF Next

\* The ARQ keeps the inductive invariant: sender, receiver and every packet in
\* flight agree on one stream.
THEOREM InductiveInvariant ==
  ASSUME HalfTurn
  PROVE  Spec => []IInv
<1>1. Init => IInv
  BY InitHolds
<1>2. IInv /\ [Next]_vars => IInv'
  BY NextKeeps
<1> QED
  BY <1>1, <1>2, PTL DEF Spec

\* The parts of the invariant with types.
LEMMA TypesHold ==
  ASSUME IInv
  PROVE  TypeOK
<1> USE Constants
<1> DEFINE n == Numbered
           r == Len(read)
<1>1. /\ n \in Nat /\ n <= Len(written) /\ r \in Nat /\ r <= n /\ Len(written) \in Nat
      /\ SenderOK(written, n, sndQueue, sndBuf, sndUna, sndNxt)
      /\ ReceiverOK(Receiver, written, n, r)
      /\ Whole(written) /\ rmtWnd \in Wnds /\ probing \in BOOLEAN
  BY InvariantTypes DEF IInv
<1> HIDE DEF n
<1>2. /\ Receiver.queue = rcvQueue /\ Receiver.nxt = rcvNxt /\ Receiver.buf = rcvBuf
      /\ Receiver.tell = tell
  BY DEF Receiver
<1>3. rcvNxt \in 0..(SnMod - 1) /\ tell \in BOOLEAN
  <2> HIDE DEF r
  <2> QED
    BY <1>1, <1>2, ReceiverTypes
<1>4. Len(rcvQueue) <= RcvWnd
  BY <1>1, <1>2 DEF ReceiverOK
<1>5. Cardinality(rcvBuf) <= RcvWnd
  <2> HIDE DEF r
  <2> QED
    BY <1>1, <1>2, BufferFinite
<1>6. sndUna \in 0..(SnMod - 1) /\ sndNxt \in 0..(SnMod - 1)
  <2>1. First(sndBuf, n) \in 1..(n + 1)
    BY <1>1, FirstPlace
  <2>2. First(sndBuf, n) \in Nat \ {0} /\ n + 1 \in Nat \ {0}
    BY <1>1, <2>1
  <2>3. sndUna = Sn(First(sndBuf, n)) /\ sndNxt = Sn(n + 1)
    BY <1>1 DEF SenderOK
  <2>4. Sn(First(sndBuf, n)) \in 0..(SnMod - 1)
    BY <2>2, SnType
  <2>5. Sn(n + 1) \in 0..(SnMod - 1)
    BY <2>2, SnType
  <2> QED
    BY <2>3, <2>4, <2>5
<1>7. Len(sndBuf) + Len(sndQueue) <= SndWnd
  BY <1>1 DEF SenderOK
<1>8. Len(written) <= MaxSegments
  BY <1>1 DEF Whole
<1>9. r <= MaxSegments
  <2> HIDE DEF r
  <2> QED
    BY <1>1, <1>8
<1> QED
  BY <1>1, <1>3, <1>4, <1>5, <1>6, <1>7, <1>8, <1>9 DEF TypeOK, Wnds

\* Neither buffer outgrows its window and no serial number leaves its range.
THEOREM TypeCorrect ==
  ASSUME HalfTurn
  PROVE  Spec => []TypeOK
<1>1. IInv => TypeOK
  BY TypesHold
<1> QED
  BY <1>1, InductiveInvariant, PTL

\* The distances of numbers are distances of places.
LEMMA WindowsFollow ==
  ASSUME HalfTurn, IInv
  PROVE  WindowsHold
<1> USE Constants
<1> DEFINE n == Numbered
           r == Len(read)
           b == Len(sndBuf)
           u == First(sndBuf, n)
           p == Pos(Receiver, r)
<1>1. /\ n \in Nat /\ n <= Len(written) /\ r \in Nat /\ p \in Nat /\ p <= n /\ Len(written) \in Nat
      /\ SenderOK(written, n, sndQueue, sndBuf, sndUna, sndNxt)
      /\ ReceiverOK(Receiver, written, n, r) /\ Whole(written)
  BY InvariantTypes DEF IInv
<1>2. n <= MaxSegments
  BY <1>1 DEF Whole
<1>3. u \in 1..(n + 1) /\ n + 1 - u <= SndWnd /\ sndNxt = Sn(n + 1) /\ sndUna = Sn(u)
  BY <1>1, FirstPlace DEF SenderOK
<1>4. Receiver.buf = rcvBuf /\ Receiver.nxt = rcvNxt
  BY DEF Receiver
<1>5. rcvNxt = Sn(p + 1)
  BY <1>1, <1>4 DEF ReceiverOK
<1>6. ASSUME NEW i \in DOMAIN sndBuf
      PROVE  \E d \in u..n : sndBuf[i].sn = Sn(d)
  <2>1. sndBuf \in Seq(SegRec)
    BY <1>1 DEF SenderOK
  <2>2. i \in 1..Len(sndBuf) /\ Len(sndBuf) \in Nat
    BY <2>1
  <2>3. sndBuf[i].data \in 1..n /\ sndBuf[i] = SegOf(written, sndBuf[i].data)
    BY <1>1, <2>2 DEF SenderOK
  <2>4. sndBuf[i].sn = Sn(sndBuf[i].data)
    BY <2>3 DEF SegOf, Segment
  <2>5. 1 \in 1..Len(sndBuf) /\ (i = 1 \/ 1 < i)
    BY <2>2
  <2>6. u = sndBuf[1].data
    BY <2>1, <2>5 DEF First
  <2>7. sndBuf[1].data \in 1..n /\ (1 < i => sndBuf[1].data < sndBuf[i].data)
    BY <1>1, <2>2, <2>5 DEF SenderOK
  <2> HIDE DEF u
  <2>8. sndBuf[i].data \in u..n
    <3>1. CASE i = 1
      BY <1>1, <2>3, <2>6, <3>1
    <3>2. CASE 1 < i
      BY <1>1, <2>3, <2>6, <2>7, <3>2
    <3> QED
      BY <2>5, <3>1, <3>2
  <2> QED
    BY <2>4, <2>8
<1>7. ASSUME NEW s \in rcvBuf
      PROVE  \E d \in (p + 1)..n : d <= p + RcvWnd /\ s.sn = Sn(d)
  <2>1. s.data \in (p + 1)..n /\ s.data <= p + RcvWnd /\ s = SegOf(written, s.data)
    BY <1>1, <1>4 DEF ReceiverOK
  <2>2. s.sn = Sn(s.data)
    BY <2>1 DEF SegOf, Segment
  <2> QED
    BY <2>1, <2>2
<1> HIDE DEF n, r, b, u, p
<1>8. TimeDiff(sndNxt, sndUna) \in 0..SndWnd
  <2>1. 2 * ((n + 1) - u) < SnMod /\ 2 * (u - (n + 1)) <= SnMod
    BY <1>1, <1>3
  <2>2. TimeDiff(Sn(n + 1), Sn(u)) = (n + 1) - u
    BY <1>1, <1>3, <2>1, SnDiff
  <2> QED
    BY <1>1, <1>3, <2>2
<1>9. ASSUME NEW i \in DOMAIN sndBuf
      PROVE  TimeDiff(sndBuf[i].sn, sndUna) \in 0..(SndWnd - 1)
  <2>1. PICK d \in u..n : sndBuf[i].sn = Sn(d)
    BY <1>6
  <2>2. 2 * (d - u) < SnMod /\ 2 * (u - d) <= SnMod /\ d \in Nat \ {0} /\ u \in Nat \ {0}
    BY <1>1, <1>3
  <2>3. TimeDiff(Sn(d), Sn(u)) = d - u
    BY <2>2, SnDiff
  <2>4. d - u \in 0..(SndWnd - 1)
    BY <1>1, <1>3
  <2> QED
    BY <1>3, <2>1, <2>3, <2>4
<1>10. ASSUME NEW s \in rcvBuf
       PROVE  TimeDiff(s.sn, rcvNxt) \in 0..(RcvWnd - 1)
  <2>1. PICK d \in (p + 1)..n : d <= p + RcvWnd /\ s.sn = Sn(d)
    BY <1>7
  <2>2. PICK e \in Nat \ {0} : e = p + 1
    BY <1>1
  <2>3. 2 * (d - e) < SnMod /\ 2 * (e - d) <= SnMod /\ d \in Nat \ {0}
    BY <1>1, <2>1, <2>2
  <2>4. TimeDiff(Sn(d), Sn(e)) = d - e
    BY <2>2, <2>3, SnDiff
  <2>5. d - e \in 0..(RcvWnd - 1)
    BY <1>1, <2>1, <2>2
  <2> QED
    BY <1>5, <2>1, <2>2, <2>4, <2>5
<1> QED
  BY <1>8, <1>9, <1>10 DEF WindowsHold

\* The outstanding segments stay within the windows across every wrap of the
\* serial numbers (sn in kcp.rs).
THEOREM WindowsKept ==
  ASSUME HalfTurn
  PROVE  Spec => []WindowsHold
<1>1. IInv => WindowsHold
  BY WindowsFollow
<1> QED
  BY <1>1, InductiveInvariant, PTL

\* What the receiver has is read, queued or in its buffer.
LEMMA HeldFollows ==
  ASSUME IInv
  PROVE  AckedIsHeld
<1> DEFINE n == Numbered
           r == Len(read)
           q == Len(rcvQueue)
           p == Pos(Receiver, r)
<1>1. /\ n \in Nat /\ r \in Nat /\ q \in Nat /\ p \in Nat /\ p = r + q
      /\ SenderOK(written, n, sndQueue, sndBuf, sndUna, sndNxt)
      /\ ReceiverOK(Receiver, written, n, r) /\ KeptOK(n, sndBuf, Receiver, r)
  BY InvariantTypes DEF IInv
<1>2. Receiver.buf = rcvBuf /\ Receiver.queue = rcvQueue /\ Receiver.out = <<>> /\ Len(<<>>) = 0
  BY DEF Receiver
<1>3. DOMAIN sndBuf = 1..Len(sndBuf) /\ DOMAIN rcvQueue = 1..Len(rcvQueue)
  BY <1>1, <1>2 DEF SenderOK, ReceiverOK, RcvRec
<1>4. ASSUME NEW i \in 1..q PROVE rcvQueue[i].data = r + i
  <2>1. rcvQueue[i] = SegOf(written, r + 0 + i)
    BY <1>1, <1>2 DEF ReceiverOK
  <2>2. rcvQueue[i].data = r + 0 + i
    BY <2>1 DEF SegOf, Segment
  <2> HIDE DEF r
  <2> QED
    BY <1>1, <2>2
<1>5. Len(written) - Len(sndQueue) = n
  BY DEF Numbered
<1> SUFFICES ASSUME NEW d \in 1..n
             PROVE  \/ \E i \in 1..Len(sndBuf) : sndBuf[i].data = d
                    \/ d <= r
                    \/ \E i \in 1..q : rcvQueue[i].data = d
                    \/ \E s \in rcvBuf : s.data = d
  BY <1>3, <1>5 DEF AckedIsHeld
<1>6. (\E i \in 1..Len(sndBuf) : sndBuf[i].data = d) \/ d <= p \/ \E s \in rcvBuf : s.data = d
  BY <1>1, <1>2 DEF KeptOK, Holds
<1> HIDE DEF n, r, q, p
<1>7. ASSUME d <= p, ~ (d <= r) PROVE \E i \in 1..q : rcvQueue[i].data = d
  <2>1. PICK i \in 1..q : d = r + i
    BY <1>1, <1>7
  <2> QED
    BY <1>4, <2>1
<1> QED
  BY <1>6, <1>7

\* No segment is lost between the two ends: what the sender let go because it
\* was acknowledged is read or held by the receiver (parse_una, parse_ack).
THEOREM AckedSegmentsHeld ==
  ASSUME HalfTurn
  PROVE  Spec => []AckedIsHeld
<1>1. IInv => AckedIsHeld
  BY HeldFollows
<1> QED
  BY <1>1, InductiveInvariant, PTL

-----------------------------------------------------------------------------
(* The detailed ARQ implements the abstract stream. *)

\* Prefixes, by their elements.
LEMMA PrefixByElements ==
  ASSUME NEW S, NEW s \in Seq(S), NEW t \in Seq(S), Len(s) <= Len(t),
         \A i \in 1..Len(s) : s[i] = t[i]
  PROVE  /\ IsPrefix(s, t) /\ Stream!IsPrefix(s, t)
         /\ Len(s) < Len(t) => IsStrictPrefix(s, t) /\ Stream!IsStrictPrefix(s, t)
<1>1. PICK k \in Nat, l \in Nat : k = Len(s) /\ l = Len(t)
  OBVIOUS
<1>2. PICK x, y : x = SubSeq(s, 1, k) /\ y = SubSeq(t, 1, k)
  OBVIOUS
<1>3. k <= l /\ k <= Len(s) /\ k <= Len(t)
  BY <1>1
<1>4. x \in Seq(S) /\ Len(x) = k /\ \A i \in 1..k : x[i] = s[i]
  BY <1>2, <1>3, Leading
<1>5. y \in Seq(S) /\ Len(y) = k /\ \A i \in 1..k : y[i] = t[i]
  BY <1>2, <1>3, Leading
<1>6. x = y
  BY <1>1, <1>4, <1>5
<1>7. Len(s) < Len(t) => s # t
  BY <1>1
<1> QED
  BY <1>1, <1>2, <1>6, <1>7 DEF IsPrefix, IsStrictPrefix, Stream!IsPrefix, Stream!IsStrictPrefix

\* The stream as the two ends see it.
SentView(w) == [i \in DOMAIN w |-> [data |-> i, last |-> w[i] = 0]]
ReceivedView(rd) == [i \in DOMAIN rd |-> [data |-> rd[i].data, last |-> rd[i].frg = 0]]

Item == [data : Nat, last : BOOLEAN]

\* The views are sequences of the same lengths.
LEMMA SentViewIs ==
  ASSUME NEW w \in Seq(Nat), NEW x, x = SentView(w)
  PROVE  /\ x \in Seq(Item) /\ Len(x) = Len(w)
         /\ \A i \in 1..Len(w) : x[i] = [data |-> i, last |-> w[i] = 0]
<1> DEFINE E(i) == [data |-> i, last |-> w[i] = 0]
<1>1. DOMAIN w = 1..Len(w) /\ Len(w) \in Nat
  OBVIOUS
<1>2. x = [i \in 1..Len(w) |-> E(i)]
  BY <1>1 DEF SentView
<1>3. ASSUME NEW i \in 1..Len(w) PROVE E(i) \in Item
  <2>1. i \in Nat
    BY <1>1
  <2>2. (w[i] = 0) \in BOOLEAN
    BY Zenon
  <2> QED
    BY <2>1, <2>2, Zenon DEF Item
<1> HIDE DEF E
<1>4. x \in Seq(Item) /\ Len(x) = Len(w) /\ \A i \in 1..Len(w) : x[i] = E(i)
  BY <1>1, <1>2, <1>3
<1> QED
  BY <1>4, Zenon DEF E

LEMMA ReceivedViewIs ==
  ASSUME NEW rd \in Seq(SegRec), NEW x, x = ReceivedView(rd)
  PROVE  /\ x \in Seq(Item) /\ Len(x) = Len(rd)
         /\ \A i \in 1..Len(rd) : x[i] = [data |-> rd[i].data, last |-> rd[i].frg = 0]
<1> DEFINE E(i) == [data |-> rd[i].data, last |-> rd[i].frg = 0]
<1>1. DOMAIN rd = 1..Len(rd) /\ Len(rd) \in Nat
  OBVIOUS
<1>2. x = [i \in 1..Len(rd) |-> E(i)]
  BY <1>1 DEF ReceivedView
<1>3. ASSUME NEW i \in 1..Len(rd) PROVE E(i) \in Item
  <2>1. rd[i].data \in Nat
    <3>1. PICK s \in SegRec : s = rd[i]
      BY <1>1
    <3>2. s.data \in Nat
      BY DEF SegRec
    <3> QED
      BY <3>1, <3>2
  <2>2. (rd[i].frg = 0) \in BOOLEAN
    BY Zenon
  <2> QED
    BY <2>1, <2>2, Zenon DEF Item
<1> HIDE DEF E
<1>4. x \in Seq(Item) /\ Len(x) = Len(rd) /\ \A i \in 1..Len(rd) : x[i] = E(i)
  BY <1>1, <1>2, <1>3
<1> QED
  BY <1>4, Zenon DEF E

\* What was read is a prefix of what was written, element for element.
LEMMA ViewsAgree ==
  ASSUME NEW w, Whole(w), NEW rd, ReadOK(w, rd), Len(rd) <= Len(w), NEW x, x = ReceivedView(rd)
  PROVE  /\ x \in Seq(Item) /\ Len(x) = Len(rd)
         /\ \A i \in 1..Len(rd) : x[i] = [data |-> i, last |-> w[i] = 0]
<1>1. w \in Seq(Nat) /\ rd \in Seq(SegRec) /\ Len(rd) \in Nat /\ Len(w) \in Nat
  BY DEF Whole, ReadOK
<1>3. /\ x \in Seq(Item) /\ Len(x) = Len(rd)
      /\ \A i \in 1..Len(rd) : x[i] = [data |-> rd[i].data, last |-> rd[i].frg = 0]
  BY <1>1, ReceivedViewIs
<1>4. ASSUME NEW i \in 1..Len(rd) PROVE rd[i].data = i /\ rd[i].frg = w[i]
  <2>1. rd[i] = SegOf(w, i) /\ i \in 1..Len(w)
    BY <1>1 DEF ReadOK
  <2> QED
    BY <2>1, SegType
<1>5. ASSUME NEW i \in 1..Len(rd) PROVE x[i] = [data |-> i, last |-> w[i] = 0]
  <2>1. x[i] = [data |-> rd[i].data, last |-> rd[i].frg = 0]
    BY <1>3
  <2> QED
    BY ONLY <1>4, <2>1, Zenon
<1> QED
  BY ONLY <1>3, <1>5, Zenon

\* Reading is delivery of the abstract stream, or nothing.
LEMMA ReadDelivers ==
  ASSUME NEW w, Whole(w), NEW rd, ReadOK(w, rd), NEW rd2, ReadOK(w, rd2),
         Len(rd) <= Len(rd2), Len(rd2) <= Len(w),
         NEW x, x = ReceivedView(rd), NEW x2, x2 = ReceivedView(rd2), NEW y, y = SentView(w)
  PROVE  \/ x2 = x
         \/ Stream!IsStrictPrefix(x, x2) /\ Stream!IsPrefix(x2, y) /\ x2[Len(x2)].last
<1> DEFINE E(i) == [data |-> i, last |-> w[i] = 0]
<1>1. PICK l \in Nat, k \in Nat, k2 \in Nat : l = Len(w) /\ k = Len(rd) /\ k2 = Len(rd2)
  BY DEF Whole, ReadOK
<1>2. k <= k2 /\ k2 <= l /\ k <= l
  BY <1>1
<1>3. Len(rd) <= Len(w)
  BY <1>1, <1>2
<1>4. x \in Seq(Item) /\ Len(x) = k /\ \A i \in 1..k : x[i] = E(i)
  BY ONLY Whole(w), ReadOK(w, rd), x = ReceivedView(rd), <1>1, <1>3, ViewsAgree
<1>5. x2 \in Seq(Item) /\ Len(x2) = k2 /\ \A i \in 1..k2 : x2[i] = E(i)
  BY ONLY Whole(w), ReadOK(w, rd2), x2 = ReceivedView(rd2), Len(rd2) <= Len(w), <1>1, ViewsAgree
<1>6. y \in Seq(Item) /\ Len(y) = l /\ \A i \in 1..l : y[i] = E(i)
  <2>1. w \in Seq(Nat)
    BY DEF Whole
  <2> QED
    BY ONLY <2>1, y = SentView(w), <1>1, SentViewIs
<1>7. k2 > 0 => E(k2).last
  <2>1. k2 > 0 => w[k2] = 0
    BY <1>1 DEF ReadOK
  <2> QED
    BY <2>1
<1> HIDE DEF E
<1>8. CASE k2 = k
  BY ONLY <1>4, <1>5, <1>8, k \in Nat
<1>9. CASE k < k2
  <2>1. Len(x) < Len(x2) /\ Len(x2) <= Len(y) /\ Len(x) <= Len(x2)
    BY ONLY <1>2, <1>4, <1>5, <1>6, <1>9, k \in Nat, k2 \in Nat, l \in Nat
  <2>2. \A i \in 1..Len(x) : x[i] = x2[i]
    BY ONLY <1>2, <1>4, <1>5, <1>6, <1>9, k \in Nat, k2 \in Nat, l \in Nat
  <2>3. \A i \in 1..Len(x2) : x2[i] = y[i]
    BY ONLY <1>2, <1>4, <1>5, <1>6, <1>9, k \in Nat, k2 \in Nat, l \in Nat
  <2>4. Stream!IsStrictPrefix(x, x2)
    BY ONLY <1>4, <1>5, <2>1, <2>2, PrefixByElements
  <2>5. Stream!IsPrefix(x2, y)
    BY ONLY <1>5, <1>6, <2>1, <2>3, PrefixByElements
  <2>6. x2[Len(x2)].last
    <3>1. k2 \in 1..k2 /\ k2 > 0
      BY <1>9
    <3>2. x2[k2] = E(k2)
      BY <1>5, <3>1
    <3> QED
      BY ONLY <1>5, <1>7, <3>1, <3>2
  <2> QED
    BY <2>4, <2>5, <2>6
<1> QED
  BY <1>2, <1>8, <1>9

\* Sending is writing to the abstract stream.
LEMMA SendWrites ==
  ASSUME NEW v, Whole(v), NEW w, Whole(w), Continues(v, w, Len(v)), Len(v) < Len(w),
         NEW x, x = SentView(v), NEW y, y = SentView(w)
  PROVE  Stream!IsStrictPrefix(x, y) /\ y[Len(y)].last
<1> DEFINE E(i) == [data |-> i, last |-> w[i] = 0]
<1>1. PICK l \in Nat, k \in Nat : l = Len(w) /\ k = Len(v)
  BY DEF Whole
<1>2. k < l /\ k <= l /\ l \in 1..l
  BY <1>1
<1>3. x \in Seq(Item) /\ Len(x) = k /\ \A i \in 1..k : x[i] = [data |-> i, last |-> v[i] = 0]
  <2>1. v \in Seq(Nat)
    BY DEF Whole
  <2> QED
    BY ONLY <2>1, x = SentView(v), <1>1, SentViewIs
<1>4. y \in Seq(Item) /\ Len(y) = l /\ \A i \in 1..l : y[i] = E(i)
  <2>1. w \in Seq(Nat)
    BY DEF Whole
  <2> QED
    BY ONLY <2>1, y = SentView(w), <1>1, SentViewIs
<1>5. \A i \in 1..k : x[i] = E(i)
  <2> SUFFICES ASSUME NEW i \in 1..k PROVE x[i] = E(i)
    OBVIOUS
  <2>1. v[i] = w[i]
    BY <1>1 DEF Continues
  <2>2. x[i] = [data |-> i, last |-> v[i] = 0]
    BY <1>3
  <2> QED
    BY ONLY <2>1, <2>2, Zenon
<1>6. E(l).last
  <2>1. PICK f \in Nat : f = w[l]
    BY <1>1, <1>2 DEF Whole
  <2>2. l + f <= l
    BY <1>1, <1>2, <2>1 DEF Whole
  <2>3. w[l] = 0
    BY <2>1, <2>2
  <2> QED
    BY <2>3
<1> HIDE DEF E
<1>7. Len(x) < Len(y) /\ Len(x) <= Len(y)
  BY ONLY <1>2, <1>3, <1>4
<1>8. \A i \in 1..Len(x) : x[i] = y[i]
  <2>1. \A i \in 1..k : i \in 1..l
    BY <1>2
  <2> QED
    BY ONLY <1>3, <1>4, <1>5, <2>1
<1>9. Stream!IsStrictPrefix(x, y)
  BY ONLY <1>3, <1>4, <1>7, <1>8, PrefixByElements
<1>10. y[Len(y)].last
  BY ONLY <1>2, <1>4, <1>6
<1> QED
  BY <1>9, <1>10

\* No more is read than was written.
LEMMA ReadWithin ==
  ASSUME NEW w, Whole(w), NEW n, NEW queue, NEW buf, NEW una, NEW nxt,
         SenderOK(w, n, queue, buf, una, nxt), NEW rd, ReadOK(w, rd),
         NEW st, ReceiverOK(st, w, n, Len(rd))
  PROVE  Len(rd) <= Len(w)
<1>1. PICK l \in Nat, r \in Nat, q \in Nat : l = Len(w) /\ r = Len(rd) /\ q = Len(queue)
  BY DEF Whole, ReadOK, SenderOK
<1>2. n \in Nat /\ n + q = l
  BY <1>1 DEF SenderOK
<1>3. ReceiverOK(st, w, n, r)
  BY <1>1
<1>4. PICK p \in Nat, o \in Nat, k \in Nat : p = Pos(st, r) /\ o = Len(st.out) /\ k = Len(st.queue)
  BY <1>3, ReceiverTypes
<1>5. p = r + o + k /\ p <= n
  BY <1>3, <1>4 DEF Pos, ReceiverOK
<1>6. r <= l
  BY <1>2, <1>5
<1> QED
  BY <1>1, <1>6

\* A step of the ARQ is a step of the stream.
LEMMA StreamStep ==
  ASSUME HalfTurn, IInv, IInv', [Next]_vars
  PROVE  \/ /\ Stream!IsStrictPrefix(SentView(written), SentView(written'))
            /\ SentView(written')[Len(SentView(written'))].last
            /\ read' = read
         \/ /\ Stream!IsStrictPrefix(ReceivedView(read), ReceivedView(read'))
            /\ Stream!IsPrefix(ReceivedView(read'), SentView(written))
            /\ ReceivedView(read')[Len(ReceivedView(read'))].last
            /\ written' = written
         \/ written' = written /\ ReceivedView(read') = ReceivedView(read)
<1>1. Whole(written) /\ ReadOK(written, read)
  BY DEF IInv
<1>2. PICK w2, rd2 : w2 = written' /\ rd2 = read'
  OBVIOUS
<1>3. Whole(w2) /\ ReadOK(w2, rd2) /\ Len(rd2) <= Len(w2)
  <2>1. Whole(w2) /\ ReadOK(w2, rd2)
    BY <1>2 DEF IInv
  <2>2. PICK n, queue, buf, una, nxt, st :
          SenderOK(w2, n, queue, buf, una, nxt) /\ ReceiverOK(st, w2, n, Len(rd2))
    BY <1>2 DEF IInv
  <2> QED
    BY <2>1, <2>2, ReadWithin
<1>4. ASSUME NEW count \in Fragments, Send(count)
      PROVE  /\ Stream!IsStrictPrefix(SentView(written), SentView(w2))
             /\ SentView(w2)[Len(SentView(w2))].last /\ read' = read
  <2> DEFINE frgs == [i \in 1..count |-> count - i]
  <2>1. count \in Nat \ {0} /\ Message(written, count, frgs, w2) /\ read' = read
    BY <1>2, <1>4, Constants DEF Send, Message
  <2> HIDE DEF frgs
  <2>2. Written(written, frgs, w2) /\ Len(frgs) = count
    BY <1>1, <2>1, WholeGrows
  <2>3. Len(written) < Len(w2) /\ Continues(written, w2, Len(written))
    <3>1. Len(w2) = Len(written) + count /\ Len(written) \in Nat
      BY <1>1, <2>2 DEF Written, Whole
    <3> QED
      BY <2>1, <2>2, <3>1 DEF Written
  <2> QED
    BY <1>1, <1>3, <2>1, <2>3, SendWrites
<1>5. ASSUME w2 = written, Len(read) <= Len(rd2)
      PROVE  \/ ReceivedView(rd2) = ReceivedView(read)
             \/ /\ Stream!IsStrictPrefix(ReceivedView(read), ReceivedView(rd2))
                /\ Stream!IsPrefix(ReceivedView(rd2), SentView(written))
                /\ ReceivedView(rd2)[Len(ReceivedView(rd2))].last
  BY <1>1, <1>3, <1>5, ReadDelivers
<1>6. ASSUME NEW p \in net, RecvPush(p, FALSE) \/ RecvWask(p, FALSE)
      PROVE  w2 = written /\ Len(read) <= Len(rd2)
  BY <1>2, <1>6, RecvPushKeeps, RecvWaskKeeps DEF RecvPush, RecvWask
<1>7. ASSUME \/ PollSender({}) \/ PollReceiver \/ UNCHANGED vars
             \/ \E p \in net : RecvAck(p)
      PROVE  w2 = written /\ rd2 = read
  BY <1>2, <1>7 DEF PollSender, PollReceiver, RecvAck, vars
<1> QED
  BY <1>2, <1>4, <1>5, <1>6, <1>7 DEF Next

\* The ARQ implements the stream: messages are read whole, in the order written,
\* without gap, repetition or exchange, however often serial numbers wrap and
\* whatever the network loses, delays or reorders.
THEOREM StreamImplemented ==
  ASSUME HalfTurn
  PROVE  Spec => ImplementsStream
<1>1. Init => Stream!Init
  BY DEF Init, Stream!Init
<1>2. IInv /\ IInv' /\ [Next]_vars =>
        [Stream!Next]_<<SentView(written), ReceivedView(read)>>
  <2> SUFFICES ASSUME IInv, IInv', [Next]_vars
               PROVE  [Stream!Next]_<<SentView(written), ReceivedView(read)>>
    OBVIOUS
  <2>1. CASE /\ Stream!IsStrictPrefix(SentView(written), SentView(written'))
             /\ SentView(written')[Len(SentView(written'))].last
             /\ read' = read
    BY <2>1 DEF Stream!Next, Stream!Write, SentView, ReceivedView
  <2>2. CASE /\ Stream!IsStrictPrefix(ReceivedView(read), ReceivedView(read'))
             /\ Stream!IsPrefix(ReceivedView(read'), SentView(written))
             /\ ReceivedView(read')[Len(ReceivedView(read'))].last
             /\ written' = written
    BY <2>2 DEF Stream!Next, Stream!Deliver, SentView, ReceivedView
  <2>3. CASE written' = written /\ ReceivedView(read') = ReceivedView(read)
    BY <2>3 DEF SentView, ReceivedView
  <2> QED
    BY <2>1, <2>2, <2>3, StreamStep
<1> QED
  BY <1>1, <1>2, InductiveInvariant, PTL DEF Spec, ImplementsStream, Stream!Spec, SentView, ReceivedView

=============================================================================
