--------------------------- MODULE PollLoopProofs ---------------------------
(***************************************************************************)
(* What PollLoop guarantees for every flush interval, retransmission       *)
(* timeout, window, sleep and stall: the types; that no deadline is slept  *)
(* over; and that a poll that changes nothing has come before ts_flush.    *)
(***************************************************************************)
EXTENDS PollLoop, WellFoundedInduction, TLAPS

\* The types of the constants, in the form the provers need.
LEMMA Constants ==
  /\ Interval \in Nat \ {0} /\ MinRto \in Nat \ {0} /\ MaxRto \in Nat \ {0}
  /\ FastResend \in Nat \ {0} /\ FastLimit \in Nat \ {0} /\ SendWindow \in Nat \ {0}
  /\ CloseTicks \in Nat \ {0} /\ TombTicks \in Nat \ {0} /\ MaxSleep \in Nat \ {0}
  /\ IdleSleep \in Nat \ {0} /\ MaxOwed \in Nat \ {0}
  /\ MinRto <= MaxRto /\ Stall \in 1..(Interval - 1) /\ Stall \in Nat /\ Late \in Nat
<1>1. Interval \in Nat \ {0} /\ Stall \in 1..(Interval - 1)
  BY PollAssumption
<1> QED
  BY <1>1, PollAssumption DEF Late

-----------------------------------------------------------------------------
(* Least and greatest numbers. *)

\* A set of numbers has a least one.
LEMMA LeastNumber ==
  ASSUME NEW S \in SUBSET Nat, S # {}
  PROVE  \E n \in S : \A m \in S : n <= m
<1> DEFINE R == OpToRel(<, Nat)
<1>1. IsWellFoundedOn(R, Nat)
  BY NatLessThanWellFounded
<1>2. \A m, n \in Nat : <<m, n>> \in R <=> m < n
  BY DEF OpToRel
<1> HIDE DEF R
<1>3. PICK n \in S : \A m \in S : ~ (<<m, n>> \in R)
  BY <1>1, WFMin
<1>4. \A m \in S : m \in Nat /\ n \in Nat
  OBVIOUS
<1>5. \A m \in S : ~ (m < n)
  BY <1>2, <1>3, <1>4
<1> QED
  BY <1>4, <1>5

\* Min of a set of numbers is the least of them.
LEMMA MinIsLeast ==
  ASSUME NEW S \in SUBSET Nat, S # {}
  PROVE  Min(S) \in S /\ \A m \in S : Min(S) <= m
<1>1. \E n \in S : \A m \in S : n <= m
  BY LeastNumber
<1> QED
  BY <1>1, Zenon DEF Min

\* The lesser and the greater of two.
LEMMA MinOfTwo ==
  ASSUME NEW a \in Int, NEW b \in Int
  PROVE  Min({a, b}) = IF a <= b THEN a ELSE b
<1>1. CASE a <= b
  <2>1. \A x \in {a, b} : (\A y \in {a, b} : x =< y) <=> x = a
    BY <1>1
  <2> QED
    BY <1>1, <2>1 DEF Min
<1>2. CASE ~ (a <= b)
  <2>1. \A x \in {a, b} : (\A y \in {a, b} : x =< y) <=> x = b
    BY <1>2
  <2> QED
    BY <1>2, <2>1 DEF Min
<1> QED
  BY <1>1, <1>2

\* Likewise, the maximum.
LEMMA MaxOfTwo ==
  ASSUME NEW a \in Int, NEW b \in Int
  PROVE  Max({a, b}) = IF a >= b THEN a ELSE b
<1>1. CASE a >= b
  <2>1. \A x \in {a, b} : (\A y \in {a, b} : x >= y) <=> x = a
    BY <1>1
  <2> QED
    BY <1>1, <2>1 DEF Max
<1>2. CASE ~ (a >= b)
  <2>1. \A x \in {a, b} : (\A y \in {a, b} : x >= y) <=> x = b
    BY <1>2
  <2> QED
    BY <1>2, <2>1 DEF Max
<1> QED
  BY <1>1, <1>2

-----------------------------------------------------------------------------
(* State. *)

AllPhases == {"None", "Open", "Tombstone"} \cup Closing

\* The phases with a close deadline or a tombstone to wait for.
Timed == Closing \cup {"Tombstone"}

SegmentRec ==
  [due : -(Late + 1)..MaxRto, rto : Rtos, xmit : 1..(FastLimit + 1), fast : 0..FastResend]

CoreRec ==
  [phase : AllPhases, timer : -(Late + 1)..Max({CloseTicks, TombTicks}), queued : BOOLEAN,
   flush : -Interval..Interval, segs : Seq(SegmentRec)]

\* A core that is no more than slack late: with the close deadline or the
\* tombstone, with ts_flush while there is something to flush, and with a resend
\* time up to an Interval more, because a resend waits for ts_flush.
Timely(st, slack) ==
  /\ st.phase \in Timed => st.timer >= -slack
  /\ st.segs # <<>> => st.flush >= -slack /\ st.phase \in Closing \cup {"Open"}
  /\ \A i \in 1..Len(st.segs) :
       /\ st.segs[i].due >= -Interval - slack
       /\ st.segs[i].due >= st.flush - Interval \/ st.flush = -Interval

Good(st, slack) == st \in CoreRec /\ Len(st.segs) <= SendWindow /\ Timely(st, slack)

\* How late the loop may be: by its present round, and by the one before unless
\* it has just polled.
Slack == stall + (IF pc = "exec" THEN 0 ELSE Stall)

LoopTypes ==
  /\ pc \in {"lock", "poll", "exec", "sleep"} /\ wake \in 0..Max({MaxSleep, IdleSleep})
  /\ stall \in 0..Stall /\ permit \in BOOLEAN /\ owed \in 0..MaxOwed
  /\ pc = "sleep" => stall = 0

\* Nobody has changed a deadline since the loop has read it.
Informed == ~ permit /\ owed = 0

\* The sleep ends at most a stall after the first deadline.
Asleep ==
  pc = "sleep" /\ Informed =>
    /\ phase \in Timed => wake <= timer + Stall
    /\ segs # <<>> => wake <= flush + Stall
    /\ \A i \in 1..Len(segs) : wake <= segs[i].due + Stall

\* A deadline has passed at the time age ago.
Expired(age) ==
  \/ phase \in Timed /\ timer + age <= 0
  \/ segs # <<>> /\ (flush + age <= 0 \/ \E i \in 1..Len(segs) : segs[i].due + age <= 0)

Polling == pc = "poll" /\ Informed => Expired(stall)

IInv == Good(State, Slack) /\ LoopTypes /\ Asleep /\ Polling

-----------------------------------------------------------------------------
(* KCP timers. *)

\* The state as a record.
LEMMA StateFields ==
  /\ State.phase = phase /\ State.timer = timer /\ State.queued = queued
  /\ State.flush = flush /\ State.segs = segs
BY DEF State

\* A segment that is sent for the first time.
LEMMA SegmentType == ASSUME NEW r \in Rtos PROVE Segment(r) \in SegmentRec
<1>1. r \in -(Late + 1)..MaxRto /\ 1 \in 1..(FastLimit + 1) /\ 0 \in 0..FastResend
  BY Constants DEF Rtos
<1> QED
  BY <1>1 DEF Segment, SegmentRec

\* After a flush no resend time of a segment has passed.
LEMMA FlushSegmentType ==
  ASSUME NEW s \in SegmentRec
  PROVE  FlushSegment(s) \in SegmentRec /\ FlushSegment(s).due >= 1
<1> USE Constants
<1>1. /\ s.due \in -(Late + 1)..MaxRto /\ s.rto \in MinRto..MaxRto /\ s.xmit \in 1..(FastLimit + 1)
      /\ s.fast \in 0..FastResend
  BY DEF SegmentRec, Rtos
<1> DEFINE backoff == Min({s.rto + s.rto \div 2, MaxRto})
           sent == Min({s.xmit + 1, FastLimit + 1})
<1>2. backoff \in MinRto..MaxRto
  <2>1. s.rto \div 2 \in Nat
    BY <1>1
  <2> DEFINE more == s.rto + s.rto \div 2
  <2>2. more \in Int /\ more >= MinRto
    BY <1>1, <2>1
  <2> HIDE DEF more
  <2>3. Min({more, MaxRto}) = IF more <= MaxRto THEN more ELSE MaxRto
    BY <2>2, MinOfTwo
  <2> QED
    BY <2>2, <2>3 DEF more
<1>3. sent \in 1..(FastLimit + 1)
  <2> DEFINE more == s.xmit + 1
  <2>1. more \in Int /\ more >= 1 /\ FastLimit + 1 \in Int
    BY <1>1
  <2> HIDE DEF more
  <2>2. Min({more, FastLimit + 1}) = IF more <= FastLimit + 1 THEN more ELSE FastLimit + 1
    BY <2>1, MinOfTwo
  <2> QED
    BY <2>1, <2>2 DEF more
<1>4. \A x \in SegmentRec : x.xmit = s.xmit => Transmitted(x) = [x EXCEPT !.xmit = sent]
  BY DEF Transmitted
<1>5. CASE s.due <= 0
  <2> DEFINE x == [s EXCEPT !.rto = backoff, !.due = backoff]
  <2>1. FlushSegment(s) = Transmitted(x)
    BY <1>1, <1>5 DEF FlushSegment
  <2> HIDE DEF backoff, sent
  <2>3. backoff \in -(Late + 1)..MaxRto /\ backoff \in Rtos
    BY <1>2 DEF Rtos
  <2>2. x \in SegmentRec /\ x.xmit = s.xmit /\ x.due = backoff
    BY ONLY <2>3, s \in SegmentRec DEF SegmentRec
  <2> HIDE DEF x
  <2> QED
    BY <1>2, <1>3, <1>4, <2>1, <2>2 DEF SegmentRec
<1>6. CASE s.due > 0 /\ s.fast >= FastResend /\ s.xmit <= FastLimit
  <2> DEFINE x == [s EXCEPT !.due = s.rto, !.fast = 0]
  <2>1. FlushSegment(s) = Transmitted(x)
    BY <1>1, <1>6 DEF FlushSegment
  <2> HIDE DEF backoff, sent
  <2> DEFINE r == s.rto
  <2>3. r \in -(Late + 1)..MaxRto /\ 0 \in 0..FastResend
    BY <1>1
  <2>4. x = [s EXCEPT !.due = r, !.fast = 0]
    OBVIOUS
  <2> HIDE DEF r, x
  <2>2. x \in SegmentRec /\ x.xmit = s.xmit /\ x.due = r
    BY ONLY <2>3, <2>4, s \in SegmentRec DEF SegmentRec
  <2> QED
    BY <1>1, <1>3, <1>4, <2>1, <2>2 DEF SegmentRec, r
<1>7. CASE s.due > 0 /\ ~ (s.fast >= FastResend /\ s.xmit <= FastLimit)
  <2>1. FlushSegment(s) = s
    BY <1>1, <1>7 DEF FlushSegment
  <2> QED
    BY <1>1, <1>7, <2>1
<1> QED
  BY <1>1, <1>5, <1>6, <1>7

\* All segments have their resend times before them.
Resent(st) == \A i \in 1..Len(st.segs) : st.segs[i].due >= 1

SameSession(st, t) == st.phase = t.phase /\ st.timer = t.timer /\ st.queued = t.queued

\* flush
LEMMA FlushType ==
  ASSUME NEW k \in CoreRec, NEW f, f = Flush(k)
  PROVE  /\ f \in CoreRec /\ SameSession(f, k) /\ f.flush = k.flush
         /\ Len(f.segs) = Len(k.segs) /\ Resent(f)
<1> DEFINE segs1 == [i \in DOMAIN k.segs |-> FlushSegment(k.segs[i])]
<1>1. k.segs \in Seq(SegmentRec) /\ DOMAIN k.segs = 1..Len(k.segs) /\ Len(k.segs) \in Nat
  BY DEF CoreRec
<1>2. \A i \in 1..Len(k.segs) : FlushSegment(k.segs[i]) \in SegmentRec /\ FlushSegment(k.segs[i]).due >= 1
  BY <1>1, FlushSegmentType
<1>3. /\ segs1 \in Seq(SegmentRec) /\ Len(segs1) = Len(k.segs)
      /\ \A i \in 1..Len(k.segs) : segs1[i].due >= 1
  BY <1>1, <1>2
<1>4. f = [k EXCEPT !.segs = segs1]
  BY DEF Flush
<1> HIDE DEF segs1
<1>5. f \in CoreRec /\ SameSession(f, k) /\ f.flush = k.flush /\ f.segs = segs1
  BY <1>3, <1>4 DEF CoreRec, SameSession
<1> QED
  BY <1>3, <1>5 DEF Resent

\* update: afterwards ts_flush has not come yet.
LEMMA UpdateType ==
  ASSUME NEW k \in CoreRec, NEW u, u = Update(k)
  PROVE  /\ u \in CoreRec /\ SameSession(u, k) /\ Len(u.segs) = Len(k.segs)
         /\ u.flush \in 1..Interval
         /\ k.flush <= 0 => Resent(u)
         /\ k.flush > 0 => u = k
<1> USE Constants
<1>1. k.flush \in -Interval..Interval
  BY DEF CoreRec
<1>2. CASE k.flush <= 0
  <2> DEFINE n == IF k.flush + Interval <= 0 THEN Interval ELSE k.flush + Interval
             x == [k EXCEPT !.flush = n]
  <2>1. n \in 1..Interval
    BY <1>1, <1>2
  <2>2. u = Flush(x)
    BY <1>2 DEF Update
  <2>5. n \in -Interval..Interval
    BY <2>1
  <2> HIDE DEF n
  <2>3. x \in CoreRec /\ SameSession(x, k) /\ x.flush = n /\ x.segs = k.segs
    BY ONLY <2>5, k \in CoreRec DEF CoreRec, SameSession
  <2> HIDE DEF x
  <2>4. u \in CoreRec /\ SameSession(u, x) /\ u.flush = x.flush /\ Len(u.segs) = Len(x.segs) /\ Resent(u)
    BY <2>2, <2>3, FlushType
  <2> QED
    BY <1>1, <1>2, <2>1, <2>3, <2>4 DEF SameSession
<1>3. CASE k.flush > 0
  <2>1. ~ (k.flush <= 0) /\ k.flush \in 1..Interval
    BY <1>1, <1>3
  <2>2. u = k
    BY ONLY u = Update(k), <2>1 DEF Update
  <2>3. SameSession(k, k)
    BY ONLY DEF SameSession
  <2> QED
    BY ONLY <2>1, <2>2, <2>3, k \in CoreRec, Zenon
<1> QED
  BY <1>1, <1>2, <1>3

\* flush_now
LEMMA FlushNowType ==
  ASSUME NEW k \in CoreRec, NEW f, f = FlushNow(k)
  PROVE  /\ f \in CoreRec /\ SameSession(f, k) /\ Len(f.segs) = Len(k.segs)
         /\ f.flush \in 1..Interval /\ Resent(f)
<1> DEFINE u == Update(k)
<1>1. u \in CoreRec /\ SameSession(u, k) /\ Len(u.segs) = Len(k.segs) /\ u.flush \in 1..Interval
  BY UpdateType
<1>2. f = Flush(u)
  BY DEF FlushNow
<1> HIDE DEF u
<1>3. f \in CoreRec /\ SameSession(f, u) /\ f.flush = u.flush /\ Len(f.segs) = Len(u.segs) /\ Resent(f)
  BY <1>1, <1>2, FlushType
<1> QED
  BY <1>1, <1>3 DEF SameSession
-----------------------------------------------------------------------------
(* Acknowledgements. *)

\* A segment that is not acknowledged, as Acknowledge keeps it.
Counted(passed, i) ==
  IF i \in passed THEN [segs[i] EXCEPT !.fast = Min({@ + 1, FastResend})] ELSE segs[i]

\* g holds what is kept of the first n segments.
IsRun(g, acked, passed, n) ==
  g = [i \in 0..n |->
         IF i = 0 THEN <<>>
         ELSE IF i \in acked THEN g[i - 1] ELSE Append(g[i - 1], Counted(passed, i))]

\* The segments taken one by one: the recursion has a solution.
LEMMA RunExists ==
  ASSUME NEW acked, NEW passed, NEW len \in Nat
  PROVE  \E g : IsRun(g, acked, passed, len)
<1> USE DEF IsRun
<1> DEFINE Run(n, g) == IsRun(g, acked, passed, n)
           None0 == {n \in Nat : ~ \E g : Run(n, g)}
           Step(x, i) == IF i \in acked THEN x ELSE Append(x, Counted(passed, i))
<1> SUFFICES ASSUME None0 # {} PROVE FALSE
  OBVIOUS
<1>1. PICK n \in None0 : \A m \in None0 : n <= m
  BY LeastNumber
<1>2. CASE n = 0
  <2> DEFINE g == [i \in 0..0 |-> <<>>]
  <2>1. Run(0, g)
    OBVIOUS
  <2> QED
    BY <1>1, <1>2, <2>1
<1>3. CASE n # 0
  <2>1. n \in Nat /\ n - 1 \in Nat /\ n - 1 \notin None0
    <3>1. None0 \in SUBSET Nat
      OBVIOUS
    <3> HIDE DEF None0
    <3> QED
      BY <1>1, <1>3, <3>1
  <2>2. PICK g : Run(n - 1, g)
    BY <2>1
  <2> DEFINE h == [i \in 0..n |-> IF i = n THEN Step(g[n - 1], n) ELSE g[i]]
  <2>3. \A i \in 0..n : h[i] = IF i = 0 THEN <<>> ELSE Step(h[i - 1], i)
    <3> SUFFICES ASSUME NEW i \in 0..n
                 PROVE  h[i] = IF i = 0 THEN <<>> ELSE Step(h[i - 1], i)
      OBVIOUS
    <3>1. CASE i = n
      <4>1. h[i - 1] = g[i - 1] /\ h[i] = Step(g[i - 1], i)
        BY <1>3, <2>1, <3>1
      <4> QED
        BY <1>3, <3>1, <4>1
    <3>2. CASE i # n /\ i # 0
      <4>1. i \in 0..(n - 1) /\ i - 1 \in 0..n /\ i - 1 # n
        BY <2>1, <3>2
      <4>2. h[i] = g[i] /\ h[i - 1] = g[i - 1]
        BY <3>2, <4>1
      <4>3. g[i] = Step(g[i - 1], i)
        BY <2>2, <3>2, <4>1
      <4> QED
        BY <3>2, <4>2, <4>3
    <3>3. CASE i # n /\ i = 0
      <4>1. h[0] = g[0] /\ g[0] = <<>>
        BY <2>1, <2>2, <3>3
      <4> QED
        BY <3>3, <4>1
    <3> QED
      BY <3>1, <3>2, <3>3
  <2>4. Run(n, h)
    BY <2>3
  <2> QED
    BY <1>1, <2>4
<1> QED
  BY <1>2, <1>3

\* parse_ack and parse_una leave segments, and no more than there were.
LEMMA AcknowledgeType ==
  ASSUME segs \in Seq(SegmentRec), NEW acked, NEW passed
  PROVE  Acknowledge(acked, passed) \in Seq(SegmentRec) /\ Len(Acknowledge(acked, passed)) <= Len(segs)
<1> USE Constants
<1> DEFINE Run(g) == IsRun(g, acked, passed, Len(segs))
           run == CHOOSE g : Run(g)
<1>1. Len(segs) \in Nat
  OBVIOUS
<1>2. \E g : Run(g)
  BY <1>1, RunExists
<1>3. Run(run)
  BY ONLY <1>2, Zenon
<1>4. Acknowledge(acked, passed) = run[Len(segs)]
  BY DEF Acknowledge, IsRun, Counted
<1>5. /\ run[0] = <<>>
      /\ \A i \in 1..Len(segs) :
           run[i] = IF i \in acked THEN run[i - 1] ELSE Append(run[i - 1], Counted(passed, i))
  <2> HIDE DEF run
  <2> DEFINE E(i) == IF i = 0 THEN <<>>
                     ELSE IF i \in acked THEN run[i - 1] ELSE Append(run[i - 1], Counted(passed, i))
  <2>1. run = [i \in 0..Len(segs) |-> E(i)]
    BY <1>3 DEF IsRun
  <2>2. \A i \in 0..Len(segs) : run[i] = E(i)
    <3> HIDE DEF E
    <3> QED
      BY <2>1
  <2>3. 0 \in 0..Len(segs) /\ \A i \in 1..Len(segs) : i \in 0..Len(segs) /\ i # 0
    BY <1>1
  <2> QED
    BY ONLY <2>2, <2>3
<1> HIDE DEF run
<1>6. \A i \in 1..Len(segs) : Counted(passed, i) \in SegmentRec
  <2> SUFFICES ASSUME NEW i \in 1..Len(segs) PROVE Counted(passed, i) \in SegmentRec
    OBVIOUS
  <2>0. segs[i] \in SegmentRec
    BY ONLY segs \in Seq(SegmentRec), i \in 1..Len(segs)
  <2>1. segs[i] \in SegmentRec /\ segs[i].fast \in 0..FastResend
    BY ONLY <2>0 DEF SegmentRec
  <2> DEFINE more == segs[i].fast + 1
             n == Min({more, FastResend})
  <2>2. more \in Nat
    BY <2>1
  <2> HIDE DEF more
  <2>3. n \in 0..FastResend
    BY <2>2, MinOfTwo
  <2>4. [segs[i] EXCEPT !.fast = Min({@ + 1, FastResend})] = [segs[i] EXCEPT !.fast = n]
    BY <2>1 DEF SegmentRec, more
  <2> HIDE DEF n
  <2> QED
    BY <2>1, <2>3, <2>4 DEF Counted, SegmentRec
<1> DEFINE Fine(i) == run[i] \in Seq(SegmentRec) /\ Len(run[i]) <= i
           Bad == {i \in 0..Len(segs) : ~ Fine(i)}
<1> SUFFICES ASSUME Bad # {} PROVE FALSE
  BY <1>1, <1>4
<1>7. PICK n \in Bad : \A m \in Bad : n <= m
  <2>1. Bad \in SUBSET Nat
    BY <1>1
  <2> HIDE DEF Bad
  <2> QED
    BY <2>1, LeastNumber
<1>8. n # 0 /\ n - 1 \in 0..Len(segs) /\ n \in 1..Len(segs)
  <2>1. Fine(0)
    BY <1>5
  <2>2. n \in 0..Len(segs) /\ ~ Fine(n)
    BY <1>7
  <2> HIDE DEF Fine
  <2> QED
    BY <1>1, <2>1, <2>2
<1>9. Fine(n - 1)
  BY <1>7, <1>8
<1>10. Fine(n)
  <2>1. CASE n \in acked
    BY <1>5, <1>8, <1>9, <2>1
  <2>2. CASE n \notin acked
    <3> DEFINE x == run[n - 1]
               c == Counted(passed, n)
    <3>1. x \in Seq(SegmentRec) /\ c \in SegmentRec /\ Len(x) <= n - 1 /\ run[n] = Append(x, c)
      BY <1>5, <1>6, <1>8, <1>9, <2>2
    <3> HIDE DEF x, c
    <3> QED
      BY <1>8, <3>1
  <2> QED
    BY <2>1, <2>2
<1> QED
  BY <1>7, <1>10

-----------------------------------------------------------------------------
(* The endpoint's timers. *)

\* A core all of whose KCP timers were just served.
Served(st) ==
  /\ st \in CoreRec /\ Len(st.segs) <= SendWindow
  /\ st.flush \in 1..Interval /\ Resent(st)

\* It is not late, if its close deadline is not.
LEMMA ServedIsGood ==
  ASSUME NEW st, Served(st), NEW slack \in Nat, st.phase \in Closing \cup {"Open"},
         st.phase \in Timed => st.timer >= -slack
  PROVE  Good(st, slack)
<1> USE Constants
<1>1. st.segs \in Seq(SegmentRec)
  BY DEF Served, CoreRec
<1>2. \A s \in SegmentRec : s.due \in Int
  BY DEF SegmentRec
<1>3. \A i \in 1..Len(st.segs) : st.segs[i].due \in Int /\ st.segs[i].due >= 1
  BY <1>1, <1>2 DEF Served, Resent
<1>4. Timely(st, slack)
  <2>1. st.flush \in 1..Interval
    BY DEF Served
  <2>2. \A i \in 1..Len(st.segs) : st.segs[i].due >= -Interval - slack /\ st.segs[i].due >= st.flush - Interval
    BY <1>3, <2>1
  <2>3. st.flush >= -slack
    BY <2>1
  <2> QED
    BY <2>2, <2>3 DEF Timely
<1> QED
  BY <1>4 DEF Served, Good

\* queue_local_close
LEMMA QueueGood ==
  ASSUME NEW slack \in Nat, NEW st, Good(st, slack), NEW r \in Rtos, NEW t, t = QueueLocalClose(st, r)
  PROVE  /\ Good(t, slack) /\ t.phase = st.phase /\ t.timer = st.timer
         /\ t = st \/ t.queued # st.queued
         /\ Served(st) => Served(t)
<1> USE Constants
<1>1. CASE st.phase = "ClosingLocal" /\ ~ st.queued /\ st.timer > 0 /\ Len(st.segs) < SendWindow
  <2> DEFINE more == Append(st.segs, Segment(r))
             x == [st EXCEPT !.segs = more]
             f == FlushNow(x)
  <2>1. st \in CoreRec /\ st.segs \in Seq(SegmentRec) /\ Segment(r) \in SegmentRec
    BY SegmentType DEF Good, CoreRec
  <2>2. more \in Seq(SegmentRec) /\ Len(more) = Len(st.segs) + 1
    BY <2>1
  <2>3. t = [f EXCEPT !.queued = TRUE]
    BY <1>1 DEF QueueLocalClose
  <2> HIDE DEF more
  <2>4. x \in CoreRec /\ SameSession(x, st) /\ x.segs = more
    BY <2>1, <2>2 DEF CoreRec, SameSession
  <2> HIDE DEF x
  <2>5. f \in CoreRec /\ SameSession(f, x) /\ Len(f.segs) = Len(x.segs) /\ f.flush \in 1..Interval /\ Resent(f)
    BY <2>4, FlushNowType
  <2> HIDE DEF f
  <2>6. /\ t \in CoreRec /\ t.phase = f.phase /\ t.timer = f.timer /\ t.queued = TRUE
        /\ t.segs = f.segs /\ t.flush = f.flush
    BY <2>3, <2>5 DEF CoreRec
  <2>7. Len(t.segs) <= SendWindow
    BY <1>1, <2>1, <2>2, <2>4, <2>5, <2>6
  <2>8. Served(t)
    BY <2>5, <2>6, <2>7 DEF Served, Resent
  <2>9. t.phase = "ClosingLocal" /\ t.timer = st.timer /\ t.phase = st.phase /\ t.timer > 0
    BY <1>1, <2>4, <2>5, <2>6 DEF SameSession
  <2>10. st.timer \in Int
    <3>1. Max({CloseTicks, TombTicks}) \in Int
      BY MaxOfTwo
    <3> QED
      BY <2>1, <3>1 DEF CoreRec
  <2>11. Good(t, slack)
    BY <2>8, <2>9, <2>10, ServedIsGood DEF Closing
  <2> QED
    BY <1>1, <2>6, <2>8, <2>9, <2>11
<1>2. CASE ~ (st.phase = "ClosingLocal" /\ ~ st.queued /\ st.timer > 0 /\ Len(st.segs) < SendWindow)
  <2>1. t = st
    BY <1>2 DEF QueueLocalClose
  <2> QED
    BY <2>1
<1> QED
  BY <1>1, <1>2

\* finish_closed_session: afterwards a close deadline has not come yet.
LEMMA FinishGood ==
  ASSUME NEW slack \in Nat, NEW st, Good(st, slack), NEW t, t = Finish(st)
  PROVE  /\ Good(t, slack) /\ (t.phase \in Closing => t = st /\ st.timer > 0)
         /\ t = st \/ t.phase = "Tombstone"
         /\ t.phase = "Tombstone" => t = st \/ t.timer = TombTicks
<1> USE Constants
<1>1. CASE Done(st)
  <2>1. t = [st EXCEPT !.phase = "Tombstone", !.timer = TombTicks, !.queued = FALSE, !.segs = <<>>]
    BY <1>1 DEF Finish
  <2>2. /\ TombTicks \in -(Late + 1)..Max({CloseTicks, TombTicks}) /\ <<>> \in Seq(SegmentRec)
        /\ "Tombstone" \in AllPhases /\ Len(<<>>) = 0
    BY MaxOfTwo DEF AllPhases
  <2>3. t \in CoreRec /\ t.phase = "Tombstone" /\ t.timer = TombTicks /\ t.segs = <<>>
    <3>1. st \in CoreRec
      BY DEF Good
    <3> QED
      BY ONLY <2>1, <2>2, <3>1 DEF CoreRec
  <2>4. Good(t, slack)
    BY <2>2, <2>3 DEF Good, Timely
  <2> QED
    BY <2>3, <2>4 DEF Closing
<1>2. CASE ~ Done(st)
  <2>1. t = st
    BY <1>2 DEF Finish
  <2>2. st.timer \in Int
    <3>1. Max({CloseTicks, TombTicks}) \in Int
      BY MaxOfTwo
    <3> QED
      BY <3>1 DEF CoreRec, Good
  <2> QED
    BY <1>2, <2>1, <2>2 DEF Done
<1> QED
  BY <1>1, <1>2

-----------------------------------------------------------------------------
(* Deadlines. *)

\* The types of the core's state.
LEMMA CoreTypes ==
  ASSUME NEW slack \in Nat, Good(State, slack)
  PROVE  /\ phase \in AllPhases /\ timer \in -(Late + 1)..Max({CloseTicks, TombTicks}) /\ timer \in Int
         /\ flush \in -Interval..Interval /\ flush \in Int
         /\ segs \in Seq(SegmentRec) /\ Len(segs) \in 0..SendWindow /\ DOMAIN segs = 1..Len(segs)
         /\ \A i \in 1..Len(segs) : segs[i] \in SegmentRec /\ segs[i].due \in Int
         /\ segs = <<>> <=> Len(segs) = 0
<1> USE Constants
<1>1. State \in CoreRec /\ Len(State.segs) <= SendWindow
  BY DEF Good
<1>2. /\ phase \in AllPhases /\ timer \in -(Late + 1)..Max({CloseTicks, TombTicks})
      /\ flush \in -Interval..Interval /\ segs \in Seq(SegmentRec)
  BY <1>1, StateFields DEF CoreRec
<1>3. timer \in Int
  <2>1. Max({CloseTicks, TombTicks}) \in Int
    BY MaxOfTwo
  <2> QED
    BY <1>2, <2>1
<1>4. \A s \in SegmentRec : s.due \in Int
  BY DEF SegmentRec
<1>5. Len(segs) \in 0..SendWindow
  BY <1>1, <1>2, StateFields
<1> QED
  BY <1>2, <1>3, <1>4, <1>5

\* A resend time or ts_flush has passed at the time age ago.
FlushDue(age) == flush + age <= 0 \/ \E i \in 1..Len(segs) : segs[i].due + age <= 0

\* check
LEMMA CheckFacts ==
  ASSUME NEW slack \in Nat, Good(State, slack), NEW age \in Nat
  PROVE  /\ FlushDue(age) => Check(age) = 0
         /\ ~ FlushDue(age) => /\ Check(age) \in Nat \ {0} /\ Check(age) <= flush + age
                               /\ \A i \in 1..Len(segs) : Check(age) <= segs[i].due + age
<1> USE Constants
<1> DEFINE dues == {segs[i].due + age : i \in DOMAIN segs}
           all == dues \cup {flush + age, Interval}
<1>1. /\ flush \in Int /\ DOMAIN segs = 1..Len(segs)
      /\ \A i \in 1..Len(segs) : segs[i].due \in Int
  BY CoreTypes
<1>2. FlushDue(age) <=> flush + age <= 0 \/ \E d \in dues : d <= 0
  BY <1>1 DEF FlushDue
<1>3. Check(age) = IF flush + age <= 0 \/ \E d \in dues : d <= 0 THEN 0 ELSE Min(all)
  BY DEF Check
<1>4. ASSUME ~ FlushDue(age)
      PROVE  /\ Check(age) \in Nat \ {0} /\ Check(age) <= flush + age
             /\ \A i \in 1..Len(segs) : Check(age) <= segs[i].due + age
  <2>1. all \in SUBSET (Nat \ {0}) /\ all # {}
    BY <1>1, <1>4 DEF FlushDue
  <2>2. flush + age \in all /\ \A i \in 1..Len(segs) : segs[i].due + age \in all
    BY <1>1
  <2>3. Check(age) = Min(all)
    BY <1>2, <1>3, <1>4
  <2> HIDE DEF all
  <2>4. Min(all) \in all /\ \A m \in all : Min(all) <= m
    BY <2>1, MinIsLeast
  <2> QED
    BY <2>1, <2>2, <2>3, <2>4
<1> QED
  BY <1>2, <1>3, <1>4

\* next_deadline: the loop polls if a deadline has passed and otherwise sleeps no
\* longer than to the first.
LEMMA DeadlineFacts ==
  ASSUME NEW slack \in Nat, Good(State, slack), NEW age \in Nat, NEW ds, ds = NextDeadlines(age)
  PROVE  /\ (\E d \in ds : d <= 0) => Expired(age)
         /\ ~ (\E d \in ds : d <= 0) =>
              \A w : w = (IF ds = {} THEN IdleSleep ELSE Min(ds \cup {MaxSleep})) =>
                /\ w \in 0..Max({MaxSleep, IdleSleep})
                /\ phase \in Timed => w <= timer + age /\ timer + age > 0
                /\ segs # <<>> => w <= flush + age /\ flush + age > 0
                /\ \A i \in 1..Len(segs) : w <= segs[i].due + age /\ segs[i].due + age > 0
<1> USE Constants
<1> DEFINE c == Check(age)
<1>1. ds = (IF segs # <<>> THEN {c} ELSE {}) \cup (IF phase \in Timed THEN {timer + age} ELSE {})
  BY DEF NextDeadlines, Timed
<1>2. /\ FlushDue(age) => c = 0
      /\ ~ FlushDue(age) => /\ c \in Nat \ {0} /\ c <= flush + age
                            /\ \A i \in 1..Len(segs) : c <= segs[i].due + age
  BY CheckFacts
<1>3. /\ timer \in Int /\ flush \in Int /\ (segs = <<>> <=> Len(segs) = 0) /\ Len(segs) \in Nat
      /\ \A i \in 1..Len(segs) : segs[i].due \in Int
  BY CoreTypes
<1> HIDE DEF c
<1>4. Expired(age) <=> (phase \in Timed /\ timer + age <= 0) \/ (segs # <<>> /\ FlushDue(age))
  BY DEF Expired, FlushDue
<1>5. (\E d \in ds : d <= 0) => Expired(age)
  BY <1>1, <1>2, <1>3, <1>4
<1>6. ASSUME ~ (\E d \in ds : d <= 0), NEW w, w = (IF ds = {} THEN IdleSleep ELSE Min(ds \cup {MaxSleep}))
      PROVE  /\ w \in 0..Max({MaxSleep, IdleSleep})
             /\ phase \in Timed => w <= timer + age /\ timer + age > 0
             /\ segs # <<>> => w <= flush + age /\ flush + age > 0
             /\ \A i \in 1..Len(segs) : w <= segs[i].due + age /\ segs[i].due + age > 0
  <2>1. segs # <<>> => ~ FlushDue(age) /\ c \in ds
    BY <1>1, <1>2, <1>6
  <2>2. ASSUME phase \in Timed PROVE timer + age > 0 /\ timer + age \in ds
    <3>1. timer + age \in ds
      BY <1>1, <2>2
    <3> QED
      BY <1>3, <1>6, <3>1
  <2>3. ds \in SUBSET Nat
    BY <1>1, <1>2, <1>3, <1>6
  <2>4. w \in Nat /\ w <= Max({MaxSleep, IdleSleep}) /\ \A d \in ds : w <= d
    <3>1. Max({MaxSleep, IdleSleep}) = IF MaxSleep >= IdleSleep THEN MaxSleep ELSE IdleSleep
      BY MaxOfTwo
    <3>2. CASE ds = {}
      BY <1>6, <3>1, <3>2
    <3>3. CASE ds # {}
      <4> DEFINE all == ds \cup {MaxSleep}
      <4>1. all \in SUBSET Nat /\ all # {} /\ w = Min(all)
        BY <1>6, <2>3, <3>3
      <4>2. MaxSleep \in all /\ \A d \in ds : d \in all
        OBVIOUS
      <4> HIDE DEF all
      <4>3. w \in all /\ \A m \in all : w <= m
        BY <4>1, MinIsLeast
      <4>4. w \in Nat /\ w <= MaxSleep
        BY <4>1, <4>2, <4>3
      <4>5. MaxSleep <= Max({MaxSleep, IdleSleep}) /\ Max({MaxSleep, IdleSleep}) \in Nat
        BY <3>1
      <4>6. w <= Max({MaxSleep, IdleSleep})
        BY <4>4, <4>5
      <4> QED
        BY <4>2, <4>3, <4>4, <4>6
    <3> QED
      BY <3>2, <3>3
  <2>5. w \in 0..Max({MaxSleep, IdleSleep})
    <3>1. Max({MaxSleep, IdleSleep}) \in Int
      BY MaxOfTwo
    <3> QED
      BY <2>4, <3>1
  <2>6. phase \in Timed => w <= timer + age /\ timer + age > 0
    BY <2>2, <2>4
  <2>7. ASSUME segs # <<>>
        PROVE  /\ w <= flush + age /\ flush + age > 0
               /\ \A i \in 1..Len(segs) : w <= segs[i].due + age /\ segs[i].due + age > 0
    <3>1. w <= c /\ c \in Nat \ {0} /\ c <= flush + age /\ \A i \in 1..Len(segs) : c <= segs[i].due + age
      BY <1>2, <2>1, <2>4, <2>7
    <3> QED
      BY <1>3, <2>4, <3>1
  <2>8. \A i \in 1..Len(segs) : segs # <<>>
    BY <1>3
  <2> QED
    BY <2>5, <2>6, <2>7, <2>8
<1> QED
  BY <1>5, <1>6

-----------------------------------------------------------------------------
(* Steps of the other tasks. *)

\* What Store leaves behind.
LEMMA StoreGood ==
  ASSUME NEW slack \in Nat, NEW st, Good(st, slack), Store(st)
  PROVE  Good(State', slack)
<1> USE Constants
<1> DEFINE f == IF st.phase \in {"None", "Tombstone"} THEN Interval ELSE st.flush
           t == [phase |-> st.phase, timer |-> st.timer, queued |-> st.queued, flush |-> f, segs |-> st.segs]
<1>1. State' = t
  BY DEF Store, State
<1>2. st \in CoreRec /\ f \in -Interval..Interval
  BY DEF Good, CoreRec
<1>3. st.segs # <<>> => f = st.flush
  BY DEF Good, Timely, Closing
<1>4. \A i \in 1..Len(st.segs) : st.segs # <<>>
  <2>1. st.segs \in Seq(SegmentRec)
    BY <1>2 DEF CoreRec
  <2> QED
    BY <2>1
<1> HIDE DEF f
<1>5. t \in CoreRec
  BY <1>2 DEF CoreRec
<1>6. t.phase = st.phase /\ t.timer = st.timer /\ t.segs = st.segs /\ t.flush = f
  OBVIOUS
<1> HIDE DEF t
<1>7. Good(t, slack)
  BY <1>3, <1>4, <1>5, <1>6 DEF Good, Timely
<1> QED
  BY <1>1, <1>7

\* The slack of a step that leaves the loop alone.
LEMMA SlackType == ASSUME LoopTypes PROVE Slack \in Nat /\ Stall \in Nat /\ stall \in Nat
BY Constants DEF LoopTypes, Slack

\* A call of the core: the loop is told after it.
LEMMA CallStep ==
  ASSUME IInv, Call, NEW st, Good(st, Slack), Store(st)
  PROVE  IInv'
<1> USE Constants
<1>1. LoopTypes /\ Slack \in Nat
  BY SlackType DEF IInv
<1>2. owed' \in 0..MaxOwed /\ owed' # 0 /\ UNCHANGED <<pc, wake, stall, permit>>
  BY <1>1 DEF Call, LoopTypes, loop
<1>3. Slack' = Slack
  BY <1>2 DEF Slack
<1>4. Good(State', Slack)
  BY <1>1, StoreGood
<1>5. (Good(State, Slack))'
  BY <1>3, <1>4 DEF Good, Timely
<1>6. LoopTypes'
  BY <1>1, <1>2 DEF LoopTypes
<1>7. ~ Informed'
  BY <1>2 DEF Informed
<1> QED
  BY <1>5, <1>6, <1>7 DEF IInv, Asleep, Polling

\* SessionOpen
LEMMA OpenStep == ASSUME IInv, NEW r \in Rtos, SessionOpen(r) PROVE IInv'
<1> USE Constants
<1> DEFINE one == <<Segment(r)>>
           st == [State EXCEPT !.phase = "Open", !.flush = Interval, !.segs = one]
<1>1. Slack \in Nat /\ State \in CoreRec
  BY SlackType DEF IInv, Good
<1>2. one \in Seq(SegmentRec) /\ Len(one) = 1 /\ \A i \in 1..Len(one) : one[i] = Segment(r)
  BY SegmentType
<1>3. "Open" \in AllPhases /\ Interval \in -Interval..Interval
  BY DEF AllPhases
<1>4. Call /\ Store(st)
  BY DEF SessionOpen
<1>5. Segment(r).due >= 1
  BY DEF Segment, Rtos
<1> HIDE DEF one
<1>6. st \in CoreRec /\ st.phase = "Open" /\ st.flush = Interval /\ st.segs = one
  BY ONLY <1>1, <1>2, <1>3 DEF CoreRec
<1> HIDE DEF st
<1>7. Served(st)
  <2>0. Len(st.segs) = 1 /\ 1 <= SendWindow /\ Interval \in 1..Interval
    BY <1>2, <1>6
  <2>1. Len(st.segs) <= SendWindow /\ st.flush \in 1..Interval
    BY ONLY <1>6, <2>0
  <2>2. Resent(st)
    BY <1>2, <1>5, <1>6 DEF Resent
  <2> QED
    BY <1>6, <2>1, <2>2 DEF Served
<1>8. Good(st, Slack)
  BY <1>1, <1>6, <1>7, ServedIsGood DEF Timed, Closing
<1> QED
  BY <1>4, <1>8, CallStep

\* SessionWrite
LEMMA WriteStep == ASSUME IInv, NEW r \in Rtos, SessionWrite(r) PROVE IInv'
<1> USE Constants
<1> DEFINE more == Append(segs, Segment(r))
           x == [State EXCEPT !.segs = more]
           st == FlushNow(x)
<1>1. Slack \in Nat /\ State \in CoreRec /\ Good(State, Slack)
  BY SlackType DEF IInv, Good
<1>2. segs \in Seq(SegmentRec) /\ Len(segs) \in 0..SendWindow
  BY <1>1, CoreTypes
<1>3. more \in Seq(SegmentRec) /\ Len(more) = Len(segs) + 1
  BY <1>2, SegmentType
<1>4. x = [State EXCEPT !.segs = Append(@, Segment(r))]
  BY StateFields DEF State
<1>5. Call /\ Store(st) /\ phase = "Open" /\ Len(segs) < SendWindow
  BY <1>4 DEF SessionWrite
<1> HIDE DEF more
<1>6. x \in CoreRec /\ SameSession(x, State) /\ x.segs = more
  BY ONLY <1>1, <1>3 DEF CoreRec, SameSession
<1> HIDE DEF x
<1>7. st \in CoreRec /\ SameSession(st, x) /\ Len(st.segs) = Len(x.segs) /\ st.flush \in 1..Interval /\ Resent(st)
  BY <1>6, FlushNowType
<1> HIDE DEF st
<1>8. Served(st) /\ st.phase = "Open"
  BY <1>2, <1>3, <1>5, <1>6, <1>7, StateFields DEF Served, SameSession
<1>9. Good(st, Slack)
  BY <1>1, <1>8, ServedIsGood DEF Timed, Closing
<1> QED
  BY <1>5, <1>9, CallStep

\* A session that begins to close.
LEMMA CloseGood ==
  ASSUME NEW slack \in Nat, NEW st, Good(st, slack), NEW ph \in Closing, st.phase = "Open",
         NEW t, t = [st EXCEPT !.phase = ph, !.timer = CloseTicks]
  PROVE  Good(t, slack) /\ t.phase = ph
<1> USE Constants
<1>0. Max({CloseTicks, TombTicks}) = IF CloseTicks >= TombTicks THEN CloseTicks ELSE TombTicks
  BY MaxOfTwo
<1>1. ph \in AllPhases /\ CloseTicks \in -(Late + 1)..Max({CloseTicks, TombTicks}) /\ st \in CoreRec
  <2>1. CloseTicks \in -(Late + 1)..Max({CloseTicks, TombTicks})
    BY <1>0
  <2> QED
    BY <2>1 DEF AllPhases, Good
<1>2. t \in CoreRec /\ t.phase = ph /\ t.timer = CloseTicks /\ t.segs = st.segs /\ t.flush = st.flush
  BY ONLY <1>1, t = [st EXCEPT !.phase = ph, !.timer = CloseTicks] DEF CoreRec
<1> QED
  BY <1>2 DEF Good, Timely

\* SessionClose
LEMMA CloseStep == ASSUME IInv, NEW r \in Rtos, SessionClose(r) PROVE IInv'
<1> DEFINE x == [State EXCEPT !.phase = "ClosingLocal", !.timer = CloseTicks]
           st == QueueLocalClose(x, r)
<1>1. Slack \in Nat /\ Good(State, Slack)
  BY SlackType DEF IInv
<1>2. Call /\ Store(st) /\ State.phase = "Open"
  BY StateFields DEF SessionClose
<1>3. Good(x, Slack)
  BY <1>1, <1>2, CloseGood DEF Closing
<1> HIDE DEF x
<1>4. Good(st, Slack)
  BY <1>1, <1>3, QueueGood
<1> HIDE DEF st
<1> QED
  BY <1>2, <1>4, CallStep

\* A packet of the peer
LEMMA ReceiveStep ==
  ASSUME IInv, NEW r \in Rtos, NEW close \in BOOLEAN, NEW acked, NEW passed, Receive(acked, passed, close, r)
  PROVE  IInv'
<1> USE Constants
<1> DEFINE left == Acknowledge(acked, passed)
           x == [State EXCEPT !.segs = left]
           input == FlushNow(x)
           read == IF close THEN [input EXCEPT !.phase = "ClosingRemote", !.timer = CloseTicks] ELSE input
           queue == QueueLocalClose(read, r)
           st == Finish(queue)
<1>1. Slack \in Nat /\ State \in CoreRec /\ Good(State, Slack)
  BY SlackType DEF IInv, Good
<1>2. segs \in Seq(SegmentRec) /\ Len(segs) \in 0..SendWindow
  BY <1>1, CoreTypes
<1>3. left \in Seq(SegmentRec) /\ Len(left) <= Len(segs)
  BY <1>2, AcknowledgeType
<1>4. Call /\ Store(st) /\ phase \in Closing \cup {"Open"} /\ (close => phase = "Open")
  BY DEF Receive
<1> HIDE DEF left
<1>5. x \in CoreRec /\ SameSession(x, State) /\ x.segs = left
  BY ONLY <1>1, <1>3 DEF CoreRec, SameSession
<1> HIDE DEF x
<1>6. /\ input \in CoreRec /\ SameSession(input, x) /\ Len(input.segs) = Len(x.segs)
      /\ input.flush \in 1..Interval /\ Resent(input)
  BY <1>5, FlushNowType
<1> HIDE DEF input
<1>7. Served(input) /\ input.phase = phase /\ input.timer = timer
  BY <1>2, <1>3, <1>5, <1>6, StateFields DEF Served, SameSession
<1>8. Good(input, Slack)
  <2>1. phase \in Timed => timer >= -Slack
    BY <1>1, StateFields DEF Good, Timely
  <2> QED
    BY <1>1, <1>4, <1>7, <2>1, ServedIsGood
<1>9. Good(read, Slack)
  <2>1. CASE close
    <3> DEFINE c == [input EXCEPT !.phase = "ClosingRemote", !.timer = CloseTicks]
    <3>1. Good(c, Slack)
      BY <1>1, <1>4, <1>7, <1>8, <2>1, CloseGood DEF Closing
    <3> QED
      BY <2>1, <3>1
  <2>2. CASE ~ close
    BY <1>8, <2>2
  <2> QED
    BY <2>1, <2>2
<1> HIDE DEF read
<1>10. Good(queue, Slack)
  BY <1>1, <1>9, QueueGood
<1> HIDE DEF queue
<1>11. Good(st, Slack)
  BY <1>1, <1>10, FinishGood
<1> HIDE DEF st
<1> QED
  BY <1>4, <1>11, CallStep

\* notify_one
LEMMA NotifyStep == ASSUME IInv, Notify PROVE IInv'
<1> USE Constants
<1>1. permit' = TRUE /\ owed' = owed - 1 /\ owed > 0 /\ UNCHANGED <<phase, timer, queued, flush, segs, pc, wake, stall>>
  BY DEF Notify, core, loop
<1>2. Slack' = Slack /\ State' = State
  BY <1>1 DEF Slack, State
<1>3. LoopTypes'
  BY <1>1 DEF IInv, LoopTypes
<1>4. (Good(State, Slack))'
  BY <1>2 DEF IInv, Good, Timely
<1> QED
  BY <1>1, <1>3, <1>4 DEF IInv, Asleep, Polling, Informed

-----------------------------------------------------------------------------
(* Steps of the poll task. *)

\* What the poll task finds when it has the lock.
LEMMA DecideStep == ASSUME IInv, Decide PROVE IInv'
<1> USE Constants
<1> DEFINE ds == NextDeadlines(stall)
<1>1. /\ Slack \in Nat /\ Good(State, Slack) /\ LoopTypes /\ stall \in Nat /\ stall <= Stall
      /\ pc = "lock" /\ Slack = stall + Stall
  BY SlackType DEF IInv, Decide, Slack, LoopTypes
<1>2. UNCHANGED <<phase, timer, queued, flush, segs, permit, owed>> /\ State' = State
  BY DEF Decide, core, State
<1>3. /\ phase \in Timed => timer \in Int
      /\ flush \in Int /\ timer \in Int /\ \A i \in 1..Len(segs) : segs[i].due \in Int
  BY <1>1, CoreTypes
<1>4. CASE \E d \in ds : d <= 0
  <2>1. pc' = "poll" /\ wake' = wake /\ stall' = stall
    BY <1>4 DEF Decide
  <2>2. Expired(stall)
    <3> HIDE DEF ds
    <3> QED
      BY <1>1, <1>4, DeadlineFacts DEF ds
  <2>3. Slack' = Slack
    BY <1>1, <2>1 DEF Slack
  <2>4. LoopTypes'
    BY <1>1, <1>2, <2>1 DEF LoopTypes
  <2>5. (Good(State, Slack))'
    BY <1>1, <1>2, <2>3 DEF Good, Timely
  <2>6. Polling'
    BY <1>2, <2>1, <2>2 DEF Polling, Expired
  <2> QED
    BY <2>1, <2>4, <2>5, <2>6 DEF IInv, Asleep
<1>5. CASE ~ \E d \in ds : d <= 0
  <2>1. pc' = "sleep" /\ stall' = 0 /\ wake' = (IF ds = {} THEN IdleSleep ELSE Min(ds \cup {MaxSleep}))
    BY <1>5 DEF Decide
  <2> DEFINE w == wake'
  <2>2. /\ w \in 0..Max({MaxSleep, IdleSleep})
        /\ phase \in Timed => w <= timer + stall /\ timer + stall > 0
        /\ segs # <<>> => w <= flush + stall /\ flush + stall > 0
        /\ \A i \in 1..Len(segs) : w <= segs[i].due + stall /\ segs[i].due + stall > 0
    <3> HIDE DEF ds
    <3> QED
      BY <1>1, <1>5, <2>1, DeadlineFacts DEF ds
  <2>3. w \in Nat
    BY <2>2, MaxOfTwo
  <2>4. LoopTypes'
    BY <1>1, <1>2, <2>1, <2>2 DEF LoopTypes
  <2> HIDE DEF w
  <2>5. Slack' = Stall
    BY <2>1 DEF Slack
  <2>6. /\ phase \in Timed => timer >= -Stall
        /\ segs # <<>> => flush >= -Stall
        /\ \A i \in 1..Len(segs) : segs[i].due >= -Interval - Stall
    <3>1. Stall \in Nat /\ Interval \in Nat /\ stall \in 0..Stall
      BY <1>1, Constants DEF LoopTypes
    <3>2. ASSUME phase \in Timed PROVE timer >= -Stall
      BY <1>3, <2>2, <3>1, <3>2
    <3>3. ASSUME segs # <<>> PROVE flush >= -Stall
      BY <1>3, <2>2, <3>1, <3>3
    <3>4. ASSUME NEW i \in 1..Len(segs) PROVE segs[i].due >= -Interval - Stall
      <4>1. segs[i].due \in Int /\ segs[i].due + stall > 0
        BY <1>3, <2>2
      <4> QED
        BY <3>1, <4>1
    <3> QED
      BY <3>2, <3>3, <3>4
  <2>7. Good(State, Stall)
    BY <1>1, <2>6, StateFields DEF Good, Timely
  <2>8. (Good(State, Slack))'
    BY <1>2, <2>5, <2>7 DEF Good, Timely
  <2>9. /\ phase \in Timed => w <= timer + Stall
        /\ segs # <<>> => w <= flush + Stall
        /\ \A i \in 1..Len(segs) : w <= segs[i].due + Stall
    BY <1>1, <1>3, <2>2, <2>3
  <2>10. Asleep'
    BY <1>2, <2>9 DEF Asleep, w
  <2> QED
    BY <2>1, <2>4, <2>8, <2>10 DEF IInv, Polling
<1> QED
  BY <1>4, <1>5

\* The poll of a core: all that has come is served, but for a resend before ts_flush.
LEMMA PollGood ==
  ASSUME NEW slack \in Nat, Good(State, slack), NEW r \in Rtos, NEW t, t = PollCore(r)
  PROVE  /\ Good(t, 0)
         /\ t = State =>
              /\ phase \in Timed => timer > 0
              /\ segs # <<>> => flush > 0
<1> USE Constants
<1>1. /\ timer \in Int /\ flush \in Int /\ phase \in AllPhases /\ State \in CoreRec
      /\ \A i \in 1..Len(segs) : segs[i].due \in Int
      /\ Len(<<>>) = 0
  BY CoreTypes DEF Good
<1>2. CASE phase = "Tombstone" /\ timer <= 0
  <2>1. t = [State EXCEPT !.phase = "None", !.timer = 0]
    BY <1>2 DEF PollCore
  <2>2. "None" \in AllPhases /\ 0 \in -(Late + 1)..Max({CloseTicks, TombTicks})
    <3>1. Max({CloseTicks, TombTicks}) \in Nat
      BY MaxOfTwo
    <3> QED
      BY <3>1 DEF AllPhases
  <2>3. t \in CoreRec /\ t.phase = "None" /\ t.segs = State.segs
    BY ONLY <1>1, <2>1, <2>2 DEF CoreRec
  <2>4. State.segs = <<>>
    BY <1>2, StateFields DEF Good, Timely, Closing
  <2>5. Good(t, 0)
    BY <1>1, <2>3, <2>4 DEF Good, Timely, Timed, Closing
  <2> QED
    BY <1>2, <2>3, <2>5, StateFields
<1>3. CASE phase \in {"None", "Tombstone"} /\ ~ (phase = "Tombstone" /\ timer <= 0)
  <2>1. t = State
    BY <1>3 DEF PollCore
  <2>2. segs = <<>>
    BY <1>3, StateFields DEF Good, Timely, Closing
  <2>3. phase \in Timed => timer > 0
    BY <1>1, <1>3 DEF Timed, Closing
  <2>4. Good(State, 0)
    BY <1>1, <2>2, <2>3, StateFields DEF Good, Timely
  <2> QED
    BY <2>1, <2>2, <2>3, <2>4
<1>4. CASE phase \in Closing \cup {"Open"}
  <2> DEFINE q == QueueLocalClose(State, r)
             u == Update(q)
  <2>1. t = Finish(u)
    BY <1>4 DEF PollCore, Closing
  <2>2. Good(q, slack) /\ q.phase = phase /\ q.timer = timer /\ (q = State \/ q.queued # State.queued)
    BY QueueGood, StateFields
  <2> HIDE DEF q
  <2>3. q \in CoreRec /\ Len(q.segs) <= SendWindow /\ q.flush \in Int
    BY <2>2 DEF Good, CoreRec
  <2>4. /\ u \in CoreRec /\ SameSession(u, q) /\ Len(u.segs) = Len(q.segs)
        /\ u.flush \in 1..Interval
        /\ q.flush <= 0 => Resent(u)
        /\ q.flush > 0 => u = q
    BY <2>3, UpdateType
  <2> HIDE DEF u
  <2>5. u.phase = phase /\ u.timer = timer /\ u.queued = q.queued
    BY <2>2, <2>4 DEF SameSession
  <2>6. ASSUME NEW s \in Nat, phase \in Timed => timer >= -s PROVE Good(u, s)
    <3>1. CASE q.flush <= 0
      BY <1>4, <2>3, <2>4, <2>5, <2>6, <3>1, ServedIsGood DEF Served
    <3>2. CASE q.flush > 0
      <4>1. q.flush \in 1..Interval /\ u = q
        BY <2>4, <3>2
      <4>2. u.segs \in Seq(SegmentRec) /\ \A x \in SegmentRec : x.due \in Int
        BY <2>4 DEF CoreRec, SegmentRec
      <4>3. \A i \in 1..Len(u.segs) : u.segs[i].due \in Int
        BY <4>2
      <4>4. \A i \in 1..Len(u.segs) : u.segs[i].due >= u.flush - Interval
        BY <2>2, <4>1 DEF Good, Timely
      <4>5. \A i \in 1..Len(u.segs) : u.segs[i].due >= -Interval - s
        BY <4>1, <4>3, <4>4
      <4>6. u.flush >= -s
        BY <4>1
      <4>7. Timely(u, s)
        BY <1>4, <2>5, <2>6, <4>4, <4>5, <4>6 DEF Timely
      <4> QED
        BY <2>3, <2>4, <4>7 DEF Good
    <3> QED
      BY <2>3, <3>1, <3>2
  <2>7. phase \in Timed => timer >= -slack
    BY StateFields DEF Good, Timely
  <2>8. Good(u, slack)
    BY <2>6, <2>7
  <2>9. /\ Good(t, slack) /\ (t.phase \in Closing => t = u /\ u.timer > 0)
        /\ t = u \/ t.phase = "Tombstone"
        /\ t.phase = "Tombstone" => t = u \/ t.timer = TombTicks
    BY <2>1, <2>8, FinishGood
  <2>10. Good(t, 0)
    <3>1. CASE t = u
      <4>1. phase \in Timed => timer >= 0
        BY <1>1, <1>4, <2>5, <2>9, <3>1 DEF Timed, Closing
      <4>2. phase \in Timed => timer >= -0
        BY <1>1, <4>1
      <4> QED
        BY <2>6, <3>1, <4>2
    <3>2. CASE t # u
      <4>1. t.phase = "Tombstone" /\ t.timer = TombTicks /\ t.segs = <<>>
        BY <2>9, <3>2 DEF Good, Timely, Closing
      <4> QED
        BY <1>1, <2>9, <4>1 DEF Good, Timely
    <3> QED
      BY <3>1, <3>2
  <2>11. ASSUME t = State
         PROVE  (phase \in Timed => timer > 0) /\ flush > 0
    <3>1. t.phase # "Tombstone" /\ t = u
      BY <1>4, <2>9, <2>11, StateFields DEF Closing
    <3>2. u.flush = flush /\ phase \in Timed => timer > 0
      BY <1>4, <2>5, <2>9, <2>11, <3>1, StateFields DEF Timed
    <3> QED
      BY <1>4, <2>4, <2>5, <2>9, <2>11, <3>1, StateFields DEF Timed
  <2> QED
    BY <2>10, <2>11
<1> QED
  BY <1>1, <1>2, <1>3, <1>4 DEF AllPhases

\* poll
LEMMA PollStep == ASSUME IInv, Poll PROVE IInv'
<1>1. Slack \in Nat /\ Good(State, Slack) /\ LoopTypes /\ stall \in Nat
  BY SlackType DEF IInv
<1>2. PICK r \in Rtos : Store(PollCore(r))
  BY DEF Poll
<1> DEFINE st == PollCore(r)
<1>3. Good(st, 0)
  BY <1>1, PollGood
<1> HIDE DEF st
<1>4. Good(State', 0)
  BY <1>2, <1>3, StoreGood DEF st
<1>5. pc' = "exec" /\ UNCHANGED <<wake, stall, permit, owed>>
  BY DEF Poll
<1>6. Slack' = stall
  BY <1>1, <1>5 DEF Slack
<1>7. Good(State', stall)
  <2>1. State' \in CoreRec /\ Timely(State', 0) /\ Len(State'.segs) <= SendWindow
    BY <1>4 DEF Good
  <2> DEFINE x == State'
  <2> HIDE DEF x
  <2>2. /\ x.timer \in Int /\ x.flush \in Int /\ x.segs \in Seq(SegmentRec)
        /\ \A s \in SegmentRec : s.due \in Int
    <3>1. Max({CloseTicks, TombTicks}) \in Int
      BY Constants, MaxOfTwo
    <3> QED
      BY <2>1, <3>1, Constants DEF CoreRec, SegmentRec, x
  <2>3. \A i \in 1..Len(x.segs) : x.segs[i].due \in Int
    BY <2>2
  <2>4. Timely(x, stall)
    BY <1>1, <2>1, <2>2, <2>3, Constants DEF Timely, x
  <2> QED
    BY <2>1, <2>4 DEF Good, x
<1>8. (Good(State, Slack))'
  BY <1>6, <1>7 DEF Good, Timely
<1>9. LoopTypes'
  BY <1>1, <1>5 DEF LoopTypes
<1> QED
  BY <1>5, <1>8, <1>9 DEF IInv, Asleep, Polling

\* The loop starts again.
LEMMA TopStep ==
  ASSUME IInv, pc \in {"exec", "sleep"}, Top, UNCHANGED <<core, owed>>, permit' \in BOOLEAN
  PROVE  IInv'
<1> USE Constants
<1>1. Slack \in Nat /\ Good(State, Slack) /\ LoopTypes /\ stall \in Nat /\ Slack <= Stall
  BY SlackType DEF IInv, Slack, LoopTypes
<1>2. pc' = "lock" /\ stall' = 0 /\ wake' = 0 /\ UNCHANGED <<phase, timer, queued, flush, segs, owed>>
  BY DEF Top, core
<1>3. State' = State /\ Slack' = Stall
  BY <1>2 DEF State, Slack
<1>4. Good(State, Stall)
  <2>1. /\ timer \in Int /\ flush \in Int /\ \A i \in 1..Len(segs) : segs[i].due \in Int
    BY <1>1, CoreTypes
  <2>2. Timely(State, Stall)
    BY <1>1, <2>1, StateFields DEF Good, Timely
  <2> QED
    BY <1>1, <2>2 DEF Good
<1>5. (Good(State, Slack))'
  BY <1>3, <1>4 DEF Good, Timely
<1>6. LoopTypes'
  <2>1. 0 \in 0..Max({MaxSleep, IdleSleep})
    <3>1. Max({MaxSleep, IdleSleep}) \in Nat
      BY MaxOfTwo
    <3> QED
      BY <3>1
  <2> QED
    BY <1>1, <1>2, <2>1 DEF LoopTypes
<1> QED
  BY <1>2, <1>5, <1>6 DEF IInv, Asleep, Polling

\* A millisecond
LEMMA TickStep == ASSUME IInv, Tick PROVE IInv'
<1> USE Constants
<1>1. /\ Slack \in Nat /\ Good(State, Slack) /\ LoopTypes /\ stall \in Nat /\ Asleep /\ Polling
      /\ State \in CoreRec
  BY SlackType DEF IInv, Good
<1>2. /\ phase \in AllPhases /\ timer \in -(Late + 1)..Max({CloseTicks, TombTicks}) /\ timer \in Int
      /\ flush \in -Interval..Interval /\ flush \in Int
      /\ segs \in Seq(SegmentRec) /\ Len(segs) \in 0..SendWindow /\ DOMAIN segs = 1..Len(segs)
      /\ \A i \in 1..Len(segs) : segs[i] \in SegmentRec /\ segs[i].due \in Int
      /\ segs = <<>> <=> Len(segs) = 0
  BY <1>1, CoreTypes
<1>3. \A x \in Int, b \in Nat : Past(x, b) = IF x - 1 >= -b THEN x - 1 ELSE -b
  <2> SUFFICES ASSUME NEW x \in Int, NEW b \in Nat PROVE Past(x, b) = IF x - 1 >= -b THEN x - 1 ELSE -b
    OBVIOUS
  <2> DEFINE y == x - 1
             z == -b
  <2>1. y \in Int /\ z \in Int
    OBVIOUS
  <2>2. Past(x, b) = Max({y, z})
    BY DEF Past
  <2> HIDE DEF y, z
  <2>3. Max({y, z}) = IF y >= z THEN y ELSE z
    BY <2>1, MaxOfTwo
  <2> QED
    BY <2>2, <2>3 DEF y, z
<1>4. /\ owed = 0 /\ UNCHANGED <<phase, queued, pc, permit, owed>>
      /\ timer' = IF phase \in Timed THEN Past(timer, Late + 1) ELSE timer
      /\ flush' = IF phase \in {"None", "Tombstone"} THEN flush ELSE Past(flush, Interval)
      /\ segs' = [i \in DOMAIN segs |-> [segs[i] EXCEPT !.due = Past(@, Late + 1)]]
  BY DEF Tick, Timed
<1>5. /\ pc = "sleep" => wake > 0 /\ ~ permit /\ wake' = wake - 1 /\ stall' = stall
      /\ pc # "sleep" => stall < Stall /\ stall' = stall + 1 /\ wake' = wake
  BY DEF Tick
<1>6. /\ timer' \in -(Late + 1)..Max({CloseTicks, TombTicks}) /\ timer' \in Int
      /\ phase \in Timed => timer' >= timer - 1 /\ (timer > -Late => timer' = timer - 1)
  <2>1. Max({CloseTicks, TombTicks}) \in Nat
    BY MaxOfTwo
  <2>2. Late + 1 \in Nat
    OBVIOUS
  <2>3. Past(timer, Late + 1) = IF timer - 1 >= -(Late + 1) THEN timer - 1 ELSE -(Late + 1)
    BY <1>2, <1>3, <2>2
  <2> DEFINE m == Max({CloseTicks, TombTicks})
  <2>4. m \in Nat /\ timer \in -(Late + 1)..m /\ timer \in Int
    BY <1>2, <2>1
  <2> HIDE DEF m
  <2>5. CASE phase \in Timed
    <3>1. timer' = IF timer - 1 >= -(Late + 1) THEN timer - 1 ELSE -(Late + 1)
      BY <1>4, <2>3, <2>5
    <3>2. timer' \in -(Late + 1)..m /\ timer' \in Int /\ timer' >= timer - 1 /\ (timer > -Late => timer' = timer - 1)
      BY <2>4, <3>1
    <3> QED
      BY <3>2 DEF m
  <2>6. CASE phase \notin Timed
    <3>1. timer' = timer
      BY <1>4, <2>6
    <3> QED
      BY <2>4, <2>6, <3>1 DEF m
  <2> QED
    BY <2>5, <2>6
<1>7. /\ flush' \in -Interval..Interval
      /\ segs # <<>> => flush' = IF flush - 1 >= -Interval THEN flush - 1 ELSE -Interval
  <2>1. Past(flush, Interval) = IF flush - 1 >= -Interval THEN flush - 1 ELSE -Interval
    BY <1>2, <1>3
  <2>2. segs # <<>> => phase \notin {"None", "Tombstone"}
    BY <1>1, StateFields DEF Good, Timely, Closing
  <2>3. flush' \in {flush, Past(flush, Interval)} /\ (segs # <<>> => flush' = Past(flush, Interval))
    BY <1>4, <2>2
  <2>4. Past(flush, Interval) \in -Interval..Interval
    BY <1>2, <2>1
  <2> QED
    BY <1>2, <2>1, <2>3, <2>4
<1>8. /\ segs' \in Seq(SegmentRec) /\ Len(segs') = Len(segs)
      /\ \A i \in 1..Len(segs) :
           segs'[i].due = IF segs[i].due - 1 >= -(Late + 1) THEN segs[i].due - 1 ELSE -(Late + 1)
  <2> DEFINE aged(i) == [segs[i] EXCEPT !.due = Past(@, Late + 1)]
             due(i) == Past(segs[i].due, Late + 1)
  <2>1. ASSUME NEW i \in 1..Len(segs)
        PROVE  /\ aged(i) \in SegmentRec
               /\ aged(i).due = IF segs[i].due - 1 >= -(Late + 1) THEN segs[i].due - 1 ELSE -(Late + 1)
    <3> DEFINE d == Past(segs[i].due, Late + 1)
    <3>1. d = IF segs[i].due - 1 >= -(Late + 1) THEN segs[i].due - 1 ELSE -(Late + 1)
      <4>1. Late + 1 \in Nat /\ segs[i].due \in Int
        BY <1>2
      <4> QED
        BY <1>3, <4>1
    <3>2. segs[i] \in SegmentRec /\ segs[i].due \in -(Late + 1)..MaxRto
      BY <1>2 DEF SegmentRec
    <3>3. d \in -(Late + 1)..MaxRto
      BY <3>1, <3>2
    <3>4. aged(i) = [segs[i] EXCEPT !.due = d]
      BY <3>2 DEF SegmentRec
    <3> HIDE DEF d
    <3>5. aged(i) \in SegmentRec /\ aged(i).due = d
      BY ONLY <3>2, <3>3, <3>4 DEF SegmentRec
    <3> QED
      BY <3>1, <3>5
  <2>2. segs' = [i \in 1..Len(segs) |-> aged(i)]
    BY <1>2, <1>4
  <2> HIDE DEF aged
  <2> QED
    BY <1>2, <2>1, <2>2
<1>9. stall' \in Nat /\ LoopTypes'
  <2>1. Max({MaxSleep, IdleSleep}) \in Nat
    BY MaxOfTwo
  <2> QED
    BY <1>1, <1>4, <1>5, <2>1 DEF LoopTypes
<1>10. Slack' = Slack + (IF pc = "sleep" THEN 0 ELSE 1)
  BY <1>1, <1>4, <1>5, <1>9 DEF Slack
<1> DEFINE n == Slack'
           st == State'
<1>11. n \in Nat /\ (pc # "sleep" => n = Slack + 1) /\ (pc = "sleep" => n = Slack /\ Slack = Stall)
  BY <1>1, <1>10 DEF Slack, LoopTypes
<1>12. st.phase = phase /\ st.timer = timer' /\ st.flush = flush' /\ st.segs = segs'
  BY <1>4 DEF State
<1>13. st \in CoreRec
  <2>1. queued' = queued /\ queued \in BOOLEAN
    BY <1>1, <1>4, StateFields DEF CoreRec
  <2> QED
    BY <1>2, <1>4, <1>6, <1>7, <1>8, <2>1 DEF State, CoreRec
<1> HIDE DEF n, st
<1>14. /\ phase \in Timed => timer >= -Slack
       /\ segs # <<>> => flush >= -Slack /\ phase \in Closing \cup {"Open"}
       /\ \A i \in 1..Len(segs) :
            /\ segs[i].due >= -Interval - Slack
            /\ segs[i].due >= flush - Interval \/ flush = -Interval
  BY <1>1, StateFields DEF Good, Timely
<1>15. pc = "sleep" => /\ phase \in Timed => wake <= timer + Stall
                       /\ segs # <<>> => wake <= flush + Stall
                       /\ \A i \in 1..Len(segs) : wake <= segs[i].due + Stall
  BY <1>1, <1>4, <1>5 DEF Asleep, Informed
<1>16. wake \in Nat
  <2>1. Max({MaxSleep, IdleSleep}) \in Nat
    BY MaxOfTwo
  <2> QED
    BY <1>1, <2>1 DEF LoopTypes
<1>17. phase \in Timed => timer' >= -n
  BY <1>1, <1>2, <1>5, <1>6, <1>11, <1>14, <1>15, <1>16
<1>18. segs # <<>> => flush' >= -n
  BY <1>1, <1>2, <1>5, <1>7, <1>11, <1>14, <1>15, <1>16
<1>19. ASSUME NEW i \in 1..Len(segs)
       PROVE  /\ segs'[i].due >= -Interval - n
              /\ segs'[i].due >= flush' - Interval \/ flush' = -Interval
  <2> DEFINE d == segs[i].due
             e == segs'[i].due
  <2>0. segs # <<>>
    BY <1>2
  <2>1. d \in Int /\ d >= -Interval - Slack /\ (d >= flush - Interval \/ flush = -Interval)
    BY <1>2, <1>14
  <2>2. e = IF d - 1 >= -(Late + 1) THEN d - 1 ELSE -(Late + 1)
    BY <1>8
  <2>3. pc = "sleep" => wake <= d + Stall
    BY <1>15
  <2>4. flush' = IF flush - 1 >= -Interval THEN flush - 1 ELSE -Interval
    BY <1>7, <2>0
  <2> HIDE DEF d, e
  <2>5. e \in Int /\ e >= d - 1
    BY <2>1, <2>2
  <2>6. e >= -Interval - n
    <3>1. CASE pc = "sleep"
      BY <1>5, <1>11, <1>16, <2>1, <2>3, <2>5, <3>1
    <3>2. CASE pc # "sleep"
      BY <1>1, <1>11, <2>1, <2>5, <3>2
    <3> QED
      BY <3>1, <3>2
  <2>7. e >= flush' - Interval \/ flush' = -Interval
    BY <1>2, <2>1, <2>4, <2>5
  <2> QED
    BY <2>6, <2>7 DEF e
<1>20. Timely(st, n)
  <2>1. segs' # <<>> <=> segs # <<>>
    BY <1>2, <1>8
  <2> QED
    BY <1>8, <1>12, <1>14, <1>17, <1>18, <1>19, <2>1 DEF Timely
<1>21. Good(st, n)
  <2>1. Len(st.segs) <= SendWindow
    BY <1>2, <1>8, <1>12
  <2> QED
    BY <1>13, <1>20, <2>1 DEF Good
<1>22. (Good(State, Slack))'
  BY <1>21 DEF Good, Timely, st, n
<1>23. Asleep'
  <2> SUFFICES ASSUME pc = "sleep"
               PROVE  /\ phase \in Timed => wake' <= timer' + Stall
                      /\ segs # <<>> => wake' <= flush' + Stall
                      /\ \A i \in 1..Len(segs) : wake' <= segs'[i].due + Stall
    <3>1. segs' # <<>> <=> segs # <<>>
      BY <1>2, <1>8
    <3> QED
      BY <1>4, <1>8, <3>1 DEF Asleep
  <2>1. wake' = wake - 1 /\ wake > 0
    BY <1>5
  <2>2. ASSUME phase \in Timed PROVE wake' <= timer' + Stall
    <3>1. timer' >= timer - 1 /\ wake <= timer + Stall /\ timer \in Int /\ timer' \in Int
      BY <1>2, <1>6, <1>15, <2>2
    <3>2. Stall \in Int /\ wake \in Int /\ wake' = wake - 1
      BY <1>16, <2>1
    <3> DEFINE a == timer'
               d == wake'
    <3>3. a \in Int /\ a >= timer - 1 /\ d = wake - 1
      BY <3>1, <3>2
    <3> HIDE DEF a, d
    <3>4. d <= a + Stall
      BY <3>1, <3>2, <3>3
    <3> QED
      BY <3>4 DEF a, d
  <2>3. ASSUME segs # <<>> PROVE wake' <= flush' + Stall
    <3> DEFINE a == flush'
               d == wake'
    <3>1. a \in Int /\ a >= flush - 1 /\ wake <= flush + Stall /\ flush \in Int
      BY <1>2, <1>7, <1>15, <2>3
    <3>2. Stall \in Int /\ wake \in Int /\ d = wake - 1
      BY <1>16, <2>1
    <3> HIDE DEF a, d
    <3>3. d <= a + Stall
      BY <3>1, <3>2
    <3> QED
      BY <3>3 DEF a, d
  <2>4. \A i \in 1..Len(segs) : wake' <= segs'[i].due + Stall
    <3> SUFFICES ASSUME NEW i \in 1..Len(segs) PROVE wake' <= segs'[i].due + Stall
      OBVIOUS
    <3> DEFINE d == segs[i].due
               e == segs'[i].due
    <3>1. d \in Int /\ wake <= d + Stall /\ e = IF d - 1 >= -(Late + 1) THEN d - 1 ELSE -(Late + 1)
      BY <1>2, <1>8, <1>15
    <3> HIDE DEF d, e
    <3>2. wake' <= e + Stall
      BY <1>16, <2>1, <3>1
    <3> QED
      BY <3>2 DEF e
  <2> QED
    BY <2>2, <2>3, <2>4
<1>24. Polling'
  <2> SUFFICES ASSUME pc = "poll", ~ permit, owed = 0 PROVE Expired(stall)'
    BY <1>4 DEF Polling, Informed
  <2>1. Expired(stall) /\ stall' = stall + 1 /\ stall' <= Stall
    BY <1>1, <1>5 DEF Polling, Informed
  <2>2. Slack = stall + Stall
    BY DEF Slack
  <2>3. stall \in Nat /\ Late = Interval + 2 * Stall /\ Stall < Interval
    BY <1>1 DEF Late
  <2>4. CASE phase \in Timed /\ timer + stall <= 0
    <3>0. timer >= -(stall + Stall) /\ timer \in Int
      BY <1>2, <1>14, <2>2, <2>4
    <3>1. timer > -Late
      BY <2>1, <2>3, <3>0
    <3>2. timer' + stall' <= 0
      BY <1>2, <1>6, <2>1, <2>3, <2>4, <3>1
    <3> QED
      BY <1>4, <2>4, <3>2 DEF Expired
  <2>5. segs' # <<>> <=> segs # <<>>
    BY <1>2, <1>8
  <2>6. CASE segs # <<>> /\ flush + stall <= 0
    <3>1. flush' + stall' <= 0
      <4>1. flush' = IF flush - 1 >= -Interval THEN flush - 1 ELSE -Interval
        BY <1>7, <2>6
      <4>2. stall + 1 <= Stall
        BY <2>1
      <4>3. CASE flush - 1 >= -Interval
        BY <1>2, <2>1, <2>3, <2>6, <4>1, <4>3
      <4>4. CASE ~ (flush - 1 >= -Interval)
        <5>1. flush' = -Interval
          BY <4>1, <4>4
        <5> QED
          BY <2>1, <2>3, <4>2, <5>1
      <4> QED
        BY <4>3, <4>4
    <3> QED
      BY <2>5, <2>6, <3>1 DEF Expired
  <2>7. ASSUME segs # <<>>, NEW i \in 1..Len(segs), segs[i].due + stall <= 0 PROVE Expired(stall)'
    <3> DEFINE d == segs[i].due
               e == segs'[i].due
    <3>1. d \in Int /\ d + stall <= 0 /\ d >= -Interval - Slack
          /\ e = IF d - 1 >= -(Late + 1) THEN d - 1 ELSE -(Late + 1)
      BY <1>2, <1>8, <1>14, <2>7
    <3> HIDE DEF d, e
    <3>2. e + stall' <= 0
      BY <2>1, <2>2, <2>3, <3>1
    <3> QED
      BY <1>8, <2>5, <2>7, <3>2 DEF Expired, e
  <2> QED
    BY <2>1, <2>4, <2>6, <2>7 DEF Expired
<1> QED
  BY <1>9, <1>22, <1>23, <1>24 DEF IInv

-----------------------------------------------------------------------------
(* The theorems. *)

\* The invariant holds of the first state.
LEMMA InitInv == Init => IInv
<1> SUFFICES ASSUME Init PROVE IInv
  OBVIOUS
<1> USE Constants
<1>1. /\ phase = "None" /\ timer = 0 /\ queued = FALSE /\ flush = Interval /\ segs = <<>>
      /\ pc = "lock" /\ wake = 0 /\ stall = 0 /\ permit = FALSE /\ owed = 0
  BY DEF Init
<1>2. /\ "None" \in AllPhases /\ 0 \in -(Late + 1)..Max({CloseTicks, TombTicks})
      /\ Interval \in -Interval..Interval /\ <<>> \in Seq(SegmentRec) /\ Len(<<>>) = 0
      /\ 0 \in 0..Max({MaxSleep, IdleSleep})
  <2>1. Max({CloseTicks, TombTicks}) \in Nat /\ Max({MaxSleep, IdleSleep}) \in Nat
    BY MaxOfTwo
  <2> QED
    BY <2>1 DEF AllPhases
<1>3. State \in CoreRec
  BY <1>1, <1>2 DEF State, CoreRec
<1>4. Good(State, Slack)
  BY <1>1, <1>2, <1>3, StateFields DEF Good, Timely, Timed, Closing
<1>5. LoopTypes
  <2>1. stall \in 0..Stall /\ owed \in 0..MaxOwed
    BY <1>1
  <2>2. permit \in BOOLEAN
    BY <1>1
  <2> QED
    BY <1>1, <1>2, <2>1, <2>2 DEF LoopTypes
<1> QED
  BY <1>1, <1>4, <1>5 DEF IInv, Asleep, Polling

\* Every step keeps the invariant.
LEMMA NextInv == IInv /\ [Next]_vars => IInv'
<1> SUFFICES ASSUME IInv, [Next]_vars PROVE IInv'
  OBVIOUS
<1>1. ASSUME NEW r \in Rtos, SessionOpen(r) \/ SessionWrite(r) \/ SessionClose(r) PROVE IInv'
  BY <1>1, OpenStep, WriteStep, CloseStep
<1>2. ASSUME NEW r \in Rtos, NEW close \in BOOLEAN, NEW acked \in SUBSET DOMAIN segs,
             NEW passed \in SUBSET (DOMAIN segs \ acked), Receive(acked, passed, close, r)
      PROVE  IInv'
  BY <1>2, ReceiveStep
<1>3. CASE Notify
  BY <1>3, NotifyStep
<1>4. CASE Decide
  BY <1>4, DecideStep
<1>5. CASE Poll
  BY <1>5, PollStep
<1>6. CASE Execute \/ Wake
  <2>1. permit \in BOOLEAN
    BY DEF IInv, LoopTypes
  <2>2. pc \in {"exec", "sleep"} /\ Top /\ UNCHANGED <<core, owed>> /\ permit' \in BOOLEAN
    BY <1>6, <2>1 DEF Execute, Wake
  <2> QED
    BY <2>2, TopStep
<1>7. CASE Tick
  BY <1>7, TickStep
<1>8. CASE UNCHANGED vars
  <2>1. UNCHANGED <<phase, timer, queued, flush, segs, pc, wake, stall, permit, owed>>
    BY <1>8 DEF vars, core, loop
  <2>2. State' = State /\ Slack' = Slack
    BY <2>1 DEF State, Slack
  <2> QED
    BY <2>1, <2>2 DEF IInv, Good, Timely, LoopTypes, Asleep, Polling, Expired, Informed
<1> QED
  BY <1>1, <1>2, <1>3, <1>4, <1>5, <1>6, <1>7, <1>8 DEF Next, Loop

\* The invariant of the poll loop: how late a deadline can be at each place of the
\* loop, that the sleep ends at most a stall after the first deadline, and that
\* the loop polls only after one.
THEOREM InductiveInvariant == Spec => []IInv
BY InitInv, NextInv, PTL DEF Spec

\* Types of the timers and of the loop, for every bound.
THEOREM TypeCorrect == Spec => []TypeOK
<1>1. IInv => TypeOK
  <2> SUFFICES ASSUME IInv PROVE TypeOK
    OBVIOUS
  <2>1. Slack \in Nat /\ Good(State, Slack) /\ LoopTypes /\ State \in CoreRec
    BY SlackType DEF IInv, Good
  <2>2. /\ phase \in AllPhases /\ timer \in -(Late + 1)..Max({CloseTicks, TombTicks})
        /\ flush \in -Interval..Interval /\ Len(segs) \in 0..SendWindow /\ DOMAIN segs = 1..Len(segs)
        /\ \A i \in 1..Len(segs) : segs[i] \in SegmentRec
    BY <2>1, CoreTypes
  <2>3. queued \in BOOLEAN
    BY <2>1, StateFields DEF CoreRec
  <2>4. Len(segs) <= SendWindow
    BY <2>2, Constants
  <2> QED
    BY <2>1, <2>2, <2>3, <2>4 DEF TypeOK, LoopTypes, AllPhases, SegmentRec
<1> QED
  BY <1>1, InductiveInvariant, PTL

\* No deadline is slept over: a resend, a close deadline and the end of a tombstone
\* are served within a flush interval and two rounds of the loop, for every
\* interval, timeout, sleep and stall.
THEOREM NoDeadlineSleptOver == Spec => []DeadlinesMet
<1>1. IInv => DeadlinesMet
  <2> SUFFICES ASSUME IInv PROVE DeadlinesMet
    OBVIOUS
  <2> USE Constants
  <2>1. Slack \in Nat /\ Good(State, Slack) /\ LoopTypes
    BY SlackType DEF IInv
  <2>2. Slack <= 2 * Stall
    BY <2>1 DEF Slack, LoopTypes
  <2>3. /\ timer \in Int /\ DOMAIN segs = 1..Len(segs) /\ \A i \in 1..Len(segs) : segs[i].due \in Int
    BY <2>1, CoreTypes
  <2>4. /\ phase \in Timed => timer >= -Slack
        /\ \A i \in 1..Len(segs) : segs[i].due >= -Interval - Slack
    BY <2>1, StateFields DEF Good, Timely
  <2>5. phase \in Timed => timer >= -2 * Stall
    BY <2>1, <2>2, <2>3, <2>4
  <2>6. \A i \in 1..Len(segs) : segs[i].due >= -(Interval + 2 * Stall)
    BY <2>1, <2>2, <2>3, <2>4
  <2> QED
    BY <2>3, <2>5, <2>6 DEF DeadlinesMet, Late, Timed
<1> QED
  BY <1>1, InductiveInvariant, PTL

\* IdlePollOnlyBeforeFlush of one step.
IdleBeforeFlush ==
  pc = "poll" /\ pc' = "exec" /\ ~ permit /\ owed = 0 /\ UNCHANGED core =>
    flush > 0 /\ \E i \in DOMAIN segs : segs[i].due <= 0

\* A poll that changes nothing.
LEMMA PollIdle == IInv /\ [Next]_vars => IdleBeforeFlush
<1> SUFFICES ASSUME IInv, [Next]_vars, pc = "poll", pc' = "exec", ~ permit, owed = 0, UNCHANGED core
             PROVE  flush > 0 /\ \E i \in DOMAIN segs : segs[i].due <= 0
  BY DEF IdleBeforeFlush
<1> USE Constants
<1>1. /\ Slack \in Nat /\ Good(State, Slack) /\ LoopTypes /\ stall \in Nat /\ Expired(stall)
      /\ State \in CoreRec
  BY SlackType DEF IInv, Good, Polling, Informed
<1>2. /\ timer \in Int /\ flush \in Int /\ DOMAIN segs = 1..Len(segs) /\ phase \in AllPhases
      /\ \A i \in 1..Len(segs) : segs[i].due \in Int
      /\ segs = <<>> <=> Len(segs) = 0
  BY <1>1, CoreTypes
<1>3. Poll
  BY DEF Next, SessionOpen, SessionWrite, SessionClose, Receive, Call, Notify, Loop, Decide, Execute,
         Wake, Top, Tick, vars, loop
<1>4. PICK r \in Rtos : Store(PollCore(r))
  BY <1>3 DEF Poll
<1> DEFINE t == PollCore(r)
<1>5. /\ Good(t, 0)
      /\ t = State => (phase \in Timed => timer > 0) /\ (segs # <<>> => flush > 0)
  BY <1>1, PollGood
<1> HIDE DEF t
<1>6. /\ t.phase = phase /\ t.timer = timer /\ t.queued = queued /\ t.segs = segs
      /\ flush = IF t.phase \in {"None", "Tombstone"} THEN Interval ELSE t.flush
  BY <1>4 DEF Store, core, t
<1>7. CASE phase \in {"None", "Tombstone"}
  <2>1. segs = <<>>
    BY <1>1, <1>7, StateFields DEF Good, Timely, Closing
  <2>2. phase \in Timed /\ timer + stall <= 0
    BY <1>1, <2>1 DEF Expired
  <2>3. phase = "Tombstone" /\ timer <= 0
    BY <1>1, <1>2, <1>7, <2>2 DEF Timed, Closing
  <2>4. t = [State EXCEPT !.phase = "None", !.timer = 0]
    BY <2>3 DEF PollCore, t
  <2>5. t.phase = "None"
    BY <1>1, <2>4 DEF CoreRec
  <2> QED
    BY <1>6, <2>3, <2>5
<1>8. CASE phase \notin {"None", "Tombstone"}
  <2>1. t.flush = flush /\ t \in CoreRec
    BY <1>5, <1>6, <1>8 DEF Good
  <2>2. t = State
    <3>1. t = [phase |-> t.phase, timer |-> t.timer, queued |-> t.queued, flush |-> t.flush, segs |-> t.segs]
      BY ONLY <2>1 DEF CoreRec
    <3> QED
      BY <1>6, <2>1, <3>1 DEF State
  <2>3. (phase \in Timed => timer > 0) /\ (segs # <<>> => flush > 0)
    BY <1>5, <2>2
  <2>4. segs # <<>> /\ \E i \in 1..Len(segs) : segs[i].due + stall <= 0
    BY <1>1, <1>2, <2>3 DEF Expired
  <2>5. \E i \in 1..Len(segs) : segs[i].due <= 0
    BY <1>1, <1>2, <2>4
  <2> QED
    BY <1>2, <2>3, <2>4, <2>5
<1> QED
  BY <1>7, <1>8

\* A poll changes nothing only if another task served the deadline first, or if a
\* resend time has come before ts_flush.
THEOREM IdlePolls == Spec => IdlePollOnlyBeforeFlush
<1>1. IInv /\ [Next]_vars => [IdleBeforeFlush]_vars
  BY PollIdle
<1>2. IdlePollOnlyBeforeFlush <=> [][IdleBeforeFlush]_vars
  BY PTL DEF IdlePollOnlyBeforeFlush, IdleBeforeFlush
<1> QED
  BY <1>1, <1>2, InitInv, NextInv, PTL DEF Spec
=============================================================================
