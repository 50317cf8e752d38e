---------------------------- MODULE SessionProofs ----------------------------
(***************************************************************************)
(* What the two endpoint cores of Session guarantee for every deadline,    *)
(* window, network and number of restarts: the types; that the shell gets  *)
(* no WriteSession outside an open session; that a requested Close waits   *)
(* only for a full send window; and, if a tombstone outlives the freshness *)
(* window by more than the clocks are apart, that no packet stamped before *)
(* a close creates the session again, that what one half holds for         *)
(* acknowledged the other has, and that a close which ends because all is  *)
(* acknowledged has closed the other half after its last Data message.     *)
(***************************************************************************)
EXTENDS Session, FiniteSetTheorems, WellFoundedInduction, TLAPS

\* The types of the constants, in the form the provers need.
LEMMA Constants ==
  /\ CloseTicks \in Nat \ {0} /\ TombTicks \in Nat \ {0} /\ MaxInst \in Nat \ {0} /\ NetCap \in Nat
  /\ MaxPast \in Nat /\ MaxFuture \in Nat /\ Skew \in Nat /\ MaxData \in Nat
  /\ \A e \in Endpoints : SendWindow[e] \in Nat \ {0}
BY SessionAssumption DEF Endpoints

-----------------------------------------------------------------------------
(* State. *)

AllPhases == Phases \cup {"None"}

\* The phases of a conversation that was open and is not yet closed.
LivePhases == {"Open", "ClosingLocal", "ClosingRemote"}

SessionRec ==
  [phase : AllPhases, peer : 0..MaxInst, timer : -1..CloseTicks, queued : BOOLEAN,
   sent : Seq(Messages), acked : SUBSET SeqNos, buf : SUBSET [sn : SeqNos, msg : Messages],
   next : 0..(MaxData + 2)]

ShellRec == [state : {"none", "open", "closed"}, writes : Nat, late : BOOLEAN]

PacketRec ==
  [to : Endpoints, inst : Instances, age : -Skew..MaxPast \cup {Skew},
   msg : Messages \cup {"Ack", "KeepAlive"}, sn : SeqNos, una : 0..(MaxData + 2), old : BOOLEAN]

\* One session and what its shell knows: the stream has room for Open, what the
\* shell wrote, and a Close; the shell has an open session if the core has.
Sound(s, sh, w) ==
  /\ s \in SessionRec /\ sh \in ShellRec
  /\ s.phase = "None" => s = NoSession
  /\ Len(s.sent) <= 1 + w + (IF s.queued THEN 1 ELSE 0)
  /\ s.phase = "Open" => sh.state = "open"
  /\ ~ sh.late

\* PendingCloseOnlyWhenFull of one session.
Full(e, s) ==
  s.phase = "ClosingLocal" /\ ~ s.queued /\ ~ Deadline(s) => WaitSnd(s) >= SendWindow[e]

Types ==
  /\ inst \in [Endpoints -> Instances]
  /\ tomb \in [Endpoints -> -1..TombTicks]
  /\ win \in [Endpoints -> [Instances -> -MaxFuture..(MaxPast + 1) \cup {None}]]
  /\ net \in SUBSET PacketRec
  /\ clean \in [Endpoints -> 0..MaxInst]
  /\ wrote \in [Endpoints -> Nat] /\ wrote["client"] + wrote["server"] <= MaxData

Sessions ==
  /\ sess \in [Endpoints -> SessionRec] /\ shell \in [Endpoints -> ShellRec]
  /\ \A e \in Endpoints : Sound(sess[e], shell[e], wrote[e]) /\ Full(e, sess[e])

IInv == Types /\ Sessions

\* A tombstone outlives every packet stamped before it.
Stale == \A p \in net : p.old /\ p.age <= MaxPast => tomb[p.to] > MaxPast - p.age

-----------------------------------------------------------------------------
(* Induction over numbers. *)

\* A set of numbers has a least one.
LEMMA LeastNumber ==
  ASSUME NEW S \in SUBSET Nat, S # {}
  PROVE  \E n \in S : \A m \in S : n <= m
<1> DEFINE R == OpToRel(<, Nat)
<1>1. IsWellFoundedOn(R, Nat)
  BY NatLessThanWellFounded
<1>2. \A m, n \in Nat : <<m, n>> \in R <=> m < n
  BY DEF OpToRel
<1> HIDE DEF R
<1>3. PICK n \in S : \A m \in S : ~ (<<m, n>> \in R)
  BY <1>1, WFMin
<1>4. \A m \in S : m \in Nat /\ n \in Nat
  OBVIOUS
<1>5. \A m \in S : ~ (m < n)
  BY <1>2, <1>3, <1>4
<1> QED
  BY <1>4, <1>5

\* g is the state after each of the first messages.
IsRun(g, st, msgs, len) ==
  g = [i \in 0..len |-> IF i = 0 THEN st ELSE HandleSessionMessage(g[i - 1], msgs[i])]

\* The messages of one packet handled one by one: the recursion has a solution.
LEMMA RunExists ==
  ASSUME NEW st, NEW msgs, NEW len \in Nat
  PROVE  \E g : IsRun(g, st, msgs, len)
<1> USE DEF IsRun
<1> DEFINE Run(n, g) == IsRun(g, st, msgs, n)
           None0 == {n \in Nat : ~ \E g : Run(n, g)}
<1> SUFFICES ASSUME None0 # {} PROVE FALSE
  OBVIOUS
<1>1. PICK n \in None0 : \A m \in None0 : n <= m
  BY LeastNumber
<1>2. CASE n = 0
  <2> DEFINE g == [i \in 0..0 |-> st]
  <2>1. Run(0, g)
    OBVIOUS
  <2> QED
    BY <1>1, <1>2, <2>1
<1>3. CASE n # 0
  <2>1. n \in Nat /\ n - 1 \in Nat /\ n - 1 \notin None0
    BY <1>1, <1>3
  <2>2. PICK g : Run(n - 1, g)
    BY <2>1
  <2> DEFINE h == [i \in 0..n |-> IF i = n THEN HandleSessionMessage(g[n - 1], msgs[n]) ELSE g[i]]
  <2>3. \A i \in 0..n : h[i] = IF i = 0 THEN st ELSE HandleSessionMessage(h[i - 1], msgs[i])
    <3> SUFFICES ASSUME NEW i \in 0..n
                 PROVE  h[i] = IF i = 0 THEN st ELSE HandleSessionMessage(h[i - 1], msgs[i])
      OBVIOUS
    <3>1. CASE i = n
      <4>1. h[i - 1] = g[i - 1] /\ h[i] = HandleSessionMessage(g[i - 1], msgs[i])
        BY <1>3, <2>1, <3>1
      <4> QED
        BY <1>3, <3>1, <4>1
    <3>2. CASE i # n /\ i # 0
      <4>1. i \in 0..(n - 1) /\ i - 1 \in 0..n /\ i - 1 # n
        BY <2>1, <3>2
      <4>2. h[i] = g[i] /\ h[i - 1] = g[i - 1]
        BY <3>2, <4>1
      <4>3. g[i] = HandleSessionMessage(g[i - 1], msgs[i])
        BY <2>2, <3>2, <4>1
      <4> QED
        BY <3>2, <4>2, <4>3
    <3>3. CASE i # n /\ i = 0
      <4>1. h[0] = g[0] /\ g[0] = st
        BY <2>1, <2>2, <3>3
      <4> QED
        BY <3>3, <4>1
    <3> QED
      BY <3>1, <3>2, <3>3
  <2>4. Run(n, h)
    BY <2>3
  <2> QED
    BY <1>1, <2>4
<1> QED
  BY <1>2, <1>3

\* What every message keeps, all of them keep.
LEMMA ReadKeeps ==
  ASSUME NEW Good, NEW st \in Good, NEW msgs \in Seq(Messages),
         \A x \in Good, m \in Messages : HandleSessionMessage(x, m) \in Good
  PROVE  ReadMessages(st, msgs) \in Good
<1> DEFINE Run(g) == IsRun(g, st, msgs, Len(msgs))
           run == CHOOSE g : Run(g)
<1>1. Len(msgs) \in Nat /\ \A i \in 1..Len(msgs) : msgs[i] \in Messages
  OBVIOUS
<1>2. \E g : Run(g)
  BY <1>1, RunExists
<1>3. Run(run)
  BY ONLY <1>2, Zenon
<1>4. ReadMessages(st, msgs) = run[Len(msgs)]
  BY DEF ReadMessages, IsRun
<1>5. run[0] = st /\ \A i \in 1..Len(msgs) : run[i] = HandleSessionMessage(run[i - 1], msgs[i])
  <2> HIDE DEF run
  <2> QED
    BY <1>1, <1>3 DEF IsRun
<1> HIDE DEF run
<1> DEFINE Bad == {i \in 0..Len(msgs) : run[i] \notin Good}
<1> SUFFICES ASSUME Bad # {} PROVE FALSE
  BY <1>1, <1>4
<1>6. PICK n \in Bad : \A m \in Bad : n <= m
  <2>1. Bad \in SUBSET Nat
    BY <1>1
  <2> HIDE DEF Bad
  <2> QED
    BY <2>1, LeastNumber
<1>7. n # 0 /\ n - 1 \in 0..Len(msgs) /\ n \in 1..Len(msgs)
  BY <1>1, <1>5, <1>6
<1>8. run[n - 1] \in Good
  BY <1>6, <1>7
<1> QED
  BY <1>1, <1>5, <1>6, <1>7, <1>8

-----------------------------------------------------------------------------
(* KCP. *)

\* The session of an unknown conversation, and none.
LEMMA NewTypes ==
  /\ NoSession \in SessionRec /\ NewSession("PendingRemote") \in SessionRec
  /\ NewSession("Open") \in SessionRec /\ NewShell \in ShellRec
  /\ NoSession.phase = "None" /\ NoSession.sent = <<>> /\ NoSession.timer = -1
  /\ Len(<<>>) = 0
<1> USE Constants DEF SessionRec, AllPhases, Phases, SeqNos, NewSession, NoSession, Messages
<1>1. <<>> \in Seq(Messages) /\ {} \in SUBSET SeqNos /\ 0 \in 0..MaxInst /\ 0 \in 0..(MaxData + 2)
      /\ -1 \in -1..CloseTicks /\ FALSE \in BOOLEAN
  OBVIOUS
<1>2. NewShell \in ShellRec
  BY <1>1 DEF NewShell, ShellRec
<1> QED
  BY <1>1, <1>2

\* The messages that await their acknowledgement are counted by a number.
LEMMA WaitSndType ==
  ASSUME NEW s \in SessionRec
  PROVE  /\ WaitSnd(s) \in Nat
         /\ \A n \in Unacked(s) : n \in 0..(Len(s.sent) - 1) /\ s.sent[n + 1] \in Messages
<1>1. s.sent \in Seq(Messages) /\ Len(s.sent) \in Nat
  BY DEF SessionRec
<1>2. Unacked(s) \subseteq 0..(Len(s.sent) - 1)
  BY DEF Unacked
<1>3. IsFiniteSet(Unacked(s))
  <2>1. 0 \in Int /\ Len(s.sent) - 1 \in Int
    BY <1>1
  <2>2. IsFiniteSet(0..(Len(s.sent) - 1))
    BY <2>1, FS_Interval
  <2> QED
    BY <1>2, <2>2, FS_Subset
<1> QED
  BY <1>1, <1>2, <1>3, FS_CardinalityType DEF WaitSnd

\* How many of the messages received are in order: there is such a number, and
\* the stream ends within its bound.
LEMMA ReadyFacts ==
  ASSUME NEW s \in SessionRec
  PROVE  /\ Ready(s) \in 0..(MaxData + 2)
         /\ \A i \in 0..(Ready(s) - 1) : \E m \in s.buf : m.sn = s.next + i
         /\ s.next + Ready(s) \in 0..(MaxData + 2)
         /\ ~ \E m \in s.buf : m.sn = s.next + Ready(s)
<1> USE Constants
<1> DEFINE In(k) == \E m \in s.buf : m.sn = s.next + k
           Out == {k \in Nat : ~ In(k)}
<1>1. s.next \in 0..(MaxData + 2) /\ \A m \in s.buf : m.sn \in 0..(MaxData + 1)
  BY DEF SessionRec, SeqNos
<1>2. MaxData + 2 \in Out
  BY <1>1
<1>3. PICK k \in Out : \A j \in Out : k <= j
  <2>1. Out \in SUBSET Nat /\ Out # {}
    BY <1>2
  <2> HIDE DEF Out
  <2> QED
    BY <2>1, LeastNumber
<1>4. k \in 0..(MaxData + 2) /\ ~ In(k) /\ \A i \in 0..(k - 1) : In(i)
  BY <1>2, <1>3
<1>5. /\ Ready(s) \in 0..(MaxData + 2)
      /\ \A i \in 0..(Ready(s) - 1) : \E m \in s.buf : m.sn = s.next + i
      /\ ~ \E m \in s.buf : m.sn = s.next + Ready(s)
  <2> DEFINE P(j) == (\A i \in 0..(j - 1) : \E m \in s.buf : m.sn = s.next + i)
                     /\ ~ \E m \in s.buf : m.sn = s.next + j
  <2>1. \E j \in 0..(MaxData + 2) : P(j)
    BY <1>4
  <2>2. Ready(s) = CHOOSE j \in 0..(MaxData + 2) : P(j)
    BY DEF Ready
  <2> HIDE DEF P
  <2>3. Ready(s) \in 0..(MaxData + 2) /\ P(Ready(s))
    BY <2>1, <2>2
  <2> QED
    BY <2>3 DEF P
<1>6. s.next + Ready(s) <= MaxData + 2
  <2>1. CASE Ready(s) = 0
    BY <1>1, <2>1
  <2>2. CASE Ready(s) # 0
    <3>1. PICK m \in s.buf : m.sn = s.next + (Ready(s) - 1)
      BY <1>5, <2>2
    <3> QED
      BY <1>1, <1>5, <3>1
  <2> QED
    BY <2>1, <2>2
<1> QED
  BY <1>1, <1>5, <1>6

\* What the session machine reads are messages.
LEMMA RecvType == ASSUME NEW s \in SessionRec PROVE RecvMessages(s) \in Seq(Messages)
<1>1. Ready(s) \in Nat /\ \A i \in 0..(Ready(s) - 1) : \E m \in s.buf : m.sn = s.next + i
  BY ReadyFacts
<1>2. \A m \in s.buf : m.msg \in Messages
  BY DEF SessionRec
<1>3. s.next \in Int
  BY Constants DEF SessionRec
<1>4. \A i \in 1..Ready(s) : (CHOOSE m \in s.buf : m.sn = s.next + i - 1).msg \in Messages
  <2> SUFFICES ASSUME NEW i \in 1..Ready(s)
               PROVE  (CHOOSE m \in s.buf : m.sn = s.next + i - 1).msg \in Messages
    OBVIOUS
  <2>1. \E m \in s.buf : m.sn = s.next + i - 1
    <3>1. i - 1 \in 0..(Ready(s) - 1) /\ s.next + (i - 1) = s.next + i - 1
      BY <1>1, <1>3
    <3> QED
      BY <1>1, <3>1
  <2> DEFINE c == CHOOSE m \in s.buf : m.sn = s.next + i - 1
  <2>2. c \in s.buf
    BY <2>1
  <2> QED
    BY <1>2, <2>2
<1> QED
  BY <1>1, <1>4 DEF RecvMessages

\* An arriving packet leaves a well-formed session in the phase it had: what it
\* acknowledges, what it brings, and what is then in order.
LEMMA InputType ==
  ASSUME NEW s \in SessionRec, NEW p \in PacketRec, NEW input, input = KcpData(KcpAck(s, p), p)
  PROVE  /\ input \in SessionRec /\ KcpRecv(input) \in SessionRec
         /\ \A x \in {input, KcpRecv(input)} :
              /\ x.phase = s.phase /\ x.queued = s.queued /\ x.sent = s.sent
              /\ x.timer = s.timer /\ x.peer = s.peer
<1> USE Constants
<1> DEFINE a == KcpAck(s, p)
           Kept(x) == /\ x.phase = s.phase /\ x.queued = s.queued /\ x.sent = s.sent
                      /\ x.timer = s.timer /\ x.peer = s.peer
<1>1. a \in SessionRec /\ Kept(a)
  <2> DEFINE acked == {n \in Unacked(s) : n < p.una \/ (p.msg = "Ack" /\ n = p.sn)}
  <2>2. acked \in SUBSET SeqNos
    <3> SUFFICES ASSUME NEW n \in acked PROVE n \in 0..(MaxData + 1)
      BY DEF SeqNos
    <3>1. n \in 0..(Len(s.sent) - 1) /\ (n < p.una \/ n = p.sn)
      BY WaitSndType
    <3>2. p.una \in 0..(MaxData + 2) /\ p.sn \in 0..(MaxData + 1)
      BY DEF PacketRec, SeqNos
    <3> QED
      BY <3>1, <3>2
  <2>3. a = [s EXCEPT !.acked = @ \cup acked]
    BY DEF KcpAck
  <2> HIDE DEF acked
  <2> QED
    BY <2>2, <2>3 DEF SessionRec
<1>0. input = KcpData(a, p)
  OBVIOUS
<1> HIDE DEF a
<1>2. input \in SessionRec /\ Kept(input)
  <2>1. CASE p.msg \in Messages /\ p.sn >= a.next
    <3>1. input = [a EXCEPT !.buf = @ \cup {[sn |-> p.sn, msg |-> p.msg]}]
      BY <1>0, <2>1 DEF KcpData
    <3>2. [sn |-> p.sn, msg |-> p.msg] \in [sn : SeqNos, msg : Messages]
      BY <2>1 DEF PacketRec
    <3> DEFINE c == [sn |-> p.sn, msg |-> p.msg]
    <3> HIDE DEF c
    <3>3. a.buf \cup {c} \in SUBSET [sn : SeqNos, msg : Messages]
      BY <1>1, <3>2 DEF SessionRec, c
    <3> QED
      BY <1>1, <3>1, <3>3 DEF SessionRec, c
  <2>2. CASE ~ (p.msg \in Messages /\ p.sn >= a.next)
    BY <1>0, <1>1, <2>2 DEF KcpData
  <2> QED
    BY <2>1, <2>2
<1>3. KcpRecv(input) \in SessionRec /\ Kept(KcpRecv(input))
  <2>1. input.next + Ready(input) \in 0..(MaxData + 2)
    BY <1>2, ReadyFacts
  <2>2. {m \in input.buf : m.sn >= input.next + Ready(input)} \in SUBSET [sn : SeqNos, msg : Messages]
    BY <1>2 DEF SessionRec
  <2> DEFINE n == input.next + Ready(input)
             b == {m \in input.buf : m.sn >= n}
  <2>3. KcpRecv(input) = [input EXCEPT !.next = n, !.buf = b]
    BY DEF KcpRecv
  <2> HIDE DEF n, b
  <2> QED
    BY <1>2, <2>1, <2>2, <2>3 DEF SessionRec, n, b
<1> QED
  BY <1>2, <1>3

-----------------------------------------------------------------------------
(* The session machine. *)

\* What handle_session_message keeps of a session and its shell: a conversation
\* that was open stays open or closing.
Reads(w, allowed) ==
  {st \in [s : SessionRec, sh : ShellRec] : Sound(st.s, st.sh, w) /\ st.s.phase \in allowed}

\* One message.
LEMMA MessageKeeps ==
  ASSUME NEW w \in Nat, NEW allowed \in {AllPhases, LivePhases},
         NEW st \in Reads(w, allowed), NEW msg \in Messages
  PROVE  HandleSessionMessage(st, msg) \in Reads(w, allowed)
<1> USE Constants
<1> DEFINE s == st.s
           sh == st.sh
<1>0. /\ s \in SessionRec /\ sh \in ShellRec /\ s.phase \in allowed /\ Sound(s, sh, w)
      /\ st = [s |-> s, sh |-> sh]
  BY DEF Reads
<1> HIDE DEF s, sh
<1>1. CASE HandleSessionMessage(st, msg) = st
  BY <1>1
<1>2. CASE HandleSessionMessage(st, msg) = [s |-> s, sh |-> sh]
  BY <1>0, <1>2
<1>3. CASE HandleSessionMessage(st, msg) = [s |-> s, sh |-> TellWrite(sh)] /\ s.phase = "Open"
  <2>1. sh.state = "open" /\ ~ sh.late
    BY <1>0, <1>3 DEF Sound
  <2>2. TellWrite(sh) \in ShellRec /\ TellWrite(sh).state = "open" /\ ~ TellWrite(sh).late
    <3> DEFINE late == sh.late \/ sh.state # "open"
               count == sh.writes + 1
    <3>1. late \in BOOLEAN
      BY <2>1
    <3>0. ~ late
      BY <2>1
    <3>2. TellWrite(sh) = [sh EXCEPT !.writes = count, !.late = late]
      BY DEF TellWrite
    <3>4. count \in Nat
      BY <1>0 DEF ShellRec
    <3> HIDE DEF late, count
    <3>3. TellWrite(sh) \in ShellRec /\ TellWrite(sh).state = sh.state /\ TellWrite(sh).late = late
      <4>1. sh \in ShellRec
        BY <1>0
      <4> QED
        BY ONLY <3>1, <3>2, <3>4, <4>1 DEF ShellRec
    <3> QED
      BY <2>1, <3>0, <3>3, Zenon
  <2> QED
    BY <1>0, <1>3, <2>2 DEF Reads, Sound
<1>4. CASE HandleSessionMessage(st, msg) = [s |-> NoSession, sh |-> sh] /\ s.phase = "PendingRemote"
  <2>1. allowed = AllPhases
    BY <1>0, <1>4 DEF LivePhases
  <2>2. ~ NoSession.queued /\ NoSession \in SessionRec /\ NoSession.phase = "None" /\ Len(NoSession.sent) = 0
    BY NewTypes DEF NoSession, NewSession
  <2>3. Sound(NoSession, sh, w)
    BY <1>0, <2>2 DEF Sound
  <2> QED
    BY <1>0, <1>4, <2>1, <2>2, <2>3 DEF Reads, AllPhases
<1>5. CASE /\ HandleSessionMessage(st, msg) =
                [s |-> [s EXCEPT !.phase = "ClosingRemote", !.timer = CloseTicks], sh |-> TellClose(sh)]
           /\ s.phase = "Open"
  <2> DEFINE t == [s EXCEPT !.phase = "ClosingRemote", !.timer = CloseTicks]
  <2>1. t \in SessionRec /\ t.phase = "ClosingRemote" /\ t.sent = s.sent /\ t.queued = s.queued
    <3>1. "ClosingRemote" \in AllPhases /\ CloseTicks \in -1..CloseTicks
      BY DEF AllPhases, Phases
    <3>2. t = [s EXCEPT !.phase = "ClosingRemote", !.timer = CloseTicks]
      OBVIOUS
    <3>3. s \in SessionRec
      BY <1>0
    <3> HIDE DEF t
    <3> QED
      BY ONLY <3>1, <3>2, <3>3 DEF SessionRec
  <2>2. TellClose(sh) \in ShellRec /\ TellClose(sh).late = sh.late
    BY <1>0 DEF TellClose, ShellRec
  <2> HIDE DEF t
  <2>3. Sound(t, TellClose(sh), w)
    BY <1>0, <2>1, <2>2 DEF Sound
  <2>4. t.phase \in allowed
    BY <2>1 DEF AllPhases, Phases, LivePhases
  <2>5. HandleSessionMessage(st, msg) = [s |-> t, sh |-> TellClose(sh)]
    BY <1>5 DEF t
  <2> QED
    BY <2>1, <2>2, <2>3, <2>4, <2>5 DEF Reads
<1>6. CASE /\ HandleSessionMessage(st, msg) =
                [s |-> [s EXCEPT !.phase = "Open", !.timer = -1], sh |-> TellOpen(sh)]
           /\ s.phase = "PendingRemote"
  <2> DEFINE t == [s EXCEPT !.phase = "Open", !.timer = -1]
  <2>1. t \in SessionRec /\ t.phase = "Open" /\ t.sent = s.sent /\ t.queued = s.queued
    <3>1. "Open" \in AllPhases /\ -1 \in -1..CloseTicks
      BY DEF AllPhases, Phases
    <3>2. t = [s EXCEPT !.phase = "Open", !.timer = -1]
      OBVIOUS
    <3>3. s \in SessionRec
      BY <1>0
    <3> HIDE DEF t
    <3> QED
      BY ONLY <3>1, <3>2, <3>3 DEF SessionRec
  <2>2. TellOpen(sh) \in ShellRec /\ TellOpen(sh).late = sh.late /\ TellOpen(sh).state = "open"
    BY <1>0 DEF TellOpen, ShellRec
  <2> HIDE DEF t
  <2>3. Sound(t, TellOpen(sh), w)
    BY <1>0, <2>1, <2>2 DEF Sound
  <2>4. t.phase \in allowed
    BY <2>1 DEF AllPhases, Phases, LivePhases
  <2>5. HandleSessionMessage(st, msg) = [s |-> t, sh |-> TellOpen(sh)]
    BY <1>6 DEF t
  <2> QED
    BY <2>1, <2>2, <2>3, <2>4, <2>5 DEF Reads
<1>7. CASE msg = "Open"
  BY <1>1, <1>2, <1>6, <1>7 DEF HandleSessionMessage, HandleOpen, s, sh
<1>8. CASE msg = "Data"
  BY <1>1, <1>2, <1>3, <1>4, <1>8 DEF HandleSessionMessage, HandleData, s, sh
<1>9. CASE msg = "Close"
  BY <1>1, <1>2, <1>4, <1>5, <1>9 DEF HandleSessionMessage, HandleClose, s, sh
<1> QED
  BY <1>7, <1>8, <1>9 DEF Messages

\* All the messages of a packet.
LEMMA ReadSound ==
  ASSUME NEW w \in Nat, NEW allowed \in {AllPhases, LivePhases}, NEW s, NEW sh,
         Sound(s, sh, w), s.phase \in allowed, NEW msgs \in Seq(Messages),
         NEW read, read = ReadMessages([s |-> s, sh |-> sh], msgs)
  PROVE  Sound(read.s, read.sh, w) /\ read.s.phase \in allowed
<1> DEFINE st == [s |-> s, sh |-> sh]
<1>1. st \in Reads(w, allowed)
  BY DEF Reads, Sound
<1> HIDE DEF st
<1>2. ReadMessages(st, msgs) \in Reads(w, allowed)
  BY <1>1, MessageKeeps, ReadKeeps
<1>3. read \in Reads(w, allowed)
  BY <1>2 DEF st
<1> QED
  BY <1>3 DEF Reads

\* A message put into the stream.
LEMMA KcpSendType ==
  ASSUME NEW s \in SessionRec, NEW msg \in Messages
  PROVE  /\ KcpSend(s, msg) \in SessionRec /\ Len(KcpSend(s, msg).sent) = Len(s.sent) + 1
         /\ KcpSend(s, msg).phase = s.phase /\ KcpSend(s, msg).timer = s.timer
         /\ KcpSend(s, msg).queued = s.queued /\ KcpSend(s, msg).peer = s.peer
<1>1. s.sent \in Seq(Messages)
  BY DEF SessionRec
<1> DEFINE more == Append(s.sent, msg)
<1>2. more \in Seq(Messages) /\ Len(more) = Len(s.sent) + 1
  BY <1>1
<1>3. KcpSend(s, msg) = [s EXCEPT !.sent = more]
  BY DEF KcpSend
<1> HIDE DEF more
<1> QED
  BY <1>2, <1>3 DEF SessionRec

\* queue_local_close puts a Close into the stream unless the window is full.
LEMMA QueueSound ==
  ASSUME NEW e \in Endpoints, NEW w \in Nat, NEW s, NEW sh, Sound(s, sh, w),
         NEW t, t = QueueLocalClose(e, s)
  PROVE  Sound(t, sh, w) /\ Full(e, t) /\ t.phase = s.phase
<1>1. s \in SessionRec /\ Len(s.sent) \in Nat
  BY DEF Sound, SessionRec
<1>2. CASE /\ s.phase = "ClosingLocal" /\ ~ s.queued /\ ~ Deadline(s)
           /\ WaitSnd(s) < SendWindow[e]
  <2> DEFINE k == KcpSend(s, "Close")
  <2>1. k \in SessionRec /\ Len(k.sent) = Len(s.sent) + 1 /\ k.phase = s.phase
    BY <1>1, KcpSendType DEF Messages
  <2>2. t = [k EXCEPT !.queued = TRUE]
    BY <1>2 DEF QueueLocalClose
  <2> HIDE DEF k
  <2>3. t \in SessionRec /\ t.phase = k.phase /\ t.sent = k.sent /\ t.queued = TRUE
    BY <2>1, <2>2 DEF SessionRec
  <2>4. Sound(t, sh, w)
    BY <1>1, <1>2, <2>1, <2>3 DEF Sound
  <2>5. Full(e, t)
    BY <2>3 DEF Full
  <2> QED
    BY <2>1, <2>3, <2>4, <2>5
<1>3. CASE ~ (/\ s.phase = "ClosingLocal" /\ ~ s.queued /\ ~ Deadline(s)
              /\ WaitSnd(s) < SendWindow[e])
  <2>1. t = s
    BY <1>3 DEF QueueLocalClose
  <2>2. WaitSnd(s) \in Nat /\ SendWindow[e] \in Nat
    BY <1>1, WaitSndType, Constants
  <2> QED
    BY <1>3, <2>1, <2>2 DEF Full
<1> QED
  BY <1>2, <1>3

\* finish_closed_session leaves no session or the one it was given; a live one
\* that ends has its tombstone.
LEMMA FinishSound ==
  ASSUME IInv, NEW e \in Endpoints, NEW s, NEW sh, Sound(s, sh, wrote[e]), Full(e, s),
         NEW tombs \in [Endpoints -> -1..TombTicks], Finish(e, s, sh, tombs),
         wrote' = wrote
  PROVE  /\ Sessions'
         /\ tomb' \in [Endpoints -> -1..TombTicks] /\ clean' \in [Endpoints -> 0..MaxInst]
         /\ sess'[e] \in {NoSession, s}
         /\ \A x \in Endpoints : x # e => sess'[x] = sess[x] /\ tomb'[x] = tombs[x]
         /\ tomb'[e] \in {tombs[e], TombTicks}
         /\ s.phase \in LivePhases /\ sess'[e] = NoSession => tomb'[e] = TombTicks
<1> USE Constants
<1>1. /\ s \in SessionRec /\ sh \in ShellRec /\ wrote[e] \in Nat
      /\ TellClose(sh) \in ShellRec /\ TellClose(sh).late = sh.late
  BY DEF Sound, IInv, Types, TellClose, ShellRec
<1>2. Sound(NoSession, sh, wrote[e]) /\ Sound(NoSession, TellClose(sh), wrote[e]) /\ Full(e, NoSession)
  <2>1. /\ NoSession \in SessionRec /\ NoSession.phase = "None" /\ Len(NoSession.sent) = 0
        /\ NoSession.queued = FALSE
    BY NewTypes DEF NoSession, NewSession
  <2> QED
    BY <1>1, <2>1 DEF Sound, Full
<1>3. sess' = [sess EXCEPT ![e] = IF Done(s) THEN NoSession ELSE s]
  BY DEF Finish
<1>4. shell' = [shell EXCEPT ![e] = IF Done(s) /\ s.phase = "ClosingLocal" THEN TellClose(sh) ELSE sh]
  BY DEF Finish
<1>5. tomb' = [tombs EXCEPT ![e] = IF Done(s) /\ s.phase # "PendingRemote" THEN TombTicks ELSE @]
  BY DEF Finish
<1>6. clean' = [clean EXCEPT ![e] =
                  IF Done(s) /\ s.phase = "ClosingLocal" /\ WaitSnd(s) = 0 /\ ~ Deadline(s)
                  THEN s.peer ELSE IF tomb'[e] = -1 THEN 0 ELSE @]
  BY DEF Finish
<1>7. sess'[e] = (IF Done(s) THEN NoSession ELSE s) /\ \A x \in Endpoints : x # e => sess'[x] = sess[x]
  BY <1>3 DEF IInv, Sessions
<1>8. /\ shell'[e] \in {sh, TellClose(sh)} /\ (~ Done(s) => shell'[e] = sh)
      /\ \A x \in Endpoints : x # e => shell'[x] = shell[x]
  BY <1>4 DEF IInv, Sessions
<1>9. Sessions'
  <2>1. sess' \in [Endpoints -> SessionRec] /\ shell' \in [Endpoints -> ShellRec]
    BY <1>1, <1>3, <1>4, NewTypes DEF IInv, Sessions
  <2>2. Sound(sess'[e], shell'[e], wrote[e]) /\ Full(e, sess'[e])
    BY <1>2, <1>7, <1>8
  <2>3. \A x \in Endpoints : x # e => Sound(sess'[x], shell'[x], wrote[x]) /\ Full(x, sess'[x])
    BY <1>7, <1>8 DEF IInv, Sessions
  <2>4. \A x \in Endpoints : Sound(sess'[x], shell'[x], wrote'[x]) /\ Full(x, sess'[x])
    BY <2>2, <2>3
  <2>5. \A x \in Endpoints : Full(x, sess[x])' <=> Full(x, sess'[x])
    BY DEF Full, Deadline, WaitSnd, Unacked
  <2>6. \A x \in Endpoints : Sound(sess[x], shell[x], wrote[x])' <=> Sound(sess'[x], shell'[x], wrote'[x])
    BY DEF Sound
  <2> QED
    BY <2>1, <2>4, <2>5, <2>6 DEF Sessions
<1>10. tomb' \in [Endpoints -> -1..TombTicks] /\ clean' \in [Endpoints -> 0..MaxInst]
  <2>1. s.peer \in 0..MaxInst
    BY <1>1 DEF SessionRec
  <2> QED
    BY <1>5, <1>6, <2>1 DEF IInv, Types
<1>11. s.phase \in LivePhases /\ sess'[e] = NoSession => tomb'[e] = TombTicks
  <2> SUFFICES ASSUME s.phase \in LivePhases, sess'[e] = NoSession PROVE tomb'[e] = TombTicks
    OBVIOUS
  <2>1. Done(s)
    BY <1>7, NewTypes DEF LivePhases
  <2> QED
    BY <1>5, <2>1 DEF LivePhases
<1> QED
  BY <1>5, <1>7, <1>9, <1>10, <1>11

-----------------------------------------------------------------------------
(* Packets. *)

\* The packets e makes: they are of its peer's present life.
Fresh(e) == {p \in PacketRec : p.to = Peer(e) /\ ~ p.old}

\* The other endpoint.
LEMMA PeerType == ASSUME NEW e \in Endpoints PROVE Peer(e) \in Endpoints /\ Peer(e) # e
BY DEF Peer, Endpoints

\* A packet is made with the distance of the clocks for its age.
LEMMA PacketType ==
  ASSUME Types, NEW e \in Endpoints, NEW msg \in Messages \cup {"Ack", "KeepAlive"},
         NEW sn \in SeqNos, NEW una \in 0..(MaxData + 2)
  PROVE  Packet(e, msg, sn, una) \in Fresh(e)
<1> DEFINE age == IF e = "client" THEN -Skew ELSE Skew
           p == Packet(e, msg, sn, una)
<1>1. age \in -Skew..MaxPast \cup {Skew} /\ inst[e] \in Instances /\ Peer(e) \in Endpoints
  BY Constants, PeerType DEF Types
<1>2. p = [to |-> Peer(e), inst |-> inst[e], age |-> age, msg |-> msg, sn |-> sn, una |-> una, old |-> FALSE]
  BY DEF Packet
<1> HIDE DEF age, p
<1>3. p \in PacketRec /\ p.to = Peer(e) /\ p.old = FALSE
  BY <1>1, <1>2 DEF PacketRec
<1>4. p \in Fresh(e)
  BY <1>3 DEF Fresh
<1> QED
  BY <1>4 DEF p

\* The shells together write no more than MaxData messages.
LEMMA WroteType ==
  ASSUME wrote \in [Endpoints -> Nat], wrote["client"] + wrote["server"] <= MaxData, NEW e \in Endpoints
  PROVE  wrote[e] \in 0..MaxData
BY Constants DEF Endpoints

\* The packets of a flush.
LEMMA FlushType ==
  ASSUME Types, NEW e \in Endpoints, NEW s, NEW sh, NEW w \in 0..MaxData, Sound(s, sh, w)
  PROVE  Flush(e, s) \in SUBSET Fresh(e)
<1> SUFFICES ASSUME NEW n \in Unacked(s)
             PROVE  Packet(e, s.sent[n + 1], n, s.next) \in Fresh(e)
  BY DEF Flush
<1>1. s \in SessionRec /\ Len(s.sent) \in Nat /\ s.next \in 0..(MaxData + 2)
  BY DEF Sound, SessionRec
<1>2. n \in 0..(Len(s.sent) - 1) /\ s.sent[n + 1] \in Messages
  BY <1>1, WaitSndType
<1>3. w <= MaxData /\ w \in Nat
  BY Constants
<1>4. Len(s.sent) <= 1 + w + 1
  BY <1>1, <1>3 DEF Sound
<1>5. n \in SeqNos
  BY <1>1, <1>2, <1>3, <1>4, Constants DEF SeqNos
<1> DEFINE msg == s.sent[n + 1]
<1>6. msg \in Messages \cup {"Ack", "KeepAlive"}
  BY <1>2
<1> HIDE DEF msg
<1>7. Packet(e, msg, n, s.next) \in Fresh(e)
  BY <1>1, <1>5, <1>6, PacketType
<1> QED
  BY <1>7 DEF msg

\* What e puts on the wire: old packets stay, and new ones of the old life are
\* those of a session that is closed in this step.
LEMMA TransmitType ==
  ASSUME Types, NEW e \in Endpoints, NEW rest \in SUBSET net, NEW out \in SUBSET Fresh(e),
         Transmit(e, rest, out)
  PROVE  /\ net' \in SUBSET PacketRec
         /\ \A q \in net' : q.old => q \in rest \/ (q.to = e /\ Closes(e))
         /\ \A q \in rest : q.old => q \in net'
<1>1. PICK kept \in SUBSET out : net' = Age(e, rest \cup kept)
  BY DEF Transmit
<1> DEFINE all == rest \cup kept
           Aged(p) == IF p.to = e /\ Closes(e) THEN [p EXCEPT !.old = TRUE] ELSE p
<1>2. all \in SUBSET PacketRec /\ \A p \in all : p \in rest \/ ~ p.old
  BY DEF Types, Fresh
<1>3. net' = {Aged(p) : p \in all}
  BY <1>1 DEF Age
<1> HIDE DEF all
<1>4. \A p \in all : /\ Aged(p) \in PacketRec
                     /\ Aged(p) = p \/ (Aged(p).to = e /\ Closes(e))
                     /\ p.old => Aged(p) = p
  <2> SUFFICES ASSUME NEW p \in all
               PROVE  /\ Aged(p) \in PacketRec
                      /\ Aged(p) = p \/ (Aged(p).to = e /\ Closes(e))
                      /\ p.old => Aged(p) = p
    OBVIOUS
  <2>1. p \in PacketRec
    BY <1>2
  <2>2. CASE p.to = e /\ Closes(e)
    <3>1. [p EXCEPT !.old = TRUE] \in PacketRec /\ [p EXCEPT !.old = TRUE].to = p.to
      BY <2>1 DEF PacketRec
    <3>2. p.old => [p EXCEPT !.old = TRUE] = p
      BY <2>1 DEF PacketRec
    <3> QED
      BY <2>2, <3>1, <3>2
  <2>3. CASE ~ (p.to = e /\ Closes(e))
    BY <2>1, <2>3
  <2> QED
    BY <2>2, <2>3
<1> HIDE DEF Aged
<1>5. net' \in SUBSET PacketRec
  BY <1>3, <1>4
<1>6. \A q \in net' : q.old => q \in rest \/ (q.to = e /\ Closes(e))
  BY <1>2, <1>3, <1>4
<1>7. \A q \in rest : q.old => q \in net'
  BY <1>3, <1>4 DEF all
<1> QED
  BY <1>5, <1>6, <1>7

-----------------------------------------------------------------------------
(* Steps of one endpoint. *)

\* What a step of e does to the packets of closed conversations and to their
\* tombstones.
Ages(e) ==
  /\ \A q \in net' : q.old => q \in net \/ (q.to = e /\ Closes(e))
  /\ Closes(e) => tomb'[e] = TombTicks
  /\ tomb'[e] \in {tomb[e], TombTicks} \/ tomb[e] = 0
  /\ \A x \in Endpoints : x # e => tomb'[x] = tomb[x]

\* A step of e that stores s and sh.
LEMMA UpdateSound ==
  ASSUME IInv, NEW e \in Endpoints,
         sess' \in [Endpoints -> SessionRec], shell' \in [Endpoints -> ShellRec],
         Sound(sess'[e], shell'[e], wrote'[e]), Full(e, sess'[e]),
         \A x \in Endpoints : x # e =>
           sess'[x] = sess[x] /\ shell'[x] = shell[x] /\ wrote'[x] = wrote[x]
  PROVE  Sessions'
<1>1. \A x \in Endpoints : Sound(sess'[x], shell'[x], wrote'[x]) /\ Full(x, sess'[x])
  BY DEF IInv, Sessions
<1>2. \A x \in Endpoints : Full(x, sess[x])' <=> Full(x, sess'[x])
  BY DEF Full, Deadline, WaitSnd, Unacked
<1>3. \A x \in Endpoints : Sound(sess[x], shell[x], wrote[x])' <=> Sound(sess'[x], shell'[x], wrote'[x])
  BY DEF Sound
<1> QED
  BY <1>1, <1>2, <1>3 DEF Sessions

\* Nothing that is in the stream is taken back: a session that sends is not closed.
LEMMA SendStep ==
  ASSUME IInv, NEW e \in Endpoints, NEW s, NEW sh, NEW w,
         Sound(s, sh, w), Full(e, s), s.phase # "None", w = wrote'[e],
         sess' = [sess EXCEPT ![e] = s], shell' = [shell EXCEPT ![e] = sh],
         \A x \in Endpoints : x # e => wrote'[x] = wrote[x],
         UNCHANGED <<inst, tomb, win, clean>>,
         wrote' \in [Endpoints -> Nat], wrote'["client"] + wrote'["server"] <= MaxData,
         NEW out \in SUBSET Fresh(e), Transmit(e, net, out)
  PROVE  IInv' /\ Ages(e) /\ \A q \in net : q.old => q \in net'
<1>1. /\ sess'[e] = s /\ shell'[e] = sh
      /\ sess' \in [Endpoints -> SessionRec] /\ shell' \in [Endpoints -> ShellRec]
      /\ \A x \in Endpoints : x # e => sess'[x] = sess[x] /\ shell'[x] = shell[x]
  BY DEF IInv, Sessions, Sound
<1>2. Sessions'
  BY <1>1, UpdateSound
<1>3. ~ Closes(e)
  BY <1>1, NewTypes DEF Closes
<1>4. /\ net' \in SUBSET PacketRec
      /\ \A q \in net' : q.old => q \in net \/ (q.to = e /\ Closes(e))
      /\ \A q \in net : q.old => q \in net'
  <2>1. net \in SUBSET net /\ Types
    BY DEF IInv
  <2> QED
    BY <2>1, TransmitType
<1>5. Types'
  BY <1>4 DEF IInv, Types
<1>6. Ages(e)
  BY <1>3, <1>4 DEF Ages
<1> QED
  BY <1>2, <1>4, <1>5, <1>6 DEF IInv

\* SessionOpen
LEMMA OpenStep ==
  ASSUME IInv, SessionOpen
  PROVE  IInv' /\ Ages("client") /\ \A q \in net : q.old => q \in net'
<1> DEFINE s == KcpSend(NewSession("Open"), "Open")
           sh == TellOpen(shell["client"])
           w == wrote["client"]
<1>1. w \in Nat /\ "client" \in Endpoints
  BY DEF IInv, Types, Endpoints
<1>2. /\ s \in SessionRec /\ s.phase = "Open" /\ Len(s.sent) = 1
  <2>1. NewSession("Open").sent = <<>> /\ NewSession("Open").phase = "Open"
    BY DEF NewSession
  <2> DEFINE n == NewSession("Open")
  <2>2. n \in SessionRec /\ Len(n.sent) = 0 /\ n.phase = "Open" /\ "Open" \in Messages
    BY <2>1, NewTypes DEF Messages
  <2> HIDE DEF n
  <2>3. KcpSend(n, "Open") \in SessionRec /\ KcpSend(n, "Open").phase = n.phase
        /\ Len(KcpSend(n, "Open").sent) = Len(n.sent) + 1
    BY ONLY <2>2, KcpSendType
  <2>4. s = KcpSend(n, "Open")
    BY DEF n
  <2> HIDE DEF s
  <2> QED
    BY <2>2, <2>3, <2>4
<1>3. sh \in ShellRec /\ sh.state = "open" /\ ~ sh.late
  <2>1. shell["client"] \in ShellRec /\ ~ shell["client"].late
    BY <1>1 DEF IInv, Sessions, Sound
  <2>2. sh \in ShellRec /\ sh.state = "open" /\ sh.late = shell["client"].late
    BY <2>1 DEF TellOpen, ShellRec
  <2> QED
    BY <2>1, <2>2
<1>4. sess' = [sess EXCEPT !["client"] = s] /\ Transmit("client", net, Flush("client", s))
  BY DEF SessionOpen
<1>5. shell' = [shell EXCEPT !["client"] = sh] /\ UNCHANGED <<inst, tomb, win, clean, wrote>>
  BY DEF SessionOpen
<1> HIDE DEF s, sh
<1>6. Sound(s, sh, w) /\ Full("client", s) /\ s.phase # "None"
  BY <1>1, <1>2, <1>3 DEF Sound, Full
<1>7. Flush("client", s) \in SUBSET Fresh("client")
  <2>1. w \in 0..MaxData
    BY <1>1, WroteType DEF IInv, Types
  <2> HIDE DEF w
  <2> QED
    BY <1>1, <1>6, <2>1, FlushType DEF IInv
<1>8. wrote' \in [Endpoints -> Nat] /\ wrote'["client"] + wrote'["server"] <= MaxData /\ w = wrote'["client"]
  BY <1>5 DEF IInv, Types
<1> HIDE DEF w
<1> DEFINE out == Flush("client", s)
<1>9. out \in SUBSET Fresh("client") /\ Transmit("client", net, out)
  BY <1>4, <1>7
<1> HIDE DEF out
<1> QED
  BY <1>1, <1>4, <1>5, <1>6, <1>8, <1>9, SendStep

\* SessionWrite
LEMMA WriteStep ==
  ASSUME IInv, NEW e \in Endpoints, SessionWrite(e)
  PROVE  IInv' /\ Ages(e) /\ \A q \in net : q.old => q \in net'
<1> DEFINE s == KcpSend(sess[e], "Data")
           sh == shell[e]
           w == wrote[e] + 1
           out == Flush(e, s)
<1>1. /\ sess[e].phase = "Open" /\ sess' = [sess EXCEPT ![e] = s] /\ Transmit(e, net, out)
      /\ wrote' = [wrote EXCEPT ![e] = w] /\ wrote[e] + wrote[Peer(e)] < MaxData
      /\ UNCHANGED <<inst, tomb, win, shell, clean>>
  BY DEF SessionWrite
<1>2. Sound(sess[e], sh, wrote[e]) /\ wrote \in [Endpoints -> Nat]
  BY DEF IInv, Sessions, Types
<1>3. /\ s \in SessionRec /\ s.phase = "Open" /\ Len(s.sent) = Len(sess[e].sent) + 1
      /\ s.queued = sess[e].queued
  BY <1>1, <1>2, KcpSendType DEF Sound, Messages
<1>4. w = wrote'[e] /\ \A x \in Endpoints : x # e => wrote'[x] = wrote[x]
  BY <1>1, <1>2
<1>5. wrote' \in [Endpoints -> Nat] /\ wrote'["client"] + wrote'["server"] <= MaxData
  <2>1. CASE e = "client"
    BY <1>1, <1>2, <2>1, Constants DEF Peer, Endpoints
  <2>2. CASE e = "server"
    BY <1>1, <1>2, <2>2, Constants DEF Peer, Endpoints
  <2> QED
    BY <2>1, <2>2 DEF Endpoints
<1>6. Sound(s, sh, w) /\ Full(e, s) /\ s.phase # "None"
  <2>1. Len(sess[e].sent) \in Nat
    BY <1>2 DEF Sound, SessionRec
  <2> HIDE DEF s
  <2> QED
    BY <1>1, <1>2, <1>3, <2>1 DEF Sound, Full
<1>7. out \in SUBSET Fresh(e)
  <2>1. w \in 0..MaxData
    BY <1>4, <1>5, Constants DEF Endpoints
  <2> HIDE DEF s, sh, w
  <2> QED
    BY <1>6, <2>1, FlushType DEF IInv
<1>8. shell' = [shell EXCEPT ![e] = sh]
  BY <1>1 DEF IInv, Sessions
<1> HIDE DEF s, sh, w, out
<1> QED
  BY <1>1, <1>4, <1>5, <1>6, <1>7, <1>8, SendStep

\* SessionClose
LEMMA CloseStep ==
  ASSUME IInv, NEW e \in Endpoints, SessionClose(e)
  PROVE  IInv' /\ Ages(e) /\ \A q \in net : q.old => q \in net'
<1> DEFINE c == [sess[e] EXCEPT !.phase = "ClosingLocal", !.timer = CloseTicks]
           s == QueueLocalClose(e, c)
           sh == shell[e]
           w == wrote[e]
           out == IF s.queued THEN Flush(e, s) ELSE {}
<1>1. /\ sess' = [sess EXCEPT ![e] = s] /\ Transmit(e, net, out)
      /\ UNCHANGED <<inst, tomb, win, shell, clean, wrote>>
  BY DEF SessionClose
<1>2. Sound(sess[e], sh, w) /\ w \in 0..MaxData /\ w \in Nat /\ Types
  BY WroteType DEF IInv, Sessions, Types
<1>3. Sound(c, sh, w) /\ c.phase = "ClosingLocal"
  <2>1. sess[e] \in SessionRec /\ "ClosingLocal" \in AllPhases /\ CloseTicks \in -1..CloseTicks
    BY <1>2, Constants DEF Sound, AllPhases, Phases
  <2>2. c \in SessionRec /\ c.phase = "ClosingLocal" /\ c.sent = sess[e].sent /\ c.queued = sess[e].queued
    BY ONLY <2>1 DEF SessionRec
  <2> HIDE DEF c, sh, w
  <2> QED
    BY <1>2, <2>2 DEF Sound
<1>4. s = QueueLocalClose(e, c) /\ wrote' = wrote /\ w = wrote'[e]
  BY <1>1
<1>5. shell' = [shell EXCEPT ![e] = sh]
  BY <1>1 DEF IInv, Sessions
<1>6. wrote' \in [Endpoints -> Nat] /\ wrote'["client"] + wrote'["server"] <= MaxData
  BY <1>1 DEF IInv, Types
<1> HIDE DEF c, s, sh, w
<1>7. Sound(s, sh, w) /\ Full(e, s) /\ s.phase # "None"
  BY <1>2, <1>3, <1>4, QueueSound
<1>8. Flush(e, s) \in SUBSET Fresh(e)
  BY <1>2, <1>7, FlushType
<1>9. out \in SUBSET Fresh(e)
  BY <1>8
<1> HIDE DEF out
<1> QED
  BY <1>1, <1>4, <1>5, <1>6, <1>7, <1>9, SendStep

\* The session a packet goes to.
LEMMA SessionForSound ==
  ASSUME IInv, NEW e \in Endpoints, NEW p \in PacketRec, NEW f, f = SessionFor(e, p)
  PROVE  /\ Sound(f, shell[e], wrote[e]) /\ f.phase # "None"
         /\ sess[e].phase \in LivePhases => f.phase = sess[e].phase
<1> USE Constants
<1>1. Sound(sess[e], shell[e], wrote[e]) /\ wrote[e] \in Nat /\ p.inst \in 0..MaxInst
  BY DEF IInv, Sessions, Types, PacketRec, Instances
<1>2. CASE Has(e)
  <2>1. sess[e].phase # "None" /\ sess[e] \in SessionRec
    BY <1>1, <1>2 DEF Has, Sound
  <2>2. f = [sess[e] EXCEPT !.peer = p.inst]
    BY <1>2 DEF SessionFor
  <2>3. f \in SessionRec /\ f.phase = sess[e].phase /\ f.sent = sess[e].sent /\ f.queued = sess[e].queued
    BY ONLY <1>1, <2>1, <2>2 DEF SessionRec
  <2> QED
    BY <1>1, <2>1, <2>3 DEF Sound
<1>3. CASE ~ Has(e)
  <2> DEFINE n == NewSession("PendingRemote")
  <2>1. n \in SessionRec /\ n.phase = "PendingRemote" /\ n.sent = <<>>
    BY NewTypes DEF NewSession
  <2>2. f = [n EXCEPT !.peer = p.inst, !.timer = CloseTicks] /\ CloseTicks \in -1..CloseTicks
    BY <1>3 DEF SessionFor
  <2> HIDE DEF n
  <2>3. f \in SessionRec /\ f.phase = n.phase /\ f.sent = n.sent
    BY ONLY <1>1, <2>1, <2>2 DEF SessionRec
  <2>4. Len(f.sent) = 0
    BY <2>1, <2>3, NewTypes
  <2>5. sess[e].phase = "None"
    BY <1>3, NewTypes DEF Has
  <2> QED
    BY <1>1, <2>1, <2>3, <2>4, <2>5 DEF Sound, LivePhases
<1> QED
  BY <1>2, <1>3

\* handle_kcp_packet
LEMMA PacketStep ==
  ASSUME IInv, NEW p \in net, NEW e \in Endpoints, p.to = e, HandleKcpPacket(e, p),
         wrote' = wrote
  PROVE  /\ Sessions' /\ net' \in SUBSET PacketRec
         /\ tomb' \in [Endpoints -> -1..TombTicks] /\ clean' \in [Endpoints -> 0..MaxInst]
         /\ Ages(e) /\ \A q \in net : q.old /\ q # p => q \in net'
         /\ \A x \in Endpoints : x # e => sess'[x] = sess[x]
<1> USE Constants
<1> DEFINE f == SessionFor(e, p)
           input == KcpData(KcpAck(f, p), p)
           r == KcpRecv(input)
           sh == shell[e]
           w == wrote[e]
           msgs == RecvMessages(input)
           acks == IF p.msg \in Messages THEN {Packet(e, "Ack", p.sn, input.next + Ready(input))} ELSE {}
           read == ReadMessages([s |-> r, sh |-> sh], msgs)
           final == QueueLocalClose(e, read.s)
           out == acks \cup Flush(e, r) \cup Flush(e, final)
<1>1. Finish(e, final, read.sh, tomb) /\ Transmit(e, net \ {p}, out)
  BY DEF HandleKcpPacket
<1>2. Types /\ w \in 0..MaxData /\ w \in Nat /\ p \in PacketRec /\ tomb \in [Endpoints -> -1..TombTicks]
  BY WroteType DEF IInv, Types
<1>3. /\ Sound(f, sh, w) /\ f.phase # "None"
      /\ sess[e].phase \in LivePhases => f.phase = sess[e].phase
  BY <1>2, SessionForSound
<1> HIDE DEF f
<1>4. input = KcpData(KcpAck(f, p), p) /\ r = KcpRecv(input)
  OBVIOUS
<1> HIDE DEF input, r
<1>5. /\ input \in SessionRec /\ r \in SessionRec
      /\ r.phase = f.phase /\ r.queued = f.queued /\ r.sent = f.sent
  <2>1. f \in SessionRec
    BY <1>3 DEF Sound
  <2> QED
    BY <1>2, <1>4, <2>1, InputType
<1>6. Sound(r, sh, w)
  BY <1>3, <1>5 DEF Sound
<1>7. msgs \in Seq(Messages)
  BY <1>5, RecvType
<1>8. input.next + Ready(input) \in 0..(MaxData + 2)
  BY <1>5, ReadyFacts
<1>9. acks \in SUBSET Fresh(e)
  <2>1. p.sn \in SeqNos /\ "Ack" \in Messages \cup {"Ack", "KeepAlive"}
    BY <1>2 DEF PacketRec
  <2> DEFINE una == input.next + Ready(input)
  <2> HIDE DEF una
  <2>2. Packet(e, "Ack", p.sn, una) \in Fresh(e)
    BY <1>2, <1>8, <2>1, PacketType DEF una
  <2> QED
    BY <2>2 DEF una
<1>10. read = ReadMessages([s |-> r, sh |-> sh], msgs)
  OBVIOUS
<1> HIDE DEF msgs, acks, read, sh, w
<1>11. Sound(read.s, read.sh, w) /\ (f.phase \in LivePhases => read.s.phase \in LivePhases)
  <2>1. r.phase \in AllPhases
    BY <1>5 DEF SessionRec
  <2>2. Sound(read.s, read.sh, w)
    BY <1>2, <1>6, <1>7, <1>10, <2>1, ReadSound
  <2>3. f.phase \in LivePhases => read.s.phase \in LivePhases
    BY <1>2, <1>5, <1>6, <1>7, <1>10, ReadSound
  <2> QED
    BY <2>2, <2>3
<1> DEFINE rs == read.s
           rsh == read.sh
<1>12. final = QueueLocalClose(e, rs) /\ Sound(rs, rsh, w)
  BY <1>11
<1> HIDE DEF final, rs, rsh
<1>13. Sound(final, rsh, w) /\ Full(e, final) /\ final.phase = rs.phase
  BY <1>2, <1>12, QueueSound
<1>14. out \in SUBSET Fresh(e)
  <2>1. Flush(e, r) \in SUBSET Fresh(e)
    BY <1>2, <1>6, FlushType
  <2>2. Flush(e, final) \in SUBSET Fresh(e)
    BY <1>2, <1>13, FlushType
  <2> QED
    BY <1>9, <2>1, <2>2
<1> HIDE DEF out
<1>15. Finish(e, final, rsh, tomb) /\ Sound(final, rsh, wrote[e])
  BY <1>1, <1>13 DEF rsh, w
<1>16. /\ Sessions'
       /\ tomb' \in [Endpoints -> -1..TombTicks] /\ clean' \in [Endpoints -> 0..MaxInst]
       /\ \A x \in Endpoints : x # e => sess'[x] = sess[x] /\ tomb'[x] = tomb[x]
       /\ tomb'[e] \in {tomb[e], TombTicks}
       /\ final.phase \in LivePhases /\ sess'[e] = NoSession => tomb'[e] = TombTicks
  BY <1>2, <1>13, <1>15, FinishSound
<1>17. Closes(e) => tomb'[e] = TombTicks
  <2> SUFFICES ASSUME Closes(e) PROVE tomb'[e] = TombTicks
    OBVIOUS
  <2>1. sess[e].phase \in AllPhases
    BY DEF IInv, Sessions, SessionRec
  <2>2. sess[e].phase \in LivePhases /\ sess'[e] = NoSession
    BY <2>1 DEF Closes, AllPhases, Phases, LivePhases
  <2> QED
    BY <1>3, <1>11, <1>13, <1>16, <2>2 DEF rs
<1>18. /\ net' \in SUBSET PacketRec
       /\ \A q \in net' : q.old => q \in net \ {p} \/ (q.to = e /\ Closes(e))
       /\ \A q \in net \ {p} : q.old => q \in net'
  <2> DEFINE rest == net \ {p}
  <2>1. rest \in SUBSET net /\ Transmit(e, rest, out)
    BY <1>1
  <2> HIDE DEF rest
  <2>2. /\ net' \in SUBSET PacketRec
        /\ \A q \in net' : q.old => q \in rest \/ (q.to = e /\ Closes(e))
        /\ \A q \in rest : q.old => q \in net'
    BY <1>2, <1>14, <2>1, TransmitType
  <2> QED
    BY <2>2 DEF rest
<1>19. Ages(e)
  BY <1>16, <1>17, <1>18 DEF Ages
<1> QED
  BY <1>16, <1>18, <1>19

\* Receive
LEMMA ReceiveStep ==
  ASSUME IInv, NEW p \in net, NEW e \in Endpoints, p.to = e, Receive(p)
  PROVE  /\ IInv' /\ Ages(e) /\ p.age \in -MaxFuture..MaxPast
         /\ \A q \in net : q.old /\ q # p => q \in net'
         /\ \A x \in Endpoints : ~ Has(x) /\ Has(x)' => x = e /\ ~ Tombstoned(e)
<1> USE Constants
<1>1. p \in PacketRec /\ p.inst \in Instances /\ p.age \in -MaxFuture..MaxPast
  BY DEF Receive, IInv, Types, PacketRec
<1>2. win' \in [Endpoints -> [Instances -> -MaxFuture..(MaxPast + 1) \cup {None}]]
  <2>1. win' = [win EXCEPT ![e][p.inst] = IF p.age < @ THEN p.age ELSE @]
    BY DEF Receive, NoteSequence
  <2>2. p.age \in -MaxFuture..(MaxPast + 1)
    BY <1>1
  <2> QED
    BY <1>1, <2>1, <2>2 DEF IInv, Types
<1>3. inst' = inst /\ wrote' = wrote
  BY DEF Receive
<1>4. CASE net' = net \ {p} /\ UNCHANGED <<sess, shell, tomb, clean, forgot>>
  <2>1. sess' = sess /\ shell' = shell /\ tomb' = tomb /\ clean' = clean
    BY <1>4
  <2>2. Sessions'
    BY <1>3, <2>1 DEF IInv, Sessions, Sound, Full, Deadline, WaitSnd, Unacked
  <2>3. Types'
    BY <1>2, <1>3, <1>4, <2>1 DEF IInv, Types
  <2>4. Ages(e)
    <3>1. ~ Closes(e)
      BY <2>1, NewTypes DEF Closes
    <3> QED
      BY <1>4, <2>1, <3>1 DEF Ages
  <2> QED
    BY <1>1, <1>4, <2>1, <2>2, <2>3, <2>4 DEF IInv, Has
<1>5. CASE HandleKcpPacket(e, p) /\ ~ Tombstoned(e)
  <2>1. /\ Sessions' /\ net' \in SUBSET PacketRec
        /\ tomb' \in [Endpoints -> -1..TombTicks] /\ clean' \in [Endpoints -> 0..MaxInst]
        /\ Ages(e) /\ \A q \in net : q.old /\ q # p => q \in net'
        /\ \A x \in Endpoints : x # e => sess'[x] = sess[x]
    BY <1>3, <1>5, PacketStep
  <2>2. Types'
    BY <1>2, <1>3, <2>1 DEF IInv, Types
  <2> QED
    BY <1>1, <1>5, <2>1, <2>2 DEF IInv, Has
<1> QED
  BY <1>4, <1>5 DEF Receive

\* poll
LEMMA PollStep ==
  ASSUME IInv, NEW e \in Endpoints, Poll(e)
  PROVE  /\ IInv' /\ Ages(e) /\ \A q \in net : q.old => q \in net'
         /\ \A x \in Endpoints : ~ Has(x) => ~ Has(x)'
<1> USE Constants
<1>1. PICK gone \in ExpiredSequences(e) :
        LET reset == ResetBy(e, gone)
            tombs == [tomb EXCEPT ![e] = IF reset THEN TombTicks ELSE IF @ = 0 THEN -1 ELSE @]
            s     == IF reset THEN NoSession ELSE QueueLocalClose(e, sess[e])
            sh    == IF reset /\ sess[e].phase # "PendingRemote" THEN TellClose(shell[e])
                     ELSE shell[e]
        IN  /\ win' = [win EXCEPT ![e] = [i \in Instances |-> IF i \in gone THEN None ELSE @[i]]]
            /\ Finish(e, s, sh, tombs)
            /\ \E out \in {Flush(e, s)} \cup KeepAlives(e) : Transmit(e, net, out)
            /\ UNCHANGED <<inst, wrote>>
  BY DEF Poll
<1> DEFINE reset == ResetBy(e, gone)
           tombs == [tomb EXCEPT ![e] = IF reset THEN TombTicks ELSE IF @ = 0 THEN -1 ELSE @]
           s     == IF reset THEN NoSession ELSE QueueLocalClose(e, sess[e])
           sh    == IF reset /\ sess[e].phase # "PendingRemote" THEN TellClose(shell[e])
                    ELSE shell[e]
           w     == wrote[e]
<1>2. /\ win' = [win EXCEPT ![e] = [i \in Instances |-> IF i \in gone THEN None ELSE @[i]]]
      /\ Finish(e, s, sh, tombs) /\ inst' = inst /\ wrote' = wrote
      /\ \E out \in {Flush(e, s)} \cup KeepAlives(e) : Transmit(e, net, out)
  BY <1>1
<1>3. /\ Types /\ w \in 0..MaxData /\ w \in Nat /\ tomb \in [Endpoints -> -1..TombTicks]
      /\ Sound(sess[e], shell[e], w) /\ sess[e] \in SessionRec /\ shell[e] \in ShellRec
  BY WroteType DEF IInv, Types, Sessions
<1>4. tombs \in [Endpoints -> -1..TombTicks] /\ (reset => tombs[e] = TombTicks)
      /\ (tombs[e] \in {tomb[e], TombTicks} \/ tomb[e] = 0)
      /\ \A x \in Endpoints : x # e => tombs[x] = tomb[x]
  BY <1>3
<1>5. win' \in [Endpoints -> [Instances -> -MaxFuture..(MaxPast + 1) \cup {None}]]
  BY <1>2, <1>3 DEF Types
<1>6. Sound(s, sh, w) /\ Full(e, s)
  <2>1. CASE reset
    <3>1. s = NoSession /\ sh \in {shell[e], TellClose(shell[e])}
      BY <2>1
    <3>2. TellClose(shell[e]) \in ShellRec /\ TellClose(shell[e]).late = shell[e].late
      BY <1>3 DEF TellClose, ShellRec
    <3>3. /\ NoSession \in SessionRec /\ NoSession.phase = "None" /\ Len(NoSession.sent) = 0
          /\ NoSession.queued = FALSE
      BY NewTypes DEF NoSession, NewSession
    <3> HIDE DEF s, sh
    <3> QED
      BY <1>3, <3>1, <3>2, <3>3 DEF Sound, Full
  <2>2. CASE ~ reset
    <3>1. s = QueueLocalClose(e, sess[e]) /\ sh = shell[e]
      BY <2>2
    <3> HIDE DEF s, sh
    <3> QED
      BY <1>3, <3>1, QueueSound
  <2> QED
    BY <2>1, <2>2
<1>7. ~ reset => s.phase = sess[e].phase
  <2> SUFFICES ASSUME ~ reset PROVE s.phase = sess[e].phase
    OBVIOUS
  <2>1. s = QueueLocalClose(e, sess[e])
    OBVIOUS
  <2> HIDE DEF s
  <2> QED
    BY <1>3, <2>1, QueueSound
<1>8. PICK out \in {Flush(e, s)} \cup KeepAlives(e) : Transmit(e, net, out)
  BY <1>2
<1>9. ~ Has(e) => s.phase = "None"
  BY <1>7, NewTypes DEF Has, ResetBy
<1>10. reset => s = NoSession
  OBVIOUS
<1> HIDE DEF reset, tombs, s, sh, w
<1>11. out \in SUBSET Fresh(e)
  <2>1. Flush(e, s) \in SUBSET Fresh(e)
    BY <1>3, <1>6, FlushType
  <2>2. Packet(e, "KeepAlive", 0, 0) \in Fresh(e)
    <3>1. 0 \in SeqNos /\ 0 \in 0..(MaxData + 2) /\ "KeepAlive" \in Messages \cup {"Ack", "KeepAlive"}
      BY DEF SeqNos
    <3> QED
      BY <1>3, <3>1, PacketType
  <2> QED
    BY <2>1, <2>2 DEF KeepAlives
<1>12. /\ Sessions'
       /\ tomb' \in [Endpoints -> -1..TombTicks] /\ clean' \in [Endpoints -> 0..MaxInst]
       /\ sess'[e] \in {NoSession, s}
       /\ \A x \in Endpoints : x # e => sess'[x] = sess[x] /\ tomb'[x] = tombs[x]
       /\ tomb'[e] \in {tombs[e], TombTicks}
       /\ s.phase \in LivePhases /\ sess'[e] = NoSession => tomb'[e] = TombTicks
  BY <1>2, <1>4, <1>6, FinishSound DEF w
<1>13. Closes(e) => tomb'[e] = TombTicks
  <2> SUFFICES ASSUME Closes(e) PROVE tomb'[e] = TombTicks
    OBVIOUS
  <2>1. sess[e].phase \in AllPhases
    BY <1>3 DEF SessionRec
  <2>2. sess[e].phase \in LivePhases /\ sess'[e] = NoSession
    BY <2>1 DEF Closes, AllPhases, Phases, LivePhases
  <2>3. CASE reset
    BY <1>4, <1>12, <2>3
  <2>4. CASE ~ reset
    BY <1>7, <1>12, <2>2, <2>4
  <2> QED
    BY <2>3, <2>4
<1>14. /\ net' \in SUBSET PacketRec
       /\ \A q \in net' : q.old => q \in net \/ (q.to = e /\ Closes(e))
       /\ \A q \in net : q.old => q \in net'
  <2>1. net \in SUBSET net
    OBVIOUS
  <2> QED
    BY <1>3, <1>8, <1>11, <2>1, TransmitType
<1>15. Ages(e)
  BY <1>4, <1>12, <1>13, <1>14 DEF Ages
<1>16. Types'
  BY <1>2, <1>3, <1>5, <1>12, <1>14 DEF Types
<1>17. \A x \in Endpoints : ~ Has(x) => ~ Has(x)'
  <2> SUFFICES ASSUME NEW x \in Endpoints, ~ Has(x) PROVE sess'[x] = NoSession
    BY DEF Has
  <2>1. CASE x # e
    BY <1>12, <2>1 DEF Has
  <2>2. CASE x = e
    BY <1>6, <1>9, <1>12, <2>2 DEF Sound
  <2> QED
    BY <2>1, <2>2
<1> QED
  BY <1>12, <1>14, <1>15, <1>16, <1>17 DEF IInv

-----------------------------------------------------------------------------
(* Time and restarts. *)

\* A tick
LEMMA TickStep ==
  ASSUME IInv, Tick
  PROVE  IInv' /\ \A x \in Endpoints : ~ Has(x) => ~ Has(x)'
<1> USE Constants
<1>1. Types /\ Sessions
  BY DEF IInv
<1>2. net' \in SUBSET PacketRec
  <2> SUFFICES ASSUME NEW q \in net, q.age + 1 <= MaxPast PROVE [q EXCEPT !.age = @ + 1] \in PacketRec
    <3>1. net' = {p \in {[q EXCEPT !.age = @ + 1] : q \in net} : p.age <= MaxPast}
      BY DEF Tick
    <3>2. \A q \in net : [q EXCEPT !.age = @ + 1].age = q.age + 1
      BY <1>1 DEF Types, PacketRec
    <3> QED
      BY <3>1, <3>2
  <2> DEFINE a == q.age + 1
  <2>1. q \in PacketRec /\ q.age \in -Skew..MaxPast \cup {Skew}
    BY <1>1 DEF Types, PacketRec
  <2>2. a \in -Skew..MaxPast
    BY <2>1
  <2>3. [q EXCEPT !.age = @ + 1] = [q EXCEPT !.age = a]
    BY <2>1 DEF PacketRec
  <2> HIDE DEF a
  <2> QED
    BY <2>1, <2>2, <2>3 DEF PacketRec
<1>3. tomb' \in [Endpoints -> -1..TombTicks]
  BY <1>1 DEF Tick, Types
<1>4. win' \in [Endpoints -> [Instances -> -MaxFuture..(MaxPast + 1) \cup {None}]]
  <2>1. win' = [e \in Endpoints |-> [i \in Instances |-> Older(win[e][i])]]
    BY DEF Tick
  <2>2. \A a \in -MaxFuture..(MaxPast + 1) \cup {None} : Older(a) \in -MaxFuture..(MaxPast + 1) \cup {None}
    BY DEF Older
  <2>3. \A e \in Endpoints : \A i \in Instances : win[e][i] \in -MaxFuture..(MaxPast + 1) \cup {None}
    BY <1>1 DEF Types
  <2> HIDE DEF Older
  <2> QED
    BY <2>1, <2>2, <2>3
<1>5. Types'
  BY <1>1, <1>2, <1>3, <1>4 DEF Tick, Types
<1>6. \A e \in Endpoints : /\ sess'[e] \in SessionRec /\ Sound(sess'[e], shell[e], wrote[e]) /\ Full(e, sess'[e])
                           /\ sess[e] = NoSession => sess'[e] = NoSession
  <2> SUFFICES ASSUME NEW e \in Endpoints
               PROVE  /\ sess'[e] \in SessionRec /\ Sound(sess'[e], shell[e], wrote[e]) /\ Full(e, sess'[e])
                      /\ sess[e] = NoSession => sess'[e] = NoSession
    OBVIOUS
  <2>1. sess'[e] = IF sess[e].timer > 0 THEN [sess[e] EXCEPT !.timer = @ - 1] ELSE sess[e]
    BY DEF Tick
  <2>2. sess[e] \in SessionRec /\ Sound(sess[e], shell[e], wrote[e]) /\ Full(e, sess[e])
    BY <1>1 DEF Sessions
  <2>3. CASE ~ (sess[e].timer > 0)
    BY <2>1, <2>2, <2>3
  <2>4. CASE sess[e].timer > 0
    <3> DEFINE n == sess[e].timer - 1
               t == [sess[e] EXCEPT !.timer = n]
    <3>1. n \in -1..CloseTicks /\ sess[e].timer # 0
      BY <2>2, <2>4 DEF SessionRec
    <3>2. sess'[e] = t
      BY <2>1, <2>2, <2>4 DEF SessionRec
    <3> HIDE DEF n
    <3>3. /\ t \in SessionRec /\ t.phase = sess[e].phase /\ t.sent = sess[e].sent
          /\ t.queued = sess[e].queued /\ t.acked = sess[e].acked
      BY <2>2, <3>1 DEF SessionRec
    <3> HIDE DEF t
    <3>4. sess[e].phase # "None"
      BY <2>2, <2>4, NewTypes DEF Sound
    <3>5. Sound(t, shell[e], wrote[e])
      BY <2>2, <3>3, <3>4 DEF Sound
    <3>6. WaitSnd(t) = WaitSnd(sess[e])
      BY <3>3 DEF WaitSnd, Unacked
    <3>7. Full(e, t)
      BY <2>2, <3>1, <3>3, <3>6 DEF Full, Deadline
    <3> QED
      BY <3>2, <3>3, <3>4, <3>5, <3>7, NewTypes
  <2> QED
    BY <2>3, <2>4
<1>7. Sessions'
  <2>1. sess' \in [Endpoints -> SessionRec] /\ shell' = shell /\ wrote' = wrote
    <3>1. sess' = [e \in Endpoints |-> sess'[e]]
      BY DEF Tick
    <3> QED
      BY <1>6, <3>1 DEF Tick
  <2>2. \A x \in Endpoints : Full(x, sess[x])' <=> Full(x, sess'[x])
    BY DEF Full, Deadline, WaitSnd, Unacked
  <2>3. \A x \in Endpoints : Sound(sess[x], shell[x], wrote[x])' <=> Sound(sess'[x], shell'[x], wrote'[x])
    BY DEF Sound
  <2> QED
    BY <1>1, <1>6, <2>1, <2>2, <2>3 DEF Sessions
<1> QED
  BY <1>5, <1>6, <1>7 DEF IInv, Has

\* A restart
LEMMA RestartStep ==
  ASSUME IInv, NEW e \in Endpoints, Restart(e)
  PROVE  /\ IInv' /\ \A x \in Endpoints : ~ Has(x) => ~ Has(x)'
         /\ \A q \in net' : q.old => q \in net /\ q.to # e
<1> USE Constants
<1>1. Types /\ Sessions
  BY DEF IInv
<1>2. net' \in SUBSET PacketRec /\ \A q \in net' : q.old => q \in net /\ q.to # e
  <2>1. net' = {IF p.to = e THEN [p EXCEPT !.old = FALSE] ELSE p : p \in net}
    BY DEF Restart
  <2>2. \A p \in net : [p EXCEPT !.old = FALSE] \in PacketRec /\ [p EXCEPT !.old = FALSE].old = FALSE
    BY <1>1 DEF Types, PacketRec
  <2> QED
    BY <1>1, <2>1, <2>2 DEF Types
<1>3. Types'
  <2>1. inst' \in [Endpoints -> Instances]
    <3>1. inst \in [Endpoints -> 1..MaxInst] /\ inst[e] < MaxInst
      BY <1>1 DEF Restart, Types, Instances
    <3>2. inst[e] + 1 \in 1..MaxInst
      BY <3>1
    <3>3. inst' = [inst EXCEPT ![e] = inst[e] + 1]
      BY DEF Restart
    <3> QED
      BY <3>1, <3>2, <3>3 DEF Instances
  <2>2. wrote' \in [Endpoints -> Nat] /\ wrote'["client"] + wrote'["server"] <= MaxData
    BY <1>1 DEF Restart, Types, Endpoints
  <2>3. win' \in [Endpoints -> [Instances -> -MaxFuture..(MaxPast + 1) \cup {None}]]
    BY <1>1 DEF Restart, Types
  <2>4. tomb' \in [Endpoints -> -1..TombTicks] /\ clean' \in [Endpoints -> 0..MaxInst]
    BY <1>1 DEF Restart, Types
  <2> QED
    BY <1>2, <2>1, <2>2, <2>3, <2>4 DEF Types
<1>4. sess' = [sess EXCEPT ![e] = NoSession] /\ shell' = [shell EXCEPT ![e] = NewShell]
  BY DEF Restart
<1>5. Sessions'
  <2>1. sess' \in [Endpoints -> SessionRec] /\ shell' \in [Endpoints -> ShellRec]
    BY <1>1, <1>4, NewTypes DEF Sessions
  <2>2. Sound(NoSession, NewShell, 0) /\ Full(e, NoSession)
    <3>1. /\ NoSession \in SessionRec /\ NoSession.phase = "None" /\ Len(NoSession.sent) = 0
          /\ NoSession.queued = FALSE /\ NewShell \in ShellRec /\ NewShell.late = FALSE
      BY NewTypes DEF NoSession, NewSession, NewShell
    <3> QED
      BY <3>1 DEF Sound, Full
  <2>3. /\ sess'[e] = NoSession /\ shell'[e] = NewShell /\ wrote'[e] = 0
        /\ \A x \in Endpoints : x # e =>
             sess'[x] = sess[x] /\ shell'[x] = shell[x] /\ wrote'[x] = wrote[x]
    BY <1>1, <1>4 DEF Restart, Sessions, Types
  <2> QED
    BY <2>1, <2>2, <2>3, UpdateSound
<1>6. \A x \in Endpoints : ~ Has(x) => ~ Has(x)'
  BY <1>1, <1>4 DEF Has, Sessions
<1> QED
  BY <1>2, <1>3, <1>5, <1>6 DEF IInv

-----------------------------------------------------------------------------
(* The theorems. *)

\* The invariant holds of the first state.
LEMMA InitInv == Init => IInv /\ Stale
<1> SUFFICES ASSUME Init PROVE IInv /\ Stale
  OBVIOUS
<1> USE Constants
<1>1. Types
  <2>1. inst \in [Endpoints -> Instances] /\ wrote \in [Endpoints -> Nat] /\ clean \in [Endpoints -> 0..MaxInst]
    BY DEF Init, Instances
  <2>2. tomb \in [Endpoints -> -1..TombTicks] /\ net \in SUBSET PacketRec
    BY DEF Init
  <2>3. wrote["client"] + wrote["server"] <= MaxData
    BY DEF Init, Endpoints
  <2>4. win \in [Endpoints -> [Instances -> -MaxFuture..(MaxPast + 1) \cup {None}]]
    BY DEF Init
  <2> QED
    BY <2>1, <2>2, <2>3, <2>4 DEF Types
<1>2. Sessions
  <2>1. /\ NoSession \in SessionRec /\ NoSession.phase = "None" /\ Len(NoSession.sent) = 0
        /\ NoSession.queued = FALSE /\ NewShell \in ShellRec /\ NewShell.late = FALSE
    BY NewTypes DEF NoSession, NewSession, NewShell
  <2>2. \A e \in Endpoints : Sound(NoSession, NewShell, 0) /\ Full(e, NoSession)
    BY <2>1 DEF Sound, Full
  <2>3. /\ sess \in [Endpoints -> SessionRec] /\ shell \in [Endpoints -> ShellRec]
        /\ \A e \in Endpoints : sess[e] = NoSession /\ shell[e] = NewShell /\ wrote[e] = 0
    BY <2>1 DEF Init
  <2> QED
    BY <2>2, <2>3 DEF Sessions
<1>3. Stale
  BY DEF Init, Stale
<1> QED
  BY <1>1, <1>2, <1>3 DEF IInv

\* Every step keeps the invariant.
LEMMA NextInv == IInv /\ [Next]_vars => IInv'
<1> SUFFICES ASSUME IInv, [Next]_vars PROVE IInv'
  OBVIOUS
<1>1. CASE SessionOpen
  BY <1>1, OpenStep
<1>2. ASSUME NEW e \in Endpoints, SessionWrite(e) PROVE IInv'
  BY <1>2, WriteStep
<1>3. ASSUME NEW e \in Endpoints, SessionClose(e) PROVE IInv'
  BY <1>3, CloseStep
<1>4. ASSUME NEW p \in net, Receive(p) PROVE IInv'
  <2>1. p.to \in Endpoints
    BY DEF IInv, Types, PacketRec
  <2> QED
    BY <1>4, <2>1, ReceiveStep
<1>5. ASSUME NEW e \in Endpoints, Poll(e) PROVE IInv'
  BY <1>5, PollStep
<1>6. ASSUME NEW e \in Endpoints, Restart(e) PROVE IInv'
  BY <1>6, RestartStep
<1>7. CASE Tick
  BY <1>7, TickStep
<1>8. CASE UNCHANGED vars
  BY <1>8 DEF vars, IInv, Types, Sessions, Sound, Full, Deadline, WaitSnd, Unacked
<1> QED
  BY <1>1, <1>2, <1>3, <1>4, <1>5, <1>6, <1>7, <1>8 DEF Next

\* The invariant of the session machine: the types, that a stream holds no more
\* than Open, what the shell wrote and one Close, that the shell has an open
\* session whenever the core has, and that a Close waits only for a full window.
THEOREM InductiveInvariant == Spec => []IInv
<1>1. Init => IInv
  BY InitInv
<1> QED
  BY <1>1, NextInv, PTL DEF Spec

\* Types of the two cores' session state, for every bound.
THEOREM TypeCorrect == Spec => []TypeOK
<1>1. IInv => TypeOK
  <2> SUFFICES ASSUME IInv PROVE TypeOK
    OBVIOUS
  <2> USE Constants
  <2>1. inst \in [Endpoints -> Instances]
    BY DEF IInv, Types
  <2>2. ASSUME NEW e \in Endpoints
        PROVE  /\ sess[e].phase \in Phases \cup {"None"}
               /\ sess[e].peer \in 0..MaxInst /\ sess[e].timer \in -1..CloseTicks
               /\ sess[e].acked \subseteq SeqNos /\ sess[e].next \in 0..(MaxData + 2)
               /\ \A m \in sess[e].buf : m.sn \in SeqNos /\ m.msg \in Messages
    BY DEF IInv, Sessions, SessionRec, AllPhases
  <2>3. ASSUME NEW e \in Endpoints
        PROVE  /\ tomb[e] \in -1..TombTicks /\ clean[e] \in 0..MaxInst
               /\ \A i \in Instances : win[e][i] \in -MaxFuture..(MaxPast + 1) \cup {None}
    BY DEF IInv, Types
  <2>4. ASSUME NEW e \in Endpoints PROVE wrote[e] \in 0..MaxData
    BY WroteType DEF IInv, Types
  <2>5. \A p \in net : p.age \in -Skew..MaxPast \cup {Skew} /\ p.sn \in SeqNos
    BY DEF IInv, Types, PacketRec
  <2> QED
    BY <2>1, <2>2, <2>3, <2>4, <2>5 DEF TypeOK
<1> QED
  BY <1>1, InductiveInvariant, PTL

\* The shell receives WriteSession only between OpenSession and CloseSession.
THEOREM NoWriteOutsideSession == Spec => []NoLateWrite
<1>1. IInv => NoLateWrite
  BY DEF IInv, Sessions, Sound, NoLateWrite
<1> QED
  BY <1>1, InductiveInvariant, PTL

\* A requested Close waits outside the stream only while the send window is full.
THEOREM CloseWaitsForWindow == Spec => []PendingCloseOnlyWhenFull
<1>1. IInv => PendingCloseOnlyWhenFull
  BY DEF IInv, Sessions, Full, PendingCloseOnlyWhenFull
<1> QED
  BY <1>1, InductiveInvariant, PTL

\* A tombstone that outlives the freshness window and the distance of the clocks
\* outlives every packet stamped before it.
LEMMA AgesStale ==
  ASSUME MaxPast + Skew < TombTicks, IInv, Stale, net' \in SUBSET PacketRec, NEW e \in Endpoints, Ages(e)
  PROVE  Stale'
<1> USE Constants
<1> SUFFICES ASSUME NEW q \in net', q.old, q.age <= MaxPast PROVE tomb'[q.to] > MaxPast - q.age
  BY DEF Stale
<1>1. q.age \in Int /\ q.age >= -Skew /\ q.to \in Endpoints
  BY DEF PacketRec
<1>2. TombTicks > MaxPast - q.age
  BY <1>1
<1>3. CASE q \in net
  <2>1. tomb[q.to] > MaxPast - q.age
    BY <1>3 DEF Stale
  <2>2. tomb[q.to] # 0
    BY <1>1, <2>1
  <2> QED
    BY <1>1, <1>2, <2>1, <2>2 DEF Ages
<1>4. CASE q.to = e /\ Closes(e)
  BY <1>2, <1>4 DEF Ages
<1> QED
  BY <1>3, <1>4 DEF Ages

\* Every step keeps the tombstones long enough.
LEMMA NextStale == ASSUME MaxPast + Skew < TombTicks PROVE IInv /\ IInv' /\ Stale /\ [Next]_vars => Stale'
<1> SUFFICES ASSUME IInv, IInv', Stale, [Next]_vars PROVE Stale'
  OBVIOUS
<1> USE Constants
<1>0. net' \in SUBSET PacketRec
  BY DEF IInv, Types
<1>1. CASE SessionOpen
  <2>1. "client" \in Endpoints
    BY DEF Endpoints
  <2> QED
    BY <1>0, <1>1, <2>1, OpenStep, AgesStale
<1>2. ASSUME NEW e \in Endpoints, SessionWrite(e) PROVE Stale'
  BY <1>0, <1>2, WriteStep, AgesStale
<1>3. ASSUME NEW e \in Endpoints, SessionClose(e) PROVE Stale'
  BY <1>0, <1>3, CloseStep, AgesStale
<1>4. ASSUME NEW p \in net, Receive(p) PROVE Stale'
  <2> DEFINE e == p.to
  <2>1. e \in Endpoints /\ p.to = e
    BY DEF IInv, Types, PacketRec
  <2> HIDE DEF e
  <2> QED
    BY <1>0, <1>4, <2>1, ReceiveStep, AgesStale
<1>5. ASSUME NEW e \in Endpoints, Poll(e) PROVE Stale'
  BY <1>0, <1>5, PollStep, AgesStale
<1>6. ASSUME NEW e \in Endpoints, Restart(e) PROVE Stale'
  <2> SUFFICES ASSUME NEW q \in net', q.old, q.age <= MaxPast PROVE tomb'[q.to] > MaxPast - q.age
    BY DEF Stale
  <2>1. q \in net /\ q.to # e /\ q.to \in Endpoints
    BY <1>0, <1>6, RestartStep DEF PacketRec
  <2>2. tomb'[q.to] = tomb[q.to]
    BY <1>6, <2>1 DEF Restart, IInv, Types
  <2> QED
    BY <2>1, <2>2 DEF Stale
<1>7. CASE Tick
  <2> SUFFICES ASSUME NEW q \in net', q.old, q.age <= MaxPast PROVE tomb'[q.to] > MaxPast - q.age
    BY DEF Stale
  <2>1. PICK p \in net : q = [p EXCEPT !.age = @ + 1]
    BY <1>7 DEF Tick
  <2>2. p \in PacketRec /\ p.age \in Int /\ p.to \in Endpoints
    BY DEF IInv, Types, PacketRec
  <2>3. q.age = p.age + 1 /\ q.old = p.old /\ q.to = p.to
    BY <2>1, <2>2 DEF PacketRec
  <2>4. tomb[p.to] > MaxPast - p.age
    BY <2>2, <2>3 DEF Stale
  <2>5. tomb'[p.to] >= tomb[p.to] - 1 /\ tomb[p.to] \in Int /\ tomb'[p.to] \in Int
    BY <1>7, <2>2 DEF Tick, IInv, Types
  <2> QED
    BY <2>2, <2>3, <2>4, <2>5
<1>8. CASE UNCHANGED vars
  BY <1>8 DEF vars, Stale
<1> QED
  BY <1>1, <1>2, <1>3, <1>4, <1>5, <1>6, <1>7, <1>8 DEF Next

\* NoStaleRevival of one step.
RevivesNone ==
  \A e \in Endpoints, p \in net :
    ~ (~ Has(e) /\ Has(e)' /\ p.to = e /\ p.old /\ p \notin net')

\* No step of which the tombstones are kept long enough creates a session from
\* an old packet.
LEMMA NextRevivesNone == IInv /\ Stale /\ [Next]_vars => RevivesNone
<1> SUFFICES ASSUME IInv, Stale, [Next]_vars, NEW e \in Endpoints, NEW p \in net,
                    ~ Has(e), Has(e)', p.to = e, p.old, p \notin net'
             PROVE  FALSE
  BY DEF RevivesNone
<1> USE Constants
<1>1. CASE SessionOpen
  BY <1>1, OpenStep
<1>2. ASSUME NEW x \in Endpoints, SessionWrite(x) PROVE FALSE
  BY <1>2, WriteStep
<1>3. ASSUME NEW x \in Endpoints, SessionClose(x) PROVE FALSE
  BY <1>3, CloseStep
<1>4. ASSUME NEW q \in net, Receive(q) PROVE FALSE
  <2> DEFINE x == q.to
  <2>1. x \in Endpoints /\ q.to = x
    BY DEF IInv, Types, PacketRec
  <2> HIDE DEF x
  <2>2. /\ q.age \in -MaxFuture..MaxPast
        /\ \A r \in net : r.old /\ r # q => r \in net'
        /\ \A y \in Endpoints : ~ Has(y) /\ Has(y)' => y = x /\ ~ Tombstoned(x)
    BY <1>4, <2>1, ReceiveStep
  <2>3. p = q /\ ~ Tombstoned(e) /\ p.age \in Int /\ p.age <= MaxPast
    BY <2>1, <2>2
  <2>4. tomb[e] > MaxPast - p.age
    BY <2>3 DEF Stale
  <2> QED
    BY <2>3, <2>4 DEF Tombstoned
<1>5. ASSUME NEW x \in Endpoints, Poll(x) PROVE FALSE
  BY <1>5, PollStep
<1>6. ASSUME NEW x \in Endpoints, Restart(x) PROVE FALSE
  BY <1>6, RestartStep
<1>7. CASE Tick
  BY <1>7, TickStep
<1>8. CASE UNCHANGED vars
  BY <1>8 DEF vars, Has
<1> QED
  BY <1>1, <1>2, <1>3, <1>4, <1>5, <1>6, <1>7, <1>8 DEF Next

\* With a tombstone longer than the freshness window and the distance of the two
\* clocks (SESSION_TOMBSTONE_MS against MAX_PAST_TICKS), no packet that was under
\* way when a conversation was closed creates its session again.
THEOREM TombstoneOutlives ==
  ASSUME MaxPast + Skew < TombTicks
  PROVE  Spec => NoStaleRevival
<1>1. Init => IInv /\ Stale
  BY InitInv
<1>2. IInv /\ Stale /\ [Next]_vars => IInv' /\ Stale'
  BY NextInv, NextStale
<1>3. IInv /\ Stale /\ [Next]_vars => [RevivesNone]_vars
  BY NextRevivesNone
<1>4. NoStaleRevival <=> [][RevivesNone]_vars
  BY PTL DEF NoStaleRevival, RevivesNone
<1> QED
  BY <1>1, <1>2, <1>3, <1>4, PTL DEF Spec

-----------------------------------------------------------------------------
(* The messages of one packet. *)

\* What the messages of one packet do one by one, they do together: Good[i] is
\* what is known after the first i of them.
LEMMA ReadEach ==
  ASSUME NEW Good, NEW st, NEW msgs \in Seq(Messages), st \in Good[0],
         \A i \in 1..Len(msgs) : \A x \in Good[i - 1] : HandleSessionMessage(x, msgs[i]) \in Good[i]
  PROVE  ReadMessages(st, msgs) \in Good[Len(msgs)]
<1> DEFINE Run(g) == IsRun(g, st, msgs, Len(msgs))
           run == CHOOSE g : Run(g)
<1>1. Len(msgs) \in Nat
  OBVIOUS
<1>2. \E g : Run(g)
  BY <1>1, RunExists
<1>3. Run(run)
  BY ONLY <1>2, Zenon
<1>4. ReadMessages(st, msgs) = run[Len(msgs)]
  BY DEF ReadMessages, IsRun
<1>5. run[0] = st /\ \A i \in 1..Len(msgs) : run[i] = HandleSessionMessage(run[i - 1], msgs[i])
  <2> HIDE DEF run
  <2> QED
    BY <1>1, <1>3 DEF IsRun
<1> HIDE DEF run
<1> DEFINE Bad == {i \in 0..Len(msgs) : run[i] \notin Good[i]}
<1> SUFFICES ASSUME Bad # {} PROVE FALSE
  BY <1>1, <1>4
<1>6. PICK n \in Bad : \A m \in Bad : n <= m
  <2>1. Bad \in SUBSET Nat
    BY <1>1
  <2> HIDE DEF Bad
  <2> QED
    BY <2>1, LeastNumber
<1>7. n # 0 /\ n - 1 \in 0..Len(msgs) /\ n \in 1..Len(msgs)
  BY <1>1, <1>5, <1>6
<1>8. run[n - 1] \in Good[n - 1]
  BY <1>6, <1>7
<1> QED
  BY <1>1, <1>5, <1>6, <1>7, <1>8

\* The messages that are read, by their numbers, and what is left.
LEMMA RecvFacts ==
  ASSUME NEW s \in SessionRec
  PROVE  /\ Ready(s) \in Nat /\ Len(RecvMessages(s)) = Ready(s)
         /\ \A i \in 1..Ready(s) : \E m \in s.buf : m.sn = s.next + i - 1 /\ RecvMessages(s)[i] = m.msg
         /\ KcpRecv(s).next = s.next + Ready(s)
         /\ KcpRecv(s).buf = {m \in s.buf : m.sn >= s.next + Ready(s)}
         /\ KcpRecv(s).acked = s.acked
         /\ ~ \E m \in s.buf : m.sn = s.next + Ready(s)
<1> USE Constants
<1>1. Ready(s) \in 0..(MaxData + 2) /\ Ready(s) \in Nat /\ s.next \in Int
      /\ \A i \in 0..(Ready(s) - 1) : \E m \in s.buf : m.sn = s.next + i
  <2>1. s.next \in 0..(MaxData + 2)
    BY DEF SessionRec
  <2>2. /\ Ready(s) \in 0..(MaxData + 2)
        /\ \A i \in 0..(Ready(s) - 1) : \E m \in s.buf : m.sn = s.next + i
    BY ReadyFacts
  <2> QED
    BY <2>1, <2>2
<1>2. \A i \in 1..Ready(s) : \E m \in s.buf : m.sn = s.next + i - 1
  <2> SUFFICES ASSUME NEW i \in 1..Ready(s) PROVE \E m \in s.buf : m.sn = s.next + i - 1
    OBVIOUS
  <2>1. i - 1 \in 0..(Ready(s) - 1) /\ s.next + (i - 1) = s.next + i - 1
    BY <1>1
  <2> QED
    BY <1>1, <2>1
<1>3. Len(RecvMessages(s)) = Ready(s)
  BY <1>1 DEF RecvMessages
<1>4. ASSUME NEW i \in 1..Ready(s)
      PROVE  \E m \in s.buf : m.sn = s.next + i - 1 /\ RecvMessages(s)[i] = m.msg
  <2> DEFINE c == CHOOSE m \in s.buf : m.sn = s.next + i - 1
  <2>1. c \in s.buf /\ c.sn = s.next + i - 1
    BY <1>2
  <2>2. RecvMessages(s)[i] = c.msg
    BY <1>1 DEF RecvMessages
  <2> QED
    BY <2>1, <2>2
<1>5. KcpRecv(s).next = s.next + Ready(s) /\ KcpRecv(s).acked = s.acked
      /\ KcpRecv(s).buf = {m \in s.buf : m.sn >= s.next + Ready(s)}
  <2> DEFINE n == s.next + Ready(s)
             b == {m \in s.buf : m.sn >= n}
  <2>1. KcpRecv(s) = [s EXCEPT !.next = n, !.buf = b]
    BY DEF KcpRecv
  <2> HIDE DEF n, b
  <2>2. KcpRecv(s).next = n /\ KcpRecv(s).acked = s.acked /\ KcpRecv(s).buf = b
    BY <2>1 DEF SessionRec
  <2> QED
    BY <2>2 DEF n, b
<1>6. ~ \E m \in s.buf : m.sn = s.next + Ready(s)
  BY ReadyFacts
<1> QED
  BY <1>1, <1>3, <1>4, <1>5, <1>6

-----------------------------------------------------------------------------
(* The session machine, message by message. *)

\* Reading leaves everything but the phase and the timer as it was.
SameStream(s, t) ==
  /\ t.peer = s.peer /\ t.queued = s.queued /\ t.sent = s.sent
  /\ t.acked = s.acked /\ t.buf = s.buf /\ t.next = s.next

\* What one message does to the phase and to what the shell has been told.
Handled(s, sh, msg, t, th) ==
  \/ /\ t = s /\ th = sh /\ s.phase \in {"None", "ClosingLocal", "ClosingRemote"}
  \/ /\ t = s /\ th = sh /\ msg = "Open" /\ s.phase = "Open"
  \/ /\ t = NoSession /\ th = sh /\ msg # "Open" /\ s.phase = "PendingRemote"
  \/ /\ SameStream(s, t) /\ msg = "Open" /\ s.phase = "PendingRemote" /\ t.phase = "Open"
     /\ th.writes = 0 /\ th.state = "open"
  \/ /\ t = s /\ msg = "Data" /\ s.phase = "Open"
     /\ th.writes = sh.writes + 1 /\ th.state = sh.state
  \/ /\ SameStream(s, t) /\ msg = "Close" /\ s.phase = "Open" /\ t.phase = "ClosingRemote"
     /\ th.writes = sh.writes /\ th.state = "closed"

\* handle_session_message
LEMMA MessageHandled ==
  ASSUME NEW s \in SessionRec, NEW sh \in ShellRec, NEW msg \in Messages,
         s.phase = "None" => s = NoSession,
         NEW st, st = HandleSessionMessage([s |-> s, sh |-> sh], msg)
  PROVE  st = [s |-> st.s, sh |-> st.sh] /\ Handled(s, sh, msg, st.s, st.sh)
<1>1. NoSession.phase = "None"
  BY NewTypes
<1>2. s.phase \in {"None", "PendingRemote", "Open", "ClosingLocal", "ClosingRemote"}
  BY DEF SessionRec, AllPhases, Phases
<1>3. CASE s.phase = "None"
  <2>1. st = [s |-> s, sh |-> sh]
    BY <1>1, <1>3 DEF HandleSessionMessage, HandleOpen, HandleData, HandleClose, Messages
  <2> QED
    BY <1>3, <2>1 DEF Handled
<1>4. CASE s.phase \in {"ClosingLocal", "ClosingRemote"}
  <2>1. st = [s |-> s, sh |-> sh]
    BY <1>1, <1>4 DEF HandleSessionMessage, HandleOpen, HandleData, HandleClose, Messages
  <2> QED
    BY <1>4, <2>1 DEF Handled
<1>5. CASE s.phase = "PendingRemote" /\ msg # "Open"
  <2>1. st = [s |-> NoSession, sh |-> sh]
    BY <1>1, <1>5 DEF HandleSessionMessage, HandleData, HandleClose, Messages
  <2> QED
    BY <1>5, <2>1 DEF Handled
<1>6. CASE s.phase = "PendingRemote" /\ msg = "Open"
  <2> DEFINE t == [s EXCEPT !.phase = "Open", !.timer = -1]
             th == TellOpen(sh)
  <2>1. st = [s |-> t, sh |-> th]
    BY <1>1, <1>6 DEF HandleSessionMessage, HandleOpen
  <2>2. SameStream(s, t) /\ t.phase = "Open"
    BY DEF SameStream, SessionRec
  <2>3. th.writes = 0 /\ th.state = "open"
    BY DEF TellOpen, ShellRec
  <2> HIDE DEF t, th
  <2> QED
    BY <1>6, <2>1, <2>2, <2>3 DEF Handled
<1>7. CASE s.phase = "Open" /\ msg = "Open"
  <2>1. st = [s |-> s, sh |-> sh]
    BY <1>1, <1>7 DEF HandleSessionMessage, HandleOpen
  <2> QED
    BY <1>7, <2>1 DEF Handled
<1>8. CASE s.phase = "Open" /\ msg = "Data"
  <2> DEFINE th == TellWrite(sh)
  <2>1. st = [s |-> s, sh |-> th]
    BY <1>1, <1>8 DEF HandleSessionMessage, HandleData
  <2>2. th.writes = sh.writes + 1 /\ th.state = sh.state
    BY DEF TellWrite, ShellRec
  <2> HIDE DEF th
  <2> QED
    BY <1>8, <2>1, <2>2 DEF Handled
<1>9. CASE s.phase = "Open" /\ msg = "Close"
  <2> DEFINE t == [s EXCEPT !.phase = "ClosingRemote", !.timer = CloseTicks]
             th == TellClose(sh)
  <2>1. st = [s |-> t, sh |-> th]
    BY <1>1, <1>9 DEF HandleSessionMessage, HandleClose
  <2>2. SameStream(s, t) /\ t.phase = "ClosingRemote"
    BY DEF SameStream, SessionRec
  <2>3. th.writes = sh.writes /\ th.state = "closed"
    BY DEF TellClose, ShellRec
  <2> HIDE DEF t, th
  <2> QED
    BY <1>9, <2>1, <2>2, <2>3 DEF Handled
<1> QED
  BY <1>2, <1>3, <1>4, <1>5, <1>6, <1>7, <1>8, <1>9 DEF Messages

\* What reading n messages of which none is an Open (if opens is FALSE) leaves of
\* a session.
ReadTo(s, sh, n, opens, t, th) ==
  /\ t # NoSession => SameStream(s, t)
  /\ t = NoSession => s.phase \in {"None", "PendingRemote"}
  /\ t.phase = "PendingRemote" => n = 0 /\ s.phase = "PendingRemote"
  /\ t.phase = "ClosingLocal" <=> s.phase = "ClosingLocal"
  /\ t.phase = "Open" => s.phase = "Open" \/ (s.phase = "PendingRemote" /\ n # 0)
  /\ s.phase = "ClosingRemote" => t.phase = "ClosingRemote"
  /\ ~ opens /\ s.phase \in {"None", "PendingRemote"} => t.phase \in {"None", "PendingRemote"}
  /\ s.phase = "PendingRemote" /\ n = 0 => t.phase = "PendingRemote"
  /\ th.state = "none" => sh.state = "none"

\* All the messages of a packet.
LEMMA ReadHandled ==
  ASSUME NEW w \in Nat, NEW s, NEW sh, Sound(s, sh, w), NEW msgs \in Seq(Messages),
         NEW opens \in BOOLEAN, ~ opens => \A i \in 1..Len(msgs) : msgs[i] # "Open",
         NEW read, read = ReadMessages([s |-> s, sh |-> sh], msgs)
  PROVE  ReadTo(s, sh, Len(msgs), opens, read.s, read.sh)
<1> DEFINE All == [s : SessionRec, sh : ShellRec]
           Is(i, x) == Sound(x.s, x.sh, w) /\ ReadTo(s, sh, i, opens, x.s, x.sh)
           Good == [i \in 0..Len(msgs) |-> {x \in All : Is(i, x)}]
           st == [s |-> s, sh |-> sh]
<1>1. Len(msgs) \in Nat /\ s \in SessionRec /\ sh \in ShellRec
  BY DEF Sound
<1>2. NoSession.phase = "None" /\ (s.phase = "None" => s = NoSession) /\ s.phase \in AllPhases
  BY NewTypes DEF Sound, SessionRec
<1>3. st \in Good[0]
  <2>1. st.s = s /\ st.sh = sh /\ st \in All
    BY <1>1
  <2> HIDE DEF st
  <2>2. ReadTo(s, sh, 0, opens, s, sh)
    BY <1>2 DEF ReadTo, SameStream, AllPhases, Phases
  <2> QED
    BY <1>1, <2>1, <2>2
<1>4. ASSUME NEW i \in 1..Len(msgs), NEW x \in Good[i - 1]
      PROVE  HandleSessionMessage(x, msgs[i]) \in Good[i]
  <2> DEFINE y == HandleSessionMessage(x, msgs[i])
             msg == msgs[i]
  <2>1. i - 1 \in 0..Len(msgs) /\ i \in 0..Len(msgs) /\ msg \in Messages /\ i # 0 /\ (~ opens => msg # "Open")
    BY <1>1
  <2>2. x \in All /\ Is(i - 1, x)
    BY <2>1
  <2>3. x.s \in SessionRec /\ x.sh \in ShellRec /\ (x.s.phase = "None" => x.s = NoSession)
    BY <2>2 DEF Sound
  <2>4. x \in Reads(w, AllPhases) /\ x = [s |-> x.s, sh |-> x.sh]
    BY <2>2, <2>3 DEF Reads, SessionRec
  <2> HIDE DEF msg
  <2>5. y \in Reads(w, AllPhases)
    BY <2>1, <2>4, MessageKeeps DEF msg
  <2>6. y = HandleSessionMessage([s |-> x.s, sh |-> x.sh], msg)
    BY <2>4 DEF msg
  <2> HIDE DEF y
  <2>7. Handled(x.s, x.sh, msg, y.s, y.sh)
    BY <2>1, <2>3, <2>6, MessageHandled
  <2>8. y \in All /\ Sound(y.s, y.sh, w) /\ y.s \in SessionRec /\ y.s.phase \in AllPhases
    BY <2>5 DEF Reads, SessionRec
  <2>9. ReadTo(s, sh, i, opens, y.s, y.sh)
    <3> DEFINE t == x.s
               th == x.sh
               u == y.s
               uh == y.sh
    <3>1. Handled(t, th, msg, u, uh) /\ ReadTo(s, sh, i - 1, opens, t, th)
      BY <2>2, <2>7
    <3>2. u.phase \in AllPhases /\ t.phase \in AllPhases /\ (t.phase = "None" => t = NoSession)
          /\ (u.phase = "None" => u = NoSession)
      BY <2>3, <2>8 DEF SessionRec, Sound
    <3>3. i - 1 = 0 \/ i - 1 # 0
      OBVIOUS
    <3> HIDE DEF t, th, u, uh
    <3>4. SameStream(s, t) /\ SameStream(t, u) => SameStream(s, u)
      BY DEF SameStream
    <3>5. t # NoSession => t.phase # "None"
      BY <3>2
    <3>6. u # NoSession => SameStream(s, u)
      <4>1. SameStream(t, t)
        BY DEF SameStream
      <4>2. u = NoSession \/ u = t \/ (SameStream(t, u) /\ t.phase # "None")
        BY <3>1 DEF Handled
      <4> QED
        BY <1>2, <3>1, <3>4, <4>1, <4>2 DEF ReadTo
    <3>7. ReadTo(s, sh, i, opens, u, uh)
      BY <1>2, <2>1, <3>1, <3>2, <3>5, <3>6 DEF Handled, ReadTo, AllPhases, Phases
    <3> QED
      BY <3>7 DEF u, uh
  <2> QED
    BY <2>1, <2>8, <2>9 DEF y
<1> HIDE DEF Good, st
<1>5. ReadMessages(st, msgs) \in Good[Len(msgs)]
  BY <1>3, <1>4, ReadEach
<1> QED
  BY <1>1, <1>5 DEF Good, st

-----------------------------------------------------------------------------
(* A stream and its reader. *)

\* The number of the first Data message of e's stream: the client's begins with Open.
Off(e) == IF e = "client" THEN 1 ELSE 0

\* The number the Close of e's stream has.
End(e) == Off(e) + wrote[e]

\* Message sn of a stream whose sender, now in that phase, wrote off..end-1.
Content(off, end, phase, sn, msg) ==
  \/ msg = "Open" /\ sn = 0 /\ off = 1
  \/ msg = "Data" /\ sn >= off /\ sn < end
  \/ msg = "Close" /\ sn = end /\ phase \notin {"Open", "PendingRemote"}

\* What a session has put into its stream.
Streams(off, end, phase, s) ==
  /\ Len(s.sent) = end + (IF s.queued THEN 1 ELSE 0)
  /\ \A n \in 0..(Len(s.sent) - 1) : Content(off, end, phase, n, s.sent[n + 1])

\* A reader in phase mine that took the first q messages of such a stream and
\* told its shell of that many writes.
At(off, end, phase, q, mine, writes) ==
  /\ q <= end + 1
  /\ q = end + 1 => phase \notin {"Open", "PendingRemote"}
  /\ mine = "PendingRemote" => q = 0 /\ off = 1
  /\ mine \in LivePhases => q >= off
  /\ mine = "Open" => q <= end /\ writes = q - off
  /\ mine = "ClosingRemote" => q = end + 1 /\ writes = end - off

\* A session that reads such a stream.
Reading(off, end, phase, s, writes) ==
  /\ At(off, end, phase, s.next, s.phase, writes)
  /\ \A m \in s.buf : Content(off, end, phase, m.sn, m.msg)

\* The messages a session has, in order or not.
Received(s) == {n \in SeqNos : n < s.next \/ \E m \in s.buf : m.sn = n}

\* The next message of the stream.
LEMMA NextMessage ==
  ASSUME NEW off \in {0, 1}, NEW end \in Nat, end >= off, NEW phase, NEW q \in Nat,
         NEW s \in SessionRec, NEW sh \in ShellRec, s.phase # "None",
         At(off, end, phase, q, s.phase, sh.writes),
         NEW msg \in Messages, Content(off, end, phase, q, msg), NEW t, NEW th, Handled(s, sh, msg, t, th)
  PROVE  t.phase # "None" /\ At(off, end, phase, q + 1, t.phase, th.writes)
<1>1. s.phase \in {"PendingRemote", "Open", "ClosingLocal", "ClosingRemote"}
  BY DEF SessionRec, AllPhases, Phases
<1> DEFINE mine == s.phase
           w == sh.writes
<1>2. w \in Nat /\ At(off, end, phase, q, mine, w) /\ mine \in {"PendingRemote", "Open", "ClosingLocal", "ClosingRemote"}
  BY <1>1 DEF ShellRec
<1> HIDE DEF mine, w
<1>3. CASE msg = "Open"
  <2>1. q = 0 /\ off = 1
    BY <1>3 DEF Content
  <2>2. mine = "PendingRemote"
    BY <1>2, <2>1 DEF At, LivePhases
  <2>3. t.phase = "Open" /\ th.writes = 0
    BY <1>3, <2>2 DEF Handled, mine
  <2> QED
    BY <2>1, <2>3 DEF At, LivePhases
<1>4. CASE msg = "Data"
  <2>1. q >= off /\ q < end
    BY <1>4 DEF Content
  <2>2. mine \in {"Open", "ClosingLocal"}
    BY <1>2, <2>1 DEF At, LivePhases
  <2>3. CASE mine = "Open"
    <3>1. t.phase = "Open" /\ th.writes = w + 1
      BY <1>4, <2>3 DEF Handled, mine, w
    <3> QED
      BY <1>2, <2>1, <2>3, <3>1 DEF At, LivePhases
  <2>4. CASE mine = "ClosingLocal"
    <3>1. t.phase = "ClosingLocal"
      BY <1>4, <2>4 DEF Handled, mine
    <3> QED
      BY <1>2, <2>1, <2>4, <3>1 DEF At, LivePhases
  <2> QED
    BY <2>2, <2>3, <2>4
<1>5. CASE msg = "Close"
  <2>1. q = end /\ phase \notin {"Open", "PendingRemote"}
    BY <1>5 DEF Content
  <2>2. mine \in {"Open", "ClosingLocal"}
    BY <1>2, <2>1 DEF At, LivePhases
  <2>3. CASE mine = "Open"
    <3>1. t.phase = "ClosingRemote" /\ th.writes = w
      BY <1>5, <2>3 DEF Handled, mine, w
    <3> QED
      BY <1>2, <2>1, <2>3, <3>1 DEF At, LivePhases
  <2>4. CASE mine = "ClosingLocal"
    <3>1. t.phase = "ClosingLocal"
      BY <1>5, <2>4 DEF Handled, mine
    <3> QED
      BY <1>2, <2>1, <2>4, <3>1 DEF At, LivePhases
  <2> QED
    BY <2>2, <2>3, <2>4
<1> QED
  BY <1>3, <1>4, <1>5 DEF Messages

\* The messages of a packet that follow one another in the stream.
LEMMA ReadFollows ==
  ASSUME NEW w \in Nat, NEW s, NEW sh, Sound(s, sh, w), NEW msgs \in Seq(Messages), s.phase # "None",
         NEW off \in {0, 1}, NEW end \in Nat, end >= off, NEW phase, NEW q \in Nat,
         At(off, end, phase, q, s.phase, sh.writes),
         \A i \in 1..Len(msgs) : Content(off, end, phase, q + i - 1, msgs[i]),
         NEW read, read = ReadMessages([s |-> s, sh |-> sh], msgs)
  PROVE  read.s.phase # "None" /\ At(off, end, phase, q + Len(msgs), read.s.phase, read.sh.writes)
<1> DEFINE All == [s : SessionRec, sh : ShellRec]
           Is(i, x) == /\ Sound(x.s, x.sh, w) /\ x.s.phase # "None"
                       /\ At(off, end, phase, q + i, x.s.phase, x.sh.writes)
           Good == [i \in 0..Len(msgs) |-> {x \in All : Is(i, x)}]
           st == [s |-> s, sh |-> sh]
<1>1. Len(msgs) \in Nat /\ s \in SessionRec /\ sh \in ShellRec
  BY DEF Sound
<1>3. st \in Good[0]
  <2>1. st.s = s /\ st.sh = sh /\ st \in All /\ q + 0 = q
    BY <1>1
  <2> HIDE DEF st
  <2> QED
    BY <1>1, <2>1
<1>4. ASSUME NEW i \in 1..Len(msgs), NEW x \in Good[i - 1]
      PROVE  HandleSessionMessage(x, msgs[i]) \in Good[i]
  <2> DEFINE y == HandleSessionMessage(x, msgs[i])
             msg == msgs[i]
             k == q + (i - 1)
  <2>1. /\ i - 1 \in 0..Len(msgs) /\ i \in 0..Len(msgs) /\ msg \in Messages /\ k \in Nat
        /\ k + 1 = q + i /\ k = q + i - 1
    BY <1>1
  <2>2. x \in All /\ Is(i - 1, x)
    BY <2>1
  <2>3. x.s \in SessionRec /\ x.sh \in ShellRec /\ (x.s.phase = "None" => x.s = NoSession)
    BY <2>2 DEF Sound
  <2>4. x \in Reads(w, AllPhases) /\ x = [s |-> x.s, sh |-> x.sh]
    BY <2>2, <2>3 DEF Reads, SessionRec
  <2>0. Content(off, end, phase, k, msg)
    BY <2>1
  <2> HIDE DEF msg
  <2>5. y \in Reads(w, AllPhases)
    BY <2>1, <2>4, MessageKeeps DEF msg
  <2>6. y = HandleSessionMessage([s |-> x.s, sh |-> x.sh], msg)
    BY <2>4 DEF msg
  <2> HIDE DEF y
  <2>7. Handled(x.s, x.sh, msg, y.s, y.sh)
    BY <2>1, <2>3, <2>6, MessageHandled
  <2>8. y \in All /\ Sound(y.s, y.sh, w)
    BY <2>5 DEF Reads
  <2>9. At(off, end, phase, k, x.s.phase, x.sh.writes) /\ x.s.phase # "None"
    BY <2>2
  <2> HIDE DEF k
  <2>10. y.s.phase # "None" /\ At(off, end, phase, k + 1, y.s.phase, y.sh.writes)
    BY <2>0, <2>1, <2>3, <2>7, <2>9, NextMessage
  <2> QED
    BY <2>1, <2>8, <2>10 DEF y
<1> HIDE DEF Good, st
<1>5. ReadMessages(st, msgs) \in Good[Len(msgs)]
  BY <1>3, <1>4, ReadEach
<1> QED
  BY <1>1, <1>5 DEF Good, st

\* A packet brings message m.
Brings(p, m) == p.msg \in Messages /\ m = [sn |-> p.sn, msg |-> p.msg]

\* A packet acknowledges message n.
Acks(p, n) == n < p.una \/ (p.msg = "Ack" /\ n = p.sn)

\* What KCP makes of packet p: in is the session that got it, t what recv leaves,
\* msgs what it reads.
Took(s, p, t, msgs) ==
  /\ t \in SessionRec /\ msgs \in Seq(Messages)
  /\ t.phase = s.phase /\ t.queued = s.queued /\ t.sent = s.sent /\ t.peer = s.peer /\ t.timer = s.timer
  /\ t.next = s.next + Len(msgs)
  /\ \A m \in t.buf : m.sn > t.next /\ (m \in s.buf \/ Brings(p, m))
  /\ \A i \in 1..Len(msgs) :
       \E m : (m \in s.buf \/ Brings(p, m)) /\ m.sn = s.next + i - 1 /\ msgs[i] = m.msg
  /\ Received(s) \subseteq Received(t)
  /\ p.msg \in Messages => p.sn \in Received(t)
  /\ \A n \in t.acked : n \in s.acked \/ (n \in Unacked(s) /\ Acks(p, n))

\* That is what input() and the read loop of handle_packet do.
LEMMA InputTook ==
  ASSUME NEW s \in SessionRec, NEW p \in PacketRec, NEW input, input = KcpData(KcpAck(s, p), p)
  PROVE  Took(s, p, KcpRecv(input), RecvMessages(input))
<1> USE Constants
<1> DEFINE t == KcpRecv(input)
           msgs == RecvMessages(input)
           a == KcpAck(s, p)
           more == {n \in Unacked(s) : Acks(p, n)}
<1>1. /\ input \in SessionRec /\ t \in SessionRec /\ msgs \in Seq(Messages)
      /\ t.phase = s.phase /\ t.queued = s.queued /\ t.sent = s.sent /\ t.peer = s.peer /\ t.timer = s.timer
  <2>1. input \in SessionRec /\ t \in SessionRec
        /\ t.phase = s.phase /\ t.queued = s.queued /\ t.sent = s.sent /\ t.peer = s.peer /\ t.timer = s.timer
    BY InputType
  <2> QED
    BY <2>1, RecvType
<1>2. a.acked = s.acked \cup more /\ a.buf = s.buf /\ a.next = s.next
  <2>1. a = [s EXCEPT !.acked = @ \cup more]
    BY DEF KcpAck, Acks
  <2> HIDE DEF more, a
  <2> QED
    BY <2>1 DEF SessionRec
<1>3. input.acked = a.acked /\ input.next = a.next
      /\ \A m : m \in input.buf <=> m \in a.buf \/ (Brings(p, m) /\ p.sn >= a.next)
  <2>0. input = KcpData(a, p)
    OBVIOUS
  <2>9. a \in [phase : {a.phase}, peer : {a.peer}, timer : {a.timer}, queued : {a.queued},
               sent : {a.sent}, acked : {a.acked}, buf : {a.buf}, next : {a.next}]
    <3>1. a = [s EXCEPT !.acked = @ \cup more]
      BY DEF KcpAck, Acks
    <3> HIDE DEF more, a
    <3> QED
      BY <3>1 DEF SessionRec
  <2> HIDE DEF a
  <2>1. CASE p.msg \in Messages /\ p.sn >= a.next
    <3> DEFINE c == [sn |-> p.sn, msg |-> p.msg]
               b == a.buf \cup {c}
    <3>1. input = [a EXCEPT !.buf = b]
      BY <2>0, <2>1 DEF KcpData
    <3> HIDE DEF b
    <3>2. input.acked = a.acked /\ input.next = a.next /\ input.buf = b
      BY <2>9, <3>1
    <3> HIDE DEF c
    <3>3. \A m : m \in b <=> m \in a.buf \/ m = c
      BY DEF b
    <3> QED
      BY <2>1, <3>2, <3>3 DEF Brings, c
  <2>2. CASE ~ (p.msg \in Messages /\ p.sn >= a.next)
    BY <2>0, <2>2 DEF KcpData, Brings
  <2> QED
    BY <2>1, <2>2
<1>4. /\ Ready(input) \in Nat /\ Len(msgs) = Ready(input)
      /\ \A i \in 1..Ready(input) : \E m \in input.buf : m.sn = input.next + i - 1 /\ msgs[i] = m.msg
      /\ t.next = input.next + Ready(input)
      /\ t.buf = {m \in input.buf : m.sn >= input.next + Ready(input)}
      /\ t.acked = input.acked
      /\ ~ \E m \in input.buf : m.sn = input.next + Ready(input)
  BY <1>1, RecvFacts
<1>5. /\ s.next \in Int /\ p.sn \in SeqNos /\ p.sn \in Int
      /\ \A m \in input.buf : m.sn \in Int
  BY <1>1 DEF SessionRec, PacketRec, SeqNos
<1>6. \A m \in s.buf : m \in input.buf
  BY <1>2, <1>3
<1> HIDE DEF t, msgs, a, more
<1>7. t.next = s.next + Len(msgs) /\ t.next \in Int /\ t.next >= s.next /\ t.next = input.next + Ready(input)
  BY <1>2, <1>3, <1>4, <1>5
<1>8. \A m \in t.buf : m.sn > t.next /\ (m \in s.buf \/ Brings(p, m))
  BY <1>2, <1>3, <1>4, <1>5, <1>7
<1>9. \A i \in 1..Len(msgs) :
        \E m : (m \in s.buf \/ Brings(p, m)) /\ m.sn = s.next + i - 1 /\ msgs[i] = m.msg
  BY <1>2, <1>3, <1>4
<1>10. \A m \in input.buf : m.sn < t.next \/ m \in t.buf
  BY <1>4, <1>5, <1>7
<1>11. Received(s) \subseteq Received(t)
  <2> SUFFICES ASSUME NEW n \in SeqNos, n < s.next \/ \E m \in s.buf : m.sn = n
               PROVE  n < t.next \/ \E m \in t.buf : m.sn = n
    BY DEF Received
  <2>1. CASE n < s.next
    BY <1>5, <1>7, <2>1 DEF SeqNos
  <2>2. CASE \E m \in s.buf : m.sn = n
    BY <1>6, <1>10, <2>2
  <2> QED
    BY <2>1, <2>2
<1>12. p.msg \in Messages => p.sn \in Received(t)
  <2> SUFFICES ASSUME p.msg \in Messages
               PROVE  p.sn < t.next \/ \E m \in t.buf : m.sn = p.sn
    BY <1>5 DEF Received
  <2>1. CASE p.sn < s.next
    BY <1>5, <1>7, <2>1
  <2>2. CASE p.sn >= s.next
    <3> DEFINE c == [sn |-> p.sn, msg |-> p.msg]
    <3>1. c.sn = p.sn /\ Brings(p, c)
      BY DEF Brings
    <3>2. c \in input.buf
      BY <1>2, <1>3, <2>2, <3>1
    <3> QED
      BY <1>10, <3>1, <3>2
  <2> QED
    BY <1>5, <2>1, <2>2
<1>13. \A n \in t.acked : n \in s.acked \/ (n \in Unacked(s) /\ Acks(p, n))
  BY <1>2, <1>3, <1>4 DEF more
<1> QED
  BY <1>1, <1>7, <1>8, <1>9, <1>11, <1>12, <1>13 DEF Took, t, msgs

\* A Close is put into the stream or waits; nothing else changes.
Requeued(s, t) ==
  \/ t = s
  \/ /\ t.phase = "ClosingLocal" /\ s.phase = "ClosingLocal" /\ ~ s.queued /\ t.queued = TRUE
     /\ t.sent = Append(s.sent, "Close")
     /\ t.peer = s.peer /\ t.acked = s.acked /\ t.buf = s.buf /\ t.next = s.next /\ t.timer = s.timer

\* That is what queue_local_close_if_possible does.
LEMMA QueueRequeued ==
  ASSUME NEW e, NEW s \in SessionRec PROVE Requeued(s, QueueLocalClose(e, s))
<1> DEFINE t == QueueLocalClose(e, s)
<1>1. CASE t = s
  BY <1>1 DEF Requeued
<1>2. CASE t # s
  <2> DEFINE more == Append(s.sent, "Close")
  <2>1. s.phase = "ClosingLocal" /\ ~ s.queued /\ t = [KcpSend(s, "Close") EXCEPT !.queued = TRUE]
    BY <1>2 DEF QueueLocalClose
  <2>2. KcpSend(s, "Close") = [s EXCEPT !.sent = more]
    BY DEF KcpSend
  <2> HIDE DEF more, t
  <2>3. /\ t.phase = s.phase /\ t.queued = TRUE /\ t.sent = more /\ t.peer = s.peer
        /\ t.acked = s.acked /\ t.buf = s.buf /\ t.next = s.next /\ t.timer = s.timer
    BY <2>1, <2>2 DEF SessionRec
  <2> QED
    BY <2>1, <2>3 DEF Requeued, more, t
<1> QED
  BY <1>1, <1>2

\* A Close that is queued is the last message of the stream.
LEMMA RequeuedStreams ==
  ASSUME NEW s \in SessionRec, NEW t, Requeued(s, t), NEW off \in {0, 1}, NEW end \in Nat,
         Streams(off, end, s.phase, s)
  PROVE  Streams(off, end, s.phase, t)
<1>1. CASE t = s
  BY <1>1
<1>2. CASE t # s
  <2> DEFINE sent == s.sent
             phase == s.phase
             l == Len(sent)
  <2>1. /\ phase = "ClosingLocal" /\ t.queued = TRUE /\ t.sent = Append(sent, "Close")
        /\ sent \in Seq(Messages) /\ ~ s.queued
    BY <1>2 DEF Requeued, SessionRec
  <2>2. l = end /\ \A n \in 0..(l - 1) : Content(off, end, phase, n, sent[n + 1])
    BY <2>1 DEF Streams
  <2> HIDE DEF sent, phase
  <2> DEFINE more == Append(sent, "Close")
  <2>3. Len(more) = end + 1 /\ \A i \in 1..Len(more) : more[i] = IF i = end + 1 THEN "Close" ELSE sent[i]
    BY <2>1, <2>2
  <2>5. t.sent = more
    BY <2>1
  <2> HIDE DEF more, l
  <2>4. \A n \in 0..(Len(more) - 1) : Content(off, end, phase, n, more[n + 1])
    <3> SUFFICES ASSUME NEW n \in 0..end PROVE Content(off, end, phase, n, more[n + 1])
      BY <2>3
    <3>1. CASE n = end
      BY <2>1, <2>3, <3>1 DEF Content
    <3>2. CASE n # end
      <4>1. n \in 0..(l - 1) /\ n + 1 \in 1..Len(more) /\ n + 1 # end + 1
        BY <2>2, <2>3, <3>2
      <4> QED
        BY <2>2, <2>3, <4>1
    <3> QED
      BY <3>1, <3>2
  <2> QED
    BY <2>1, <2>3, <2>4, <2>5 DEF Streams, phase
<1> QED
  BY <1>1, <1>2

-----------------------------------------------------------------------------
(* Both cores: what holds of every conversation. *)

\* A session and the number of writes its shell was told of: nothing is sent, read
\* or acknowledged before the session is open, or before the peer is known.
Shape(s, w) ==
  /\ s.phase \in {"None", "PendingRemote"} => s.sent = <<>> /\ s.acked = {} /\ s.next = 0 /\ ~ s.queued
  /\ s.queued => s.phase = "ClosingLocal"
  /\ s.peer = 0 => /\ s.acked = {} /\ s.next = 0 /\ s.buf = {}
                   /\ s.phase \in {"None", "Open", "ClosingLocal"}
                   /\ s.phase = "Open" => w = 0
  /\ \A m \in s.buf : m.sn > s.next

\* Both sessions have that shape.
Shapes == \A e \in Endpoints : Shape(sess[e], shell[e].writes)

\* No packet, binding or clean close is of a life of the peer yet to come.
Lives ==
  /\ \A p \in net : p.inst <= inst[Peer(p.to)]
  /\ \A e \in Endpoints : sess[e].peer <= inst[Peer(e)] /\ clean[e] <= inst[Peer(e)]

\* A clean close leaves a tombstone, and a session has none.
Tombs == \A e \in Endpoints : (clean[e] # 0 => tomb[e] # -1) /\ (Has(e) => tomb[e] = -1)

\* Only the first client opens the conversation, and only it has messages to send.
FirstClient ==
  /\ inst["client"] # 1 => sess["client"].phase \in {"None", "PendingRemote"} /\ clean["client"] = 0
  /\ \A p \in net : p.to = "server" /\ p.msg \in Messages => p.inst = 1
  /\ sess["server"].buf # {} \/ sess["server"].phase \in LivePhases => sess["server"].peer = 1
  /\ clean["server"] \in {0, 1}

\* The server sends no Open.
NoOpen ==
  /\ \A p \in net : p.to = "client" => p.msg # "Open"
  /\ \A m \in sess["client"].buf : m.msg # "Open"
  /\ \A i \in 1..Len(sess["server"].sent) : sess["server"].sent[i] # "Open"

\* A packet the server would find too old is gone.
Young == \A p \in net : p.to = "server" => p.age <= MaxPast

\* Before the client opens the conversation nobody knows of it.
Before ==
  inst["client"] = 1 /\ shell["client"].state = "none" =>
    /\ \A e \in Endpoints : ~ Has(e) /\ tomb[e] = -1 /\ clean[e] = 0 /\ wrote[e] = 0 /\ ~ forgot[e]
    /\ \A p \in net : p.msg = "KeepAlive"

\* What holds whether or not somebody lost the conversation.
Base ==
  /\ forgot \in [Endpoints -> BOOLEAN]
  /\ Shapes /\ Lives /\ Tombs /\ FirstClient /\ NoOpen /\ Young /\ Before

\* q is p, perhaps marked as one of an old life.
SamePacket(p, q) ==
  /\ q.to = p.to /\ q.inst = p.inst /\ q.age = p.age
  /\ q.msg = p.msg /\ q.sn = p.sn /\ q.una = p.una

\* A packet e makes of its session k, which it may then give up.
MadeOf(e, k, q) ==
  /\ q.to = Peer(e) /\ q.inst = inst[e] /\ q.age = IF e = "client" THEN -Skew ELSE Skew
  /\ \/ q.msg = "KeepAlive"
     \/ /\ q.msg \in Messages /\ q.una = k.next
        /\ q.sn \in 0..(Len(k.sent) - 1) /\ q.msg = k.sent[q.sn + 1]
     \/ /\ q.msg = "Ack"
        /\ (forgot'[e] /\ k.phase # "None") \/ (q.una = k.next /\ q.sn \in Received(k))

\* Every message of the stream was acknowledged, the Close too.
CleanEnd(k) == k.phase = "ClosingLocal" /\ k.queued /\ Unacked(k) = {}

\* A step of e alone.
Alone(e) ==
  /\ inst' = inst
  /\ \A x \in Endpoints : x # e =>
       /\ sess'[x] = sess[x] /\ shell'[x] = shell[x] /\ tomb'[x] = tomb[x]
       /\ clean'[x] = clean[x] /\ wrote'[x] = wrote[x] /\ forgot'[x] = forgot[x]
  /\ forgot' \in [Endpoints -> BOOLEAN] /\ (forgot[e] => forgot'[e])
  /\ shell'[e].state = "none" => shell[e].state = "none"

\* The ways in which a step leaves e's session, which became k.
Leaves(e, k, w) ==
  \/ sess'[e] = k /\ shell'[e].writes = w /\ tomb'[e] = -1 /\ clean'[e] = 0
  \/ sess'[e] = NoSession /\ forgot'[e] /\ tomb'[e] = -1 /\ clean'[e] = 0
  \/ sess'[e] = NoSession /\ tomb'[e] = TombTicks /\ (clean'[e] = 0 \/ (CleanEnd(k) /\ clean'[e] = k.peer))

\* The packets after a step of e in which its session became k.
Puts(e, k) == \A q \in net' : (\E p \in net : SamePacket(p, q)) \/ MadeOf(e, k, q)

\* A session of e that the step made.
Made(e, k, w) ==
  /\ k \in SessionRec /\ k.phase # "None" /\ Shape(k, w) /\ k.peer <= inst[Peer(e)]
  /\ e = "client" =>
       /\ inst["client"] # 1 => k.phase = "PendingRemote"
       /\ \A m \in k.buf : m.msg # "Open"
  /\ e = "server" =>
       /\ k.buf # {} \/ k.phase \in LivePhases => k.peer = 1
       /\ \A i \in 1..Len(k.sent) : k.sent[i] # "Open"

\* A step of e that leaves e with such a session, or ends it.
LEMMA StoredBase ==
  ASSUME IInv, IInv', Base, NEW e \in Endpoints, NEW k, NEW w,
         inst["client"] = 1 => shell'["client"].state # "none",
         Alone(e), Leaves(e, k, w), Puts(e, k), Made(e, k, w)
  PROVE  Base'
<1> USE Constants
<1> DEFINE r == Peer(e)
<1>1. r \in Endpoints /\ r # e /\ Peer(r) = e /\ Endpoints = {e, r} /\ {"client", "server"} = {e, r}
  BY DEF Peer, Endpoints
<1>2. /\ inst \in [Endpoints -> Instances] /\ net \in SUBSET PacketRec /\ clean \in [Endpoints -> 0..MaxInst]
      /\ net' \in SUBSET PacketRec
  BY DEF IInv, Types
<1>3. /\ sess'[r] = sess[r] /\ shell'[r] = shell[r] /\ tomb'[r] = tomb[r] /\ clean'[r] = clean[r]
      /\ inst' = inst
  BY <1>1 DEF Alone
<1>4. /\ NoSession.phase = "None" /\ NoSession.peer = 0 /\ NoSession.buf = {} /\ NoSession.next = 0
      /\ NoSession.acked = {} /\ NoSession.sent = <<>> /\ NoSession.queued = FALSE /\ Len(NoSession.sent) = 0
  BY NewTypes DEF NoSession, NewSession
<1>5. \A n : Shape(NoSession, n)
  BY <1>4 DEF Shape
<1>6. k.peer \in Nat /\ k.sent \in Seq(Messages) /\ Len(k.sent) \in Nat /\ Len(<<>>) = 0
  BY DEF Made, SessionRec
<1> HIDE DEF r
<1>7. Shapes'
  <2>1. Shape(sess'[e], shell'[e].writes)
    BY <1>5 DEF Leaves, Made
  <2>2. Shape(sess'[r], shell'[r].writes)
    BY <1>1, <1>3 DEF Base, Shapes
  <2>3. \A x \in Endpoints : Shape(sess'[x], shell'[x].writes)
    BY <1>1, <2>1, <2>2
  <2> QED
    BY <2>3 DEF Shapes, Shape
<1>8. Lives'
  <2>1. \A q \in net' : q.inst <= inst'[Peer(q.to)]
    <3> SUFFICES ASSUME NEW q \in net' PROVE q.inst <= inst[Peer(q.to)]
      BY <1>3
    <3>1. CASE \E p \in net : SamePacket(p, q)
      BY <3>1 DEF SamePacket, Base, Lives
    <3>2. CASE MadeOf(e, k, q)
      <4>1. q.inst = inst[e] /\ q.to = r
        BY <3>2 DEF MadeOf, r
      <4>2. Peer(q.to) = e /\ inst[e] \in Int
        BY <1>1, <1>2, <4>1 DEF Instances
      <4> QED
        BY <4>1, <4>2
    <3> QED
      BY <3>1, <3>2 DEF Puts
  <2>2. sess'[r].peer <= inst'[Peer(r)] /\ clean'[r] <= inst'[Peer(r)]
    BY <1>1, <1>3 DEF Base, Lives
  <2>3. inst[r] \in Nat /\ k.peer <= inst[r]
    BY <1>1, <1>2 DEF Instances, Made, r
  <2>4. sess'[e].peer <= inst'[Peer(e)] /\ clean'[e] <= inst'[Peer(e)]
    <3>1. sess'[e].peer \in {0, k.peer} /\ clean'[e] \in {0, k.peer}
      BY <1>4 DEF Leaves
    <3> QED
      BY <1>3, <1>6, <2>3, <3>1 DEF r
  <2> QED
    BY <1>1, <2>1, <2>2, <2>4 DEF Lives
<1>9. Tombs'
  <2>1. (clean'[e] # 0 => tomb'[e] # -1) /\ (sess'[e] # NoSession => tomb'[e] = -1)
    BY DEF Leaves
  <2>2. (clean'[r] # 0 => tomb'[r] # -1) /\ (sess'[r] # NoSession => tomb'[r] = -1)
    BY <1>1, <1>3 DEF Base, Tombs, Has
  <2> QED
    BY <1>1, <2>1, <2>2 DEF Tombs, Has
<1>10. FirstClient'
  <2>1. inst'["client"] # 1 => sess'["client"].phase \in {"None", "PendingRemote"} /\ clean'["client"] = 0
    <3>1. CASE e = "client"
      BY <1>3, <1>4, <3>1 DEF Leaves, Made, CleanEnd
    <3>2. CASE r = "client"
      BY <1>3, <3>2 DEF Base, FirstClient
    <3> QED
      BY <1>1, <3>1, <3>2
  <2>2. \A q \in net' : q.to = "server" /\ q.msg \in Messages => q.inst = 1
    <3> SUFFICES ASSUME NEW q \in net', q.to = "server", q.msg \in Messages PROVE q.inst = 1
      OBVIOUS
    <3>1. CASE \E p \in net : SamePacket(p, q)
      BY <3>1 DEF SamePacket, Base, FirstClient
    <3>2. CASE MadeOf(e, k, q)
      <4>1. e = "client" /\ q.inst = inst["client"] /\ q.sn \in 0..(Len(k.sent) - 1)
        BY <3>2 DEF MadeOf, Peer, Endpoints, Messages
      <4>2. k.sent # <<>>
        BY <1>6, <4>1
      <4> QED
        BY <4>1, <4>2 DEF Made, Shape
    <3> QED
      BY <3>1, <3>2 DEF Puts
  <2>3. sess'["server"].buf # {} \/ sess'["server"].phase \in LivePhases => sess'["server"].peer = 1
    <3>1. CASE e = "server"
      BY <1>4, <3>1 DEF Leaves, Made, LivePhases
    <3>2. CASE r = "server"
      BY <1>3, <3>2 DEF Base, FirstClient
    <3> QED
      BY <1>1, <3>1, <3>2
  <2>4. clean'["server"] \in {0, 1}
    <3>1. CASE e = "server"
      BY <3>1 DEF Leaves, Made, CleanEnd, LivePhases
    <3>2. CASE r = "server"
      BY <1>3, <3>2 DEF Base, FirstClient
    <3> QED
      BY <1>1, <3>1, <3>2
  <2> QED
    BY <2>1, <2>2, <2>3, <2>4 DEF FirstClient
<1>11. NoOpen'
  <2>1. \A q \in net' : q.to = "client" => q.msg # "Open"
    <3> SUFFICES ASSUME NEW q \in net', q.to = "client", q.msg = "Open" PROVE FALSE
      OBVIOUS
    <3>1. CASE \E p \in net : SamePacket(p, q)
      BY <3>1 DEF SamePacket, Base, NoOpen
    <3>2. CASE MadeOf(e, k, q)
      <4>1. e = "server" /\ q.sn \in 0..(Len(k.sent) - 1) /\ k.sent[q.sn + 1] = "Open"
        BY <3>2 DEF MadeOf, Peer, Endpoints
      <4>2. q.sn + 1 \in 1..Len(k.sent)
        BY <1>6, <4>1
      <4> QED
        BY <4>1, <4>2 DEF Made
    <3> QED
      BY <3>1, <3>2 DEF Puts
  <2>2. \A m \in sess'["client"].buf : m.msg # "Open"
    <3>1. CASE e = "client"
      BY <1>4, <3>1 DEF Leaves, Made
    <3>2. CASE r = "client"
      BY <1>3, <3>2 DEF Base, NoOpen
    <3> QED
      BY <1>1, <3>1, <3>2
  <2>3. \A i \in 1..Len(sess'["server"].sent) : sess'["server"].sent[i] # "Open"
    <3>1. CASE e = "server"
      <4>1. CASE sess'[e] = k
        BY <3>1, <4>1 DEF Made
      <4>2. CASE sess'[e] = NoSession
        <5>1. Len(sess'[e].sent) = 0
          BY <1>4, <4>2
        <5> QED
          BY <3>1, <5>1
      <4> QED
        BY <4>1, <4>2 DEF Leaves
    <3>2. CASE r = "server"
      BY <1>3, <3>2 DEF Base, NoOpen
    <3> QED
      BY <1>1, <3>1, <3>2
  <2> QED
    BY <2>1, <2>2, <2>3 DEF NoOpen
<1>12. Young'
  <2> SUFFICES ASSUME NEW q \in net', q.to = "server" PROVE q.age <= MaxPast
    BY DEF Young
  <2>1. CASE \E p \in net : SamePacket(p, q)
    BY <2>1 DEF SamePacket, Base, Young
  <2>2. CASE MadeOf(e, k, q)
    <3>1. q.age = -Skew
      BY <2>2 DEF MadeOf, Peer, Endpoints
    <3> QED
      BY <3>1
  <2> QED
    BY <2>1, <2>2 DEF Puts
<1>13. Before'
  <2> SUFFICES ASSUME inst'["client"] = 1, shell'["client"].state = "none" PROVE FALSE
    BY DEF Before
  <2> QED
    BY <1>3
<1> QED
  BY <1>7, <1>8, <1>9, <1>10, <1>11, <1>12, <1>13 DEF Base, Alone

-----------------------------------------------------------------------------
(* The two halves of the first client's conversation. *)

\* The client that opened the conversation still runs and has not given it up.
Unbroken == inst["client"] = 1 /\ ~ forgot["client"]

\* p is a packet of the conversation from e's present life.
Of(e, p) == p.to = Peer(e) /\ p.inst = inst[e] /\ p.msg # "KeepAlive"

\* e's stream is what its shell wrote.
Sends(e) == Has(e) /\ ~ forgot[e] => Streams(Off(e), End(e), sess[e].phase, sess[e])

\* e's messages in flight are of that stream.
Carries(e) ==
  ~ forgot[e] => \A p \in net : Of(e, p) /\ p.msg \in Messages =>
                   Content(Off(e), End(e), sess[e].phase, p.sn, p.msg)

\* e's acknowledgements in flight are of messages it has.
Answers(e) ==
  Has(e) /\ ~ forgot[e] => \A p \in net : Of(e, p) =>
    p.una <= sess[e].next /\ (p.msg = "Ack" => p.sn \in Received(sess[e]))

\* What e holds for acknowledged its peer has.
Acked(e) ==
  Has(e) /\ Has(Peer(e)) /\ sess[e].peer = inst[Peer(e)] /\ ~ forgot[Peer(e)] =>
    sess[e].acked \subseteq Received(sess[Peer(e)])

\* e reads the stream of its peer.
Follows(e) ==
  Has(e) /\ sess[e].peer = inst[Peer(e)] /\ ~ forgot[Peer(e)] =>
    Reading(Off(Peer(e)), End(Peer(e)), sess[Peer(e)].phase, sess[e], shell[e].writes)

\* After e's clean close its peer has e's whole stream.
Agreed(e) ==
  clean[e] # 0 /\ clean[e] = inst[Peer(e)] /\ Has(Peer(e)) /\ ~ Forgotten =>
    /\ sess[Peer(e)].peer # 0
    /\ sess[Peer(e)].peer = inst[e] => sess[Peer(e)].next = End(e) + 1

\* Without a session at the client there is nothing of the conversation, or a
\* tombstone that outlives every packet on its way to the server.
Idle ==
  ~ Has("client") =>
    \/ tomb["client"] = -1 /\ ~ Has("server") /\ \A p \in net : p.msg = "KeepAlive"
    \/ /\ tomb["client"] # -1
       /\ \A p \in net : p.to = "server" /\ p.msg # "KeepAlive" => p.age >= TombTicks - tomb["client"] - Skew

\* A server without session and tombstone has not spoken yet, or never will again.
Unopened ==
  ~ Has("server") /\ tomb["server"] = -1 /\ ~ forgot["server"] =>
    \/ /\ wrote["server"] = 0 /\ clean["client"] # inst["server"]
       /\ Has("client") => sess["client"].peer # inst["server"]
       /\ \A p \in net : ~ Of("server", p)
    \/ ~ Has("client") /\ \A p \in net : p.to = "server" => p.msg = "KeepAlive"

\* The parts of the agreement that each half has.
Halves == \A e \in Endpoints : Sends(e) /\ Carries(e) /\ Answers(e) /\ Acked(e) /\ Follows(e) /\ Agreed(e)

\* The two halves of the conversation agree.
Agreement == Halves /\ Idle /\ Unopened /\ sess["client"].phase # "PendingRemote"

\* A stream grows, or its sender stops being open.
Grows(w1, phase1, w2, phase2) ==
  \/ w2 = w1 /\ (phase2 \in {"Open", "PendingRemote"} => phase1 \in {"Open", "PendingRemote"})
  \/ w2 = w1 + 1 /\ phase1 = "Open" /\ phase2 = "Open"

\* What is known of such a stream remains true.
LEMMA ContentGrows ==
  ASSUME NEW off \in {0, 1}, NEW w1 \in Nat, NEW w2 \in Nat, NEW phase1, NEW phase2,
         Grows(w1, phase1, w2, phase2)
  PROVE  /\ \A sn \in Nat : \A msg : Content(off, off + w1, phase1, sn, msg) => Content(off, off + w2, phase2, sn, msg)
         /\ \A q \in Nat : \A mine, writes : At(off, off + w1, phase1, q, mine, writes) =>
              At(off, off + w2, phase2, q, mine, writes)
<1>1. CASE w2 = w1 /\ (phase2 \in {"Open", "PendingRemote"} => phase1 \in {"Open", "PendingRemote"})
  BY <1>1 DEF Content, At
<1>2. CASE w2 = w1 + 1 /\ phase1 = "Open"
  BY <1>2 DEF Content, At
<1> QED
  BY <1>1, <1>2 DEF Grows

\* A reader that has every message of a stream has read it to its end.
LEMMA CleanReceived ==
  ASSUME NEW off \in {0, 1}, NEW end \in Nat, NEW phase, NEW k \in SessionRec, Streams(off, end, phase, k),
         CleanEnd(k), NEW u \in SessionRec, NEW w, Shape(u, w), k.acked \subseteq Received(u)
  PROVE  u.peer # 0 /\ u.next > end
<1>1. Len(k.sent) = end + 1
  BY DEF Streams, CleanEnd
<1>2. \A n \in 0..end : n \in k.acked
  BY <1>1 DEF CleanEnd, Unacked
<1>3. \A n \in 0..end : n < u.next \/ \E m \in u.buf : m.sn = n
  BY <1>2 DEF Received
<1>4. u.next \in Nat /\ \A m \in u.buf : m.sn \in Nat
  BY Constants DEF SessionRec, SeqNos
<1>5. u.peer # 0
  <2> SUFFICES ASSUME u.peer = 0 PROVE FALSE
    OBVIOUS
  <2>1. u.next = 0 /\ u.buf = {}
    BY DEF Shape
  <2> QED
    BY <1>3, <2>1
<1>6. u.next > end
  <2> SUFFICES ASSUME ~ (u.next > end) PROVE FALSE
    OBVIOUS
  <2>1. u.next \in 0..end
    BY <1>4
  <2>2. PICK m \in u.buf : m.sn = u.next
    BY <1>3, <1>4, <2>1
  <2> QED
    BY <1>4, <2>2 DEF Shape
<1> QED
  BY <1>5, <1>6

\* Session k of e continues the one e had, and agrees with its peer's.
Continues(e, k, w) ==
  /\ ~ forgot'[e] => Streams(Off(e), Off(e) + wrote'[e], k.phase, k)
  /\ Has(Peer(e)) /\ k.peer = inst[Peer(e)] /\ ~ forgot[Peer(e)] => k.acked \subseteq Received(sess[Peer(e)])
  /\ k.peer = inst[Peer(e)] /\ ~ forgot[Peer(e)] =>
       Reading(Off(Peer(e)), End(Peer(e)), sess[Peer(e)].phase, k, w)
  /\ Has(e) => /\ sess[e].next <= k.next /\ Received(sess[e]) \subseteq Received(k)
               /\ sess[e].peer \in {0, k.peer}
  /\ Grows(wrote[e], sess[e].phase, wrote'[e], k.phase) \/ ~ Has(e)
  /\ k.phase = "ClosingLocal" => Has(e) /\ wrote'[e] = wrote[e]
  /\ k.peer = sess[e].peer \/ \E p \in net : p.to = e /\ p.msg # "KeepAlive" /\ p.inst = k.peer
  /\ e = "client" => k.phase # "PendingRemote"

\* e had a session, or is the server, which learns of the conversation, or the
\* client, which opens it.
Knows(e) ==
  \/ Has(e)
  \/ e = "client" /\ shell[e].state = "none"
  \/ /\ e = "server" /\ ~ Has(e) /\ tomb[e] = -1
     /\ \E p \in net : p.to = "server" /\ p.msg # "KeepAlive"

\* The server has not spoken to a client that it learns of.
LEMMA Learns ==
  ASSUME Unopened, ~ Has("server"), tomb["server"] = -1, ~ forgot["server"],
         \E p \in net : p.to = "server" /\ p.msg # "KeepAlive"
  PROVE  /\ wrote["server"] = 0 /\ clean["client"] # inst["server"]
         /\ Has("client") => sess["client"].peer # inst["server"]
         /\ \A p \in net : ~ Of("server", p)
BY DEF Unopened

\* A step of e in the conversation of the first client.
LEMMA StoredAgreement ==
  ASSUME IInv, IInv', Base, Unbroken, Unbroken', Agreement, NEW e \in Endpoints, NEW k, NEW w,
         Knows(e), Alone(e), Leaves(e, k, w), Puts(e, k), Made(e, k, w), Continues(e, k, w)
  PROVE  Agreement'
<1> USE Constants
<1> DEFINE r == Peer(e)
<1>1. /\ r \in Endpoints /\ r # e /\ Peer(r) = e /\ Endpoints = {e, r}
      /\ (e = "client" /\ r = "server") \/ (e = "server" /\ r = "client")
  BY DEF Peer, Endpoints
<1>2. /\ inst \in [Endpoints -> Instances] /\ net \in SUBSET PacketRec /\ net' \in SUBSET PacketRec
      /\ wrote \in [Endpoints -> Nat] /\ wrote' \in [Endpoints -> Nat]
      /\ sess \in [Endpoints -> SessionRec] /\ sess' \in [Endpoints -> SessionRec]
  BY DEF IInv, Types, Sessions
<1>3. /\ sess'[r] = sess[r] /\ shell'[r] = shell[r] /\ tomb'[r] = tomb[r] /\ clean'[r] = clean[r]
      /\ wrote'[r] = wrote[r] /\ forgot'[r] = forgot[r] /\ inst' = inst /\ (forgot[e] => forgot'[e])
  BY <1>1 DEF Alone
<1>4. NoSession.phase = "None" /\ k # NoSession /\ k.phase # "None"
  BY NewTypes DEF Made
<1>5. \A x \in Endpoints : (Has(x)' <=> sess'[x] # NoSession) /\ (Has(x) <=> sess[x] # NoSession)
  BY DEF Has
<1>6. sess'[e] \in {k, NoSession} /\ (Has(e)' => sess'[e] = k /\ shell'[e].writes = w)
  BY <1>1, <1>4, <1>5 DEF Leaves
<1>7. \A x \in Endpoints : Off(x) \in {0, 1} /\ End(x) = Off(x) + wrote[x] /\ End(x) \in Nat
        /\ End(x)' = Off(x) + wrote'[x] /\ End(x)' \in Nat
  BY <1>2 DEF Off, End
<1>8. k \in SessionRec /\ k.next \in Nat /\ \A x \in Endpoints : sess[x].next \in Nat /\ inst[x] \in Nat \ {0}
  <2>1. k \in SessionRec
    BY DEF Made
  <2>2. \A u \in SessionRec : u.next \in Nat
    BY DEF SessionRec
  <2>3. \A x \in Endpoints : inst[x] \in Nat \ {0}
    BY <1>2 DEF Instances
  <2> QED
    BY <1>2, <2>1, <2>2, <2>3
<1>9. \A q \in net' : q.sn \in Nat /\ q.una \in Nat
  BY <1>2 DEF PacketRec, SeqNos
<1>10. \A x \in Endpoints : \A q : Of(x, q)' <=> Of(x, q)
  BY <1>3 DEF Of
<1>11. ASSUME ~ Has(e), ~ forgot'[e]
       PROVE  /\ clean[r] # inst[e] /\ (Has(r) => sess[r].peer # inst[e])
              /\ \A p \in net : ~ Of(e, p)
  <2>1. CASE e = "server"
    <3>1. r = "client" /\ ~ forgot["server"] /\ tomb["server"] = -1
          /\ \E p \in net : p.to = "server" /\ p.msg # "KeepAlive"
      BY <1>1, <1>3, <1>11, <2>1 DEF Knows
    <3> QED
      BY <1>11, <2>1, <3>1, Learns DEF Agreement
  <2>2. CASE e = "client"
    <3>1. clean[r] = 0 /\ ~ Has(r) /\ \A p \in net : p.msg = "KeepAlive"
      BY <1>1, <1>11, <2>2 DEF Knows, Unbroken, Base, Before
    <3> QED
      BY <1>8, <3>1 DEF Of
  <2> QED
    BY <1>1, <2>1, <2>2
<1>12. ASSUME Has(e), NEW sn \in Nat, NEW msg, Content(Off(e), End(e), sess[e].phase, sn, msg)
       PROVE  Content(Off(e), End(e)', sess'[e].phase, sn, msg)
  <2>1. Content(Off(e), Off(e) + wrote'[e], k.phase, sn, msg)
    BY <1>2, <1>7, <1>12, ContentGrows DEF Continues
  <2>2. Grows(wrote'[e], k.phase, wrote'[e], sess'[e].phase)
    BY <1>4, <1>6 DEF Grows
  <2> QED
    BY <1>2, <1>7, <2>1, <2>2, ContentGrows
<1>13. ASSUME Has(e), NEW q \in Nat, NEW mine, NEW writes, At(Off(e), End(e), sess[e].phase, q, mine, writes)
       PROVE  At(Off(e), End(e)', sess'[e].phase, q, mine, writes)
  <2>1. At(Off(e), Off(e) + wrote'[e], k.phase, q, mine, writes)
    BY <1>2, <1>7, <1>13, ContentGrows DEF Continues
  <2>2. Grows(wrote'[e], k.phase, wrote'[e], sess'[e].phase)
    BY <1>4, <1>6 DEF Grows
  <2> QED
    BY <1>2, <1>7, <2>1, <2>2, ContentGrows
<1>14. \A q \in net' : Of(r, q) => \E p \in net : SamePacket(p, q) /\ Of(r, p)
  <2> SUFFICES ASSUME NEW q \in net', Of(r, q) PROVE \E p \in net : SamePacket(p, q) /\ Of(r, p)
    OBVIOUS
  <2>1. ~ MadeOf(e, k, q)
    BY <1>1 DEF Of, MadeOf
  <2> QED
    BY <2>1 DEF Puts, SamePacket, Of
<1>15. \A q \in net' : Of(e, q) => MadeOf(e, k, q) \/ \E p \in net : SamePacket(p, q) /\ Of(e, p)
  BY DEF Puts, SamePacket, Of
<1> HIDE DEF r
<1>20. Sends(e)' /\ Sends(r)'
  <2>1. Sends(e)'
    <3> SUFFICES ASSUME Has(e)', ~ forgot'[e]
                 PROVE  Streams(Off(e), End(e)', sess'[e].phase, sess'[e])
      BY DEF Sends, Streams, Content, Off
    <3> QED
      BY <1>6, <1>7 DEF Continues
  <2>2. Sends(r)'
    <3> SUFFICES ASSUME Has(r)', ~ forgot'[r]
                 PROVE  Streams(Off(r), End(r)', sess'[r].phase, sess'[r])
      BY DEF Sends, Streams, Content, Off
    <3>1. Has(r) /\ ~ forgot[r] /\ End(r)' = End(r) /\ Sends(r)
      BY <1>1, <1>3, <1>5, <1>7 DEF Agreement, Halves
    <3> QED
      BY <1>3, <3>1 DEF Sends
  <2> QED
    BY <2>1, <2>2
<1>21. Carries(e)' /\ Carries(r)'
  <2>1. Carries(e)'
    <3> SUFFICES ASSUME ~ forgot'[e], NEW q \in net', Of(e, q), q.msg \in Messages
                 PROVE  Content(Off(e), End(e)', sess'[e].phase, q.sn, q.msg)
      BY <1>10 DEF Carries, Content, Off
    <3>1. CASE MadeOf(e, k, q)
      <4>1. q.sn \in 0..(Len(k.sent) - 1) /\ q.msg = k.sent[q.sn + 1]
        BY <3>1 DEF MadeOf, Messages
      <4>2. Content(Off(e), Off(e) + wrote'[e], k.phase, q.sn, q.msg)
        BY <4>1 DEF Continues, Streams
      <4>3. Grows(wrote'[e], k.phase, wrote'[e], sess'[e].phase)
        BY <1>4, <1>6 DEF Grows
      <4> QED
        BY <1>2, <1>7, <1>9, <4>2, <4>3, ContentGrows
    <3>2. CASE \E p \in net : SamePacket(p, q) /\ Of(e, p)
      <4>1. PICK p \in net : SamePacket(p, q) /\ Of(e, p)
        BY <3>2
      <4>2. Has(e)
        BY <1>11, <4>1
      <4>3. ~ forgot[e] /\ Carries(e) /\ p.msg = q.msg /\ p.sn = q.sn
        BY <1>1, <1>3, <4>1 DEF Agreement, Halves, SamePacket
      <4>4. Content(Off(e), End(e), sess[e].phase, q.sn, q.msg)
        BY <4>1, <4>3 DEF Carries
      <4> QED
        BY <1>9, <1>12, <4>2, <4>4
    <3> QED
      BY <1>15, <3>1, <3>2
  <2>2. Carries(r)'
    <3> SUFFICES ASSUME ~ forgot'[r], NEW q \in net', Of(r, q), q.msg \in Messages
                 PROVE  Content(Off(r), End(r)', sess'[r].phase, q.sn, q.msg)
      BY <1>10, <1>1 DEF Carries, Content, Off
    <3>1. PICK p \in net : SamePacket(p, q) /\ Of(r, p)
      BY <1>14
    <3>2. ~ forgot[r] /\ Carries(r) /\ p.msg = q.msg /\ p.sn = q.sn /\ End(r)' = End(r)
      BY <1>1, <1>3, <1>7, <3>1 DEF Agreement, Halves, SamePacket
    <3> QED
      BY <1>3, <3>1, <3>2 DEF Carries
  <2> QED
    BY <2>1, <2>2
<1>22. Answers(e)' /\ Answers(r)'
  <2>1. Answers(e)'
    <3> SUFFICES ASSUME Has(e)', ~ forgot'[e], NEW q \in net', Of(e, q)
                 PROVE  q.una <= sess'[e].next /\ (q.msg = "Ack" => q.sn \in Received(sess'[e]))
      BY <1>10 DEF Answers, Received
    <3>1. CASE MadeOf(e, k, q)
      BY <1>6, <1>8, <3>1 DEF MadeOf, Of, Messages
    <3>2. CASE \E p \in net : SamePacket(p, q) /\ Of(e, p)
      <4>1. PICK p \in net : SamePacket(p, q) /\ Of(e, p)
        BY <3>2
      <4>2. Has(e)
        BY <1>11, <4>1
      <4>3. ~ forgot[e] /\ Answers(e) /\ p.msg = q.msg /\ p.sn = q.sn /\ p.una = q.una
        BY <1>1, <1>3, <4>1 DEF Agreement, Halves, SamePacket
      <4>4. q.una <= sess[e].next /\ (q.msg = "Ack" => q.sn \in Received(sess[e]))
        BY <4>1, <4>2, <4>3 DEF Answers
      <4>5. sess[e].next <= k.next /\ Received(sess[e]) \subseteq Received(k)
        BY <4>2 DEF Continues
      <4> QED
        BY <1>6, <1>8, <1>9, <4>4, <4>5
    <3> QED
      BY <1>15, <3>1, <3>2
  <2>2. Answers(r)'
    <3> SUFFICES ASSUME Has(r)', ~ forgot'[r], NEW q \in net', Of(r, q)
                 PROVE  q.una <= sess'[r].next /\ (q.msg = "Ack" => q.sn \in Received(sess'[r]))
      BY <1>10, <1>1 DEF Answers, Received
    <3>1. PICK p \in net : SamePacket(p, q) /\ Of(r, p)
      BY <1>14
    <3>2. ~ forgot[r] /\ Has(r) /\ Answers(r) /\ p.msg = q.msg /\ p.sn = q.sn /\ p.una = q.una
      BY <1>1, <1>3, <1>5, <3>1 DEF Agreement, Halves, SamePacket
    <3> QED
      BY <1>3, <3>1, <3>2 DEF Answers
  <2> QED
    BY <2>1, <2>2
<1>23. Acked(e)' /\ Acked(r)'
  <2>1. Acked(e)'
    <3> SUFFICES ASSUME Has(e)', Has(r)', sess'[e].peer = inst'[r], ~ forgot'[r]
                 PROVE  sess'[e].acked \subseteq Received(sess'[r])
      BY DEF Acked, Received, r, Peer
    <3> QED
      BY <1>1, <1>3, <1>5, <1>6 DEF Continues, r
  <2>2. Acked(r)'
    <3> SUFFICES ASSUME Has(r)', Has(e)', sess'[r].peer = inst'[e], ~ forgot'[e]
                 PROVE  sess'[r].acked \subseteq Received(sess'[e])
      <4>1. Peer(r)' = e
        BY <1>1 DEF Peer
      <4> QED
        BY <4>1 DEF Acked, Received
    <3>1. Has(r) /\ sess[r].peer = inst[e] /\ ~ forgot[e]
      BY <1>1, <1>3, <1>5
    <3>2. Has(e)
      BY <1>11, <3>1
    <3>3. sess[r].acked \subseteq Received(sess[e])
      BY <1>1, <3>1, <3>2 DEF Agreement, Halves, Acked
    <3>4. Received(sess[e]) \subseteq Received(k)
      BY <3>2 DEF Continues
    <3> QED
      BY <1>3, <1>6, <3>3, <3>4
  <2> QED
    BY <2>1, <2>2
<1>24. Follows(e)' /\ Follows(r)'
  <2>1. Follows(e)'
    <3> SUFFICES ASSUME Has(e)', sess'[e].peer = inst'[r], ~ forgot'[r]
                 PROVE  Reading(Off(r), End(r)', sess'[r].phase, sess'[e], shell'[e].writes)
      BY DEF Follows, Reading, At, Content, Off, r, Peer
    <3>1. Reading(Off(r), End(r), sess[r].phase, k, w)
      BY <1>3, <1>6 DEF Continues, r
    <3>2. End(r)' = End(r)
      BY <1>1, <1>3, <1>7
    <3> QED
      BY <1>3, <1>6, <3>1, <3>2
  <2>2. Follows(r)'
    <3> SUFFICES ASSUME Has(r)', sess'[r].peer = inst'[e], ~ forgot'[e]
                 PROVE  Reading(Off(e), End(e)', sess'[e].phase, sess'[r], shell'[r].writes)
      <4>1. Peer(r)' = e
        BY <1>1 DEF Peer
      <4> QED
        BY <4>1 DEF Follows, Reading, At, Content, Off
    <3>1. Has(r) /\ sess[r].peer = inst[e] /\ ~ forgot[e]
      BY <1>1, <1>3, <1>5
    <3>2. Has(e)
      BY <1>11, <3>1
    <3>3. Reading(Off(e), End(e), sess[e].phase, sess[r], shell[r].writes)
      BY <1>1, <3>1 DEF Agreement, Halves, Follows
    <3>4. sess[r].next \in Nat /\ \A m \in sess[r].buf : m.sn \in Nat
      BY <1>1, <1>2 DEF SessionRec, SeqNos
    <3>5. At(Off(e), End(e)', sess'[e].phase, sess[r].next, sess[r].phase, shell[r].writes)
      BY <1>13, <3>2, <3>3, <3>4 DEF Reading
    <3>6. \A m \in sess[r].buf : Content(Off(e), End(e)', sess'[e].phase, m.sn, m.msg)
      BY <1>12, <3>2, <3>3, <3>4 DEF Reading
    <3> QED
      BY <1>3, <3>5, <3>6 DEF Reading
  <2> QED
    BY <2>1, <2>2
<1>25. Agreed(e)' /\ Agreed(r)'
  <2>1. Agreed(e)'
    <3> SUFFICES ASSUME clean'[e] # 0, clean'[e] = inst'[r], Has(r)', ~ Forgotten'
                 PROVE  /\ sess'[r].peer # 0
                        /\ sess'[r].peer = inst'[e] => sess'[r].next = End(e)' + 1
      BY DEF Agreed, r, Peer
    <3>1. ~ forgot'[e] /\ ~ forgot'[r] /\ ~ forgot[e] /\ ~ forgot[r] /\ Has(r)
      BY <1>1, <1>3, <1>5 DEF Forgotten
    <3>2. CleanEnd(k) /\ k.peer = inst[r]
      BY <1>3 DEF Leaves
    <3>3. Streams(Off(e), End(e)', k.phase, k) /\ k.acked \subseteq Received(sess[r])
      BY <1>1, <1>7, <3>1, <3>2 DEF Continues, r
    <3>4. Shape(sess[r], shell[r].writes) /\ sess[r] \in SessionRec
      BY <1>1, <1>2 DEF Base, Shapes
    <3>5. sess[r].peer # 0 /\ sess[r].next > End(e)'
      <4> DEFINE ph == k.phase
                 end == End(e)'
                 u == sess[r]
                 n == shell[r].writes
                 off == Off(e)
      <4>1. /\ off \in {0, 1} /\ end \in Nat /\ Streams(off, end, ph, k) /\ u \in SessionRec /\ Shape(u, n)
            /\ k.acked \subseteq Received(u) /\ CleanEnd(k) /\ k \in SessionRec
        BY <1>7, <1>8, <3>2, <3>3, <3>4
      <4> HIDE DEF ph, end, u, n, off
      <4>2. u.peer # 0 /\ u.next > end
        BY <4>1, CleanReceived
      <4> QED
        BY <4>2 DEF u, end
    <3>6. ASSUME sess[r].peer = inst[e] PROVE sess[r].next <= End(e)' + 1
      <4>1. Reading(Off(e), End(e), sess[e].phase, sess[r], shell[r].writes)
        BY <1>1, <3>1, <3>6 DEF Agreement, Halves, Follows
      <4>2. wrote'[e] = wrote[e]
        BY <3>2 DEF Continues, CleanEnd
      <4> QED
        BY <1>7, <4>1, <4>2 DEF Reading, At
    <3> QED
      BY <1>1, <1>3, <1>7, <1>8, <3>5, <3>6
  <2>2. Agreed(r)'
    <3> SUFFICES ASSUME clean'[r] # 0, clean'[r] = inst'[e], Has(e)', ~ Forgotten'
                 PROVE  /\ sess'[e].peer # 0
                        /\ sess'[e].peer = inst'[r] => sess'[e].next = End(r)' + 1
      <4>1. Peer(r)' = e
        BY <1>1 DEF Peer
      <4> QED
        BY <4>1 DEF Agreed
    <3>1. ~ forgot'[e] /\ ~ forgot'[r] /\ ~ forgot[e] /\ ~ forgot[r]
      BY <1>1, <1>3 DEF Forgotten
    <3>2. Has(e) /\ clean[r] # 0 /\ clean[r] = inst[e] /\ ~ Forgotten
      BY <1>1, <1>3, <1>11, <3>1 DEF Forgotten
    <3>3. sess[e].peer # 0 /\ (sess[e].peer = inst[r] => sess[e].next = End(r) + 1)
      BY <1>1, <3>2 DEF Agreement, Halves, Agreed
    <3>4. k.peer = sess[e].peer /\ sess[e].next <= k.next
      BY <3>2, <3>3 DEF Continues
    <3>5. k.peer = inst[r] => k.next <= End(r) + 1
      BY <3>1 DEF Continues, Reading, At, r
    <3>6. End(r)' = End(r) /\ inst'[r] = inst[r]
      BY <1>1, <1>3, <1>7
    <3> QED
      BY <1>1, <1>6, <1>7, <1>8, <3>3, <3>4, <3>5, <3>6
  <2> QED
    BY <2>1, <2>2
<1>26. Halves'
  BY <1>1, <1>20, <1>21, <1>22, <1>23, <1>24, <1>25 DEF Halves
<1>27. Idle'
  <2> SUFFICES ASSUME ~ Has("client")'
               PROVE  /\ tomb'["client"] # -1
                      /\ \A q \in net' : q.to = "server" /\ q.msg # "KeepAlive" =>
                           q.age >= TombTicks - tomb'["client"] - Skew
    BY DEF Idle
  <2>1. CASE e = "client"
    <3>1. tomb'["client"] = TombTicks
      BY <1>1, <1>4, <1>5, <2>1 DEF Leaves, Unbroken
    <3>2. \A q \in net' : q.age \in Int /\ q.age >= -Skew
      BY <1>2 DEF PacketRec
    <3> QED
      BY <3>1, <3>2
  <2>2. CASE e = "server"
    <3>1. r = "client" /\ ~ Has("client") /\ tomb'["client"] = tomb["client"]
      BY <1>1, <1>3, <1>5, <2>2
    <3>2. /\ tomb["client"] # -1
          /\ \A p \in net : p.to = "server" /\ p.msg # "KeepAlive" => p.age >= TombTicks - tomb["client"] - Skew
      BY <2>2, <3>1 DEF Agreement, Idle, Knows
    <3>3. ASSUME NEW q \in net', q.to = "server" PROVE \E p \in net : SamePacket(p, q)
      <4>1. ~ MadeOf(e, k, q)
        BY <2>2, <3>3 DEF MadeOf, Peer
      <4> QED
        BY <4>1 DEF Puts
    <3> QED
      BY <3>1, <3>2, <3>3 DEF SamePacket
  <2> QED
    BY <1>1, <2>1, <2>2
<1>28. Unopened'
  <2> SUFFICES ASSUME ~ Has("server")', tomb'["server"] = -1, ~ forgot'["server"]
               PROVE  /\ wrote'["server"] = 0 /\ clean'["client"] # inst'["server"]
                      /\ Has("client")' => sess'["client"].peer # inst'["server"]
                      /\ \A p \in net' : ~ Of("server", p)'
    BY DEF Unopened
  <2>1. e = "client" /\ r = "server"
    <3>1. e # "server"
      BY <1>1, <1>4, <1>5 DEF Leaves
    <3> QED
      BY <1>1, <3>1
  <2>2. ~ Has("server") /\ tomb["server"] = -1 /\ ~ forgot["server"]
    BY <1>1, <1>3, <1>5, <2>1
  <2>3. /\ wrote["server"] = 0 /\ clean["client"] # inst["server"]
        /\ sess["client"].peer # inst["server"]
        /\ \A p \in net : ~ Of("server", p)
    <3>1. CASE Has("client")
      BY <2>2, <3>1 DEF Agreement, Unopened
    <3>2. CASE ~ Has("client")
      <4>1. /\ wrote["server"] = 0 /\ clean["client"] = 0 /\ sess["client"] = NoSession
            /\ \A p \in net : p.msg = "KeepAlive"
        BY <1>1, <2>1, <3>2 DEF Knows, Unbroken, Base, Before, Has
      <4>2. NoSession.peer = 0 /\ inst["server"] # 0
        BY <1>1, <1>8, <2>1 DEF NoSession, NewSession
      <4> QED
        BY <4>1, <4>2 DEF Of
    <3> QED
      BY <3>1, <3>2
  <2>4. k.peer # inst["server"]
    <3>1. CASE k.peer = sess[e].peer
      BY <2>1, <2>3, <3>1
    <3>2. CASE \E p \in net : p.to = e /\ p.msg # "KeepAlive" /\ p.inst = k.peer
      BY <2>1, <2>3, <3>2 DEF Of, Peer
    <3> QED
      BY <3>1, <3>2 DEF Continues
  <2>5. clean'["client"] # inst["server"]
    BY <1>1, <1>8, <2>1, <2>4 DEF Leaves
  <2>6. \A q \in net' : ~ Of("server", q)
    BY <1>14, <2>1, <2>3
  <2>7. \A q \in net' : ~ Of("server", q)'
    BY <1>1, <1>10, <2>1, <2>6
  <2>8. wrote'["server"] = 0 /\ inst' = inst
    BY <1>3, <2>1, <2>3
  <2>9. Has("client")' => sess'["client"].peer # inst["server"]
    BY <1>6, <2>1, <2>4
  <2> QED
    BY <2>5, <2>7, <2>8, <2>9
<1>29. sess'["client"].phase # "PendingRemote"
  <2>1. CASE e = "client"
    BY <1>4, <1>6, <2>1 DEF Continues
  <2>2. CASE r = "client"
    BY <1>3, <2>2 DEF Agreement
  <2> QED
    BY <1>1, <2>1, <2>2
<1> QED
  BY <1>26, <1>27, <1>28, <1>29 DEF Agreement

-----------------------------------------------------------------------------
(* What the steps of one endpoint have in common. *)

\* What is sent are packets of session k, so the packets after the step are the
\* old ones and such.
LEMMA TransmitPuts ==
  ASSUME Types, NEW e \in Endpoints, NEW rest \in SUBSET net, NEW out, NEW k,
         out \in SUBSET PacketRec, \A q \in out : MadeOf(e, k, q), Transmit(e, rest, out)
  PROVE  Puts(e, k)
<1>1. PICK kept \in SUBSET out : net' = Age(e, rest \cup kept)
  BY DEF Transmit
<1> DEFINE Aged(p) == IF p.to = e /\ Closes(e) THEN [p EXCEPT !.old = TRUE] ELSE p
<1>2. net' = {Aged(p) : p \in rest \cup kept}
  BY <1>1 DEF Age
<1>3. \A p \in PacketRec : SamePacket(p, Aged(p))
  <2> SUFFICES ASSUME NEW p \in PacketRec PROVE SamePacket(p, Aged(p))
    OBVIOUS
  <2>1. SamePacket(p, p) /\ SamePacket(p, [p EXCEPT !.old = TRUE])
    BY DEF SamePacket, PacketRec
  <2> QED
    BY <2>1
<1> HIDE DEF Aged
<1>4. \A p, q : MadeOf(e, k, p) /\ SamePacket(p, q) => MadeOf(e, k, q)
  BY DEF MadeOf, SamePacket
<1>5. net \in SUBSET PacketRec
  BY DEF Types
<1> SUFFICES ASSUME NEW q \in net' PROVE (\E p \in net : SamePacket(p, q)) \/ MadeOf(e, k, q)
  BY DEF Puts
<1>6. PICK p \in rest \cup kept : q = Aged(p)
  BY <1>2
<1>7. CASE p \in rest
  BY <1>3, <1>5, <1>6, <1>7
<1>8. CASE p \in kept
  BY <1>1, <1>3, <1>4, <1>6, <1>8
<1> QED
  BY <1>6, <1>7, <1>8

\* What s has put into the stream, k has too.
Extends(s, k) ==
  /\ k.next = s.next /\ Len(s.sent) <= Len(k.sent)
  /\ \A i \in 1..Len(s.sent) : k.sent[i] = s.sent[i]

\* A flush of s makes packets of session k.
LEMMA FlushMade ==
  ASSUME Types, NEW e \in Endpoints, NEW s \in SessionRec, NEW k \in SessionRec, Extends(s, k),
         NEW q \in Flush(e, s)
  PROVE  MadeOf(e, k, q)
<1>1. PICK n \in Unacked(s) : q = Packet(e, s.sent[n + 1], n, s.next)
  BY DEF Flush
<1>2. n \in 0..(Len(s.sent) - 1) /\ s.sent[n + 1] \in Messages /\ Len(s.sent) \in Nat /\ Len(k.sent) \in Nat
  BY WaitSndType DEF SessionRec
<1> DEFINE msg == s.sent[n + 1]
           una == s.next
<1>3. q = Packet(e, msg, n, una)
  BY <1>1
<1>4. msg \in Messages /\ n \in 0..(Len(k.sent) - 1) /\ k.sent[n + 1] = msg /\ una = k.next
  <2>1. n + 1 \in 1..Len(s.sent) /\ n \in 0..(Len(k.sent) - 1)
    BY <1>2 DEF Extends
  <2> QED
    BY <1>2, <2>1 DEF Extends
<1> HIDE DEF msg, una
<1>5. /\ q.to = Peer(e) /\ q.inst = inst[e] /\ q.age = (IF e = "client" THEN -Skew ELSE Skew)
      /\ q.msg = msg /\ q.sn = n /\ q.una = una
  BY <1>3 DEF Packet
<1> QED
  BY <1>4, <1>5 DEF MadeOf

\* A Close that is queued extends the stream.
LEMMA RequeuedExtends ==
  ASSUME NEW s \in SessionRec, NEW t, Requeued(s, t) PROVE Extends(s, t)
<1>1. s.sent \in Seq(Messages) /\ Len(s.sent) \in Nat
  BY DEF SessionRec
<1>2. CASE t = s
  BY <1>1, <1>2 DEF Extends
<1>3. CASE t # s
  <2> DEFINE sent == s.sent
             more == Append(sent, "Close")
  <2>1. sent \in Seq(Messages)
    BY <1>1
  <2> HIDE DEF sent
  <2>2. Len(sent) <= Len(more) /\ \A i \in 1..Len(sent) : more[i] = sent[i]
    BY <2>1
  <2>3. t.sent = more /\ t.next = s.next
    BY <1>3 DEF Requeued, sent
  <2> HIDE DEF more
  <2> QED
    BY <2>2, <2>3 DEF Extends, sent
<1> QED
  BY <1>2, <1>3

\* finish_closed_session
LEMMA FinishLeaves ==
  ASSUME IInv, NEW e \in Endpoints, NEW s, NEW sh, NEW w, Sound(s, sh, w), Full(e, s), s.phase # "None",
         NEW tombs \in [Endpoints -> -1..TombTicks], tombs[e] = -1, clean[e] = 0,
         Finish(e, s, sh, tombs), Done(s) /\ s.phase = "PendingRemote" => forgot'[e]
  PROVE  /\ Leaves(e, s, sh.writes)
         /\ \A x \in Endpoints : x # e =>
              sess'[x] = sess[x] /\ shell'[x] = shell[x] /\ tomb'[x] = tombs[x] /\ clean'[x] = clean[x]
         /\ shell'[e].state = "none" => sh.state = "none"
<1> USE Constants
<1>1. /\ sess' = [sess EXCEPT ![e] = IF Done(s) THEN NoSession ELSE s]
      /\ shell' = [shell EXCEPT ![e] = IF Done(s) /\ s.phase = "ClosingLocal" THEN TellClose(sh) ELSE sh]
      /\ tomb' = [tombs EXCEPT ![e] = IF Done(s) /\ s.phase # "PendingRemote" THEN TombTicks ELSE @]
      /\ clean' = [clean EXCEPT ![e] =
                     IF Done(s) /\ s.phase = "ClosingLocal" /\ WaitSnd(s) = 0 /\ ~ Deadline(s)
                     THEN s.peer ELSE IF tomb'[e] = -1 THEN 0 ELSE @]
  BY DEF Finish
<1>2. /\ sess \in [Endpoints -> SessionRec] /\ shell \in [Endpoints -> ShellRec]
      /\ clean \in [Endpoints -> 0..MaxInst] /\ s \in SessionRec /\ sh \in ShellRec
  BY DEF IInv, Sessions, Types, Sound
<1>3. /\ sess'[e] = (IF Done(s) THEN NoSession ELSE s)
      /\ shell'[e] = (IF Done(s) /\ s.phase = "ClosingLocal" THEN TellClose(sh) ELSE sh)
      /\ tomb'[e] = (IF Done(s) /\ s.phase # "PendingRemote" THEN TombTicks ELSE -1)
      /\ clean'[e] = (IF Done(s) /\ s.phase = "ClosingLocal" /\ WaitSnd(s) = 0 /\ ~ Deadline(s)
                      THEN s.peer ELSE 0)
  BY <1>1, <1>2
<1>4. \A x \in Endpoints : x # e =>
        sess'[x] = sess[x] /\ shell'[x] = shell[x] /\ tomb'[x] = tombs[x] /\ clean'[x] = clean[x]
  BY <1>1, <1>2
<1>5. TellClose(sh).state = "closed"
  BY <1>2 DEF TellClose, ShellRec
<1>6. ASSUME s.phase = "ClosingLocal", WaitSnd(s) = 0, ~ Deadline(s) PROVE CleanEnd(s)
  <2>1. s.queued
    BY <1>6 DEF Full
  <2>2. IsFiniteSet(Unacked(s))
    <3>1. 0 \in Int /\ Len(s.sent) - 1 \in Int
      BY <1>2 DEF SessionRec
    <3>2. IsFiniteSet(0..(Len(s.sent) - 1)) /\ Unacked(s) \subseteq 0..(Len(s.sent) - 1)
      BY <3>1, FS_Interval DEF Unacked
    <3> QED
      BY <3>2, FS_Subset
  <2>3. Unacked(s) = {}
    BY <1>6, <2>2, FS_EmptySet DEF WaitSnd
  <2> QED
    BY <1>6, <2>1, <2>3 DEF CleanEnd
<1>7. Leaves(e, s, sh.writes)
  <2>1. CASE ~ Done(s)
    BY <1>3, <2>1 DEF Leaves
  <2>2. CASE Done(s) /\ s.phase = "PendingRemote"
    BY <1>3, <2>2 DEF Leaves
  <2>3. CASE Done(s) /\ s.phase # "PendingRemote"
    BY <1>3, <1>6, <2>3 DEF Leaves
  <2> QED
    BY <2>1, <2>2, <2>3
<1> QED
  BY <1>3, <1>4, <1>5, <1>7

\* A conversation somebody has a session or a packet of was opened.
LEMMA Began ==
  ASSUME Base, NEW e \in Endpoints, Alone(e), Has(e) \/ \E p \in net : p.msg # "KeepAlive"
  PROVE  inst["client"] = 1 => shell'["client"].state # "none"
BY DEF Base, Before, Alone, Endpoints

\* A step that leaves e's session as it was leaves it sound in the eyes of its peer.
LEMMA KeptContinues ==
  ASSUME IInv, Base, NEW e \in Endpoints, Has(e), NEW k, Requeued(sess[e], k), k \in SessionRec
  PROVE  /\ Made(e, k, shell[e].writes)
         /\ Unbroken /\ Agreement /\ wrote'[e] = wrote[e] /\ (forgot[e] => forgot'[e]) =>
              Continues(e, k, shell[e].writes)
<1> DEFINE s == sess[e]
           w == shell[e].writes
           r == Peer(e)
<1>1. s \in SessionRec /\ s.phase # "None" /\ Shape(s, w) /\ s.peer <= inst[r]
  BY DEF IInv, Sessions, Sound, Has, Base, Shapes, Lives
<1>2. /\ k.phase = s.phase /\ k.peer = s.peer /\ k.acked = s.acked /\ k.buf = s.buf /\ k.next = s.next
      /\ k = s \/ (k.phase = "ClosingLocal" /\ k.sent = Append(s.sent, "Close"))
  BY DEF Requeued
<1>3. /\ e = "client" => (inst["client"] # 1 => s.phase = "PendingRemote") /\ \A m \in s.buf : m.msg # "Open"
      /\ e = "server" => /\ s.buf # {} \/ s.phase \in LivePhases => s.peer = 1
                         /\ \A i \in 1..Len(s.sent) : s.sent[i] # "Open"
  BY <1>1 DEF Base, FirstClient, NoOpen
<1>4. \A i \in 1..Len(k.sent) : k.sent[i] = "Close" \/ (i \in 1..Len(s.sent) /\ k.sent[i] = s.sent[i])
  <2>1. CASE k = s
    BY <2>1
  <2>2. CASE k.sent = Append(s.sent, "Close")
    <3> DEFINE sent == s.sent
               more == Append(sent, "Close")
    <3>1. sent \in Seq(Messages)
      BY <1>1 DEF SessionRec
    <3> HIDE DEF sent
    <3>2. \A i \in 1..Len(more) : more[i] = "Close" \/ (i \in 1..Len(sent) /\ more[i] = sent[i])
      BY <3>1
    <3>3. k.sent = more
      BY <2>2 DEF sent
    <3> HIDE DEF more
    <3> QED
      BY <3>2, <3>3 DEF sent
  <2> QED
    BY <1>2, <2>1, <2>2
<1> HIDE DEF s, w, r
<1>5. Shape(k, w)
  BY <1>1, <1>2 DEF Shape
<1>6. Made(e, k, w)
  BY <1>1, <1>2, <1>3, <1>4, <1>5 DEF Made, r
<1>7. ASSUME Unbroken, Agreement, wrote'[e] = wrote[e], forgot[e] => forgot'[e]
      PROVE  Continues(e, k, w)
  <2>1. ~ forgot'[e] => Streams(Off(e), Off(e) + wrote'[e], k.phase, k)
    <3> SUFFICES ASSUME ~ forgot'[e] PROVE Streams(Off(e), Off(e) + wrote'[e], k.phase, k)
      OBVIOUS
    <3>1. Streams(Off(e), End(e), s.phase, s)
      BY <1>7 DEF Agreement, Halves, Sends, s
    <3>2. Off(e) \in {0, 1} /\ End(e) \in Nat /\ End(e) = Off(e) + wrote'[e]
      BY <1>7 DEF Off, End, IInv, Types
    <3> DEFINE off == Off(e)
               end == End(e)
    <3> HIDE DEF off, end
    <3>3. Streams(off, end, s.phase, k)
      <4>1. off \in {0, 1} /\ end \in Nat /\ Streams(off, end, s.phase, s) /\ Requeued(s, k)
        BY <3>1, <3>2 DEF off, end, s
      <4> QED
        BY <1>1, <4>1, RequeuedStreams
    <3> QED
      BY <1>2, <3>2, <3>3 DEF off, end
  <2>2. /\ Has(Peer(e)) /\ k.peer = inst[Peer(e)] /\ ~ forgot[Peer(e)] => k.acked \subseteq Received(sess[Peer(e)])
        /\ k.peer = inst[Peer(e)] /\ ~ forgot[Peer(e)] =>
             Reading(Off(Peer(e)), End(Peer(e)), sess[Peer(e)].phase, k, w)
    <3>1. Acked(e) /\ Follows(e)
      BY <1>7 DEF Agreement, Halves
    <3> QED
      BY <1>2, <3>1 DEF Acked, Follows, Reading, s, w
  <2>3. sess[e].next <= k.next /\ Received(sess[e]) \subseteq Received(k) /\ sess[e].peer \in {0, k.peer}
    <3>1. s.next \in Nat
      BY <1>1, Constants DEF SessionRec
    <3> QED
      BY <1>2, <3>1 DEF Received, s
  <2>4. Grows(wrote[e], sess[e].phase, wrote'[e], k.phase)
    BY <1>2, <1>7 DEF Grows, s
  <2>5. e = "client" => k.phase # "PendingRemote"
    BY <1>2, <1>7 DEF Agreement, s
  <2> QED
    BY <1>2, <1>7, <2>1, <2>2, <2>3, <2>4, <2>5 DEF Continues, s
<1> QED
  BY <1>6, <1>7 DEF w

-----------------------------------------------------------------------------
(* The steps of one endpoint. *)

\* What every step keeps: the base, and the agreement while nobody broke it.
Kept == Base' /\ (Unbroken' => Unbroken) /\ (Unbroken /\ Unbroken' /\ Agreement => Agreement')

\* A step of e in which its session became k.
LEMMA StepKept ==
  ASSUME IInv, IInv', Base, NEW e \in Endpoints, NEW k, NEW w,
         inst["client"] = 1 => shell'["client"].state # "none", Unbroken /\ Agreement => Knows(e),
         Alone(e), Leaves(e, k, w), Puts(e, k), Made(e, k, w),
         Unbroken /\ Unbroken' /\ Agreement => Continues(e, k, w)
  PROVE  Kept
<1>1. Base'
  BY StoredBase
<1>2. Unbroken' => Unbroken
  BY DEF Unbroken, Alone, Endpoints
<1>3. ASSUME Unbroken, Unbroken', Agreement PROVE Agreement'
  BY <1>3, StoredAgreement
<1> QED
  BY <1>1, <1>2, <1>3 DEF Kept

\* SessionOpen
LEMMA OpenKept == ASSUME IInv, IInv', Base, SessionOpen PROVE Kept
<1> USE Constants
<1> DEFINE e == "client"
           n == NewSession("Open")
           k == KcpSend(n, "Open")
<1>1. e \in Endpoints /\ inst[e] = 1 /\ shell[e].state = "none"
  BY DEF SessionOpen, Endpoints
<1>2. /\ ~ Has(e) /\ tomb[e] = -1 /\ clean[e] = 0 /\ wrote[e] = 0 /\ ~ Has("server")
      /\ sess[e] = NoSession
  BY <1>1 DEF Base, Before, Endpoints, Has
<1>3. /\ n \in SessionRec /\ n.phase = "Open" /\ n.peer = 0 /\ n.sent = <<>> /\ n.acked = {} /\ n.buf = {}
      /\ n.next = 0 /\ n.queued = FALSE
  BY NewTypes DEF NewSession
<1> HIDE DEF n
<1>4. /\ k \in SessionRec /\ k.phase = "Open" /\ k.peer = 0 /\ k.sent = <<"Open">> /\ k.acked = {}
      /\ k.buf = {} /\ k.next = 0 /\ k.queued = FALSE
  <2>1. <<"Open">> \in Seq(Messages)
    BY DEF Messages
  <2>2. k = [n EXCEPT !.sent = <<"Open">>]
    <3>1. Append(<<>>, "Open") = <<"Open">>
      OBVIOUS
    <3> QED
      BY <1>3, <3>1 DEF KcpSend
  <2> DEFINE one == <<"Open">>
  <2> HIDE DEF one, k
  <2>3. /\ k \in SessionRec /\ k.phase = n.phase /\ k.peer = n.peer /\ k.sent = one /\ k.acked = n.acked
        /\ k.buf = n.buf /\ k.next = n.next /\ k.queued = n.queued
    BY <1>3, <2>1, <2>2 DEF SessionRec, one
  <2> QED
    BY <1>3, <2>3 DEF one
<1>5. /\ sess' = [sess EXCEPT ![e] = k] /\ Transmit(e, net, Flush(e, k))
      /\ shell' = [shell EXCEPT ![e] = TellOpen(@)]
      /\ UNCHANGED <<inst, tomb, win, clean, wrote, forgot>>
  BY DEF SessionOpen, n
<1>6. Types /\ sess \in [Endpoints -> SessionRec] /\ shell \in [Endpoints -> ShellRec]
  BY DEF IInv, Sessions
<1> HIDE DEF e, k
<1>7. shell'[e].writes = 0 /\ shell'[e].state = "open" /\ sess'[e] = k
  <2>1. TellOpen(shell[e]).writes = 0 /\ TellOpen(shell[e]).state = "open"
    BY <1>1, <1>6 DEF TellOpen, ShellRec
  <2> QED
    BY <1>1, <1>5, <1>6, <2>1
<1>8. Alone(e)
  BY <1>1, <1>5, <1>6, <1>7 DEF Alone, Base
<1>9. Leaves(e, k, 0)
  BY <1>2, <1>5, <1>7 DEF Leaves
<1>10. Puts(e, k)
  <2>1. Extends(k, k)
    BY <1>4 DEF Extends
  <2>2. \A q \in Flush(e, k) : MadeOf(e, k, q)
    BY <1>1, <1>4, <1>6, <2>1, FlushMade
  <2>3. Flush(e, k) \in SUBSET PacketRec
    <3>1. Sound(k, shell'[e], 0)
      <4>1. Len(k.sent) = 1 /\ shell'[e] \in ShellRec /\ ~ shell'[e].late
        BY <1>1, <1>4 DEF IInv, Sessions, Sound
      <4> QED
        BY <1>4, <1>7, <4>1 DEF Sound
    <3>2. 0 \in 0..MaxData
      OBVIOUS
    <3> QED
      BY <1>1, <1>6, <3>1, <3>2, FlushType DEF Fresh
  <2>4. net \in SUBSET net
    OBVIOUS
  <2> QED
    BY <1>1, <1>5, <1>6, <2>2, <2>3, <2>4, TransmitPuts
<1>11. Made(e, k, 0)
  <2>1. Shape(k, 0)
    BY <1>4 DEF Shape
  <2>2. inst["server"] \in Nat /\ Peer(e) = "server"
    BY <1>6 DEF Types, Instances, Endpoints, Peer, e
  <2> QED
    BY <1>1, <1>4, <2>1, <2>2 DEF Made, e
<1>12. Continues(e, k, 0)
  <2>1. Streams(Off(e), Off(e) + wrote'[e], k.phase, k)
    <3>1. Off(e) = 1 /\ wrote'[e] = 0 /\ Len(k.sent) = 1 /\ k.sent[1] = "Open"
      BY <1>2, <1>4, <1>5 DEF Off, e
    <3>2. \A j \in 0..(Len(k.sent) - 1) : j = 0
      BY <3>1
    <3>3. Content(1, 1, k.phase, 0, "Open")
      BY DEF Content
    <3> QED
      BY <1>4, <3>1, <3>2, <3>3 DEF Streams
  <2>2. Peer(e) = "server" /\ inst["server"] # 0 /\ NoSession.peer = 0
    BY <1>6 DEF Types, Instances, Endpoints, Peer, e, NoSession, NewSession
  <2> QED
    BY <1>2, <1>4, <2>1, <2>2 DEF Continues
<1>13. shell'["client"].state # "none" /\ Knows(e)
  BY <1>1, <1>7 DEF Knows, e
<1> QED
  BY <1>1, <1>8, <1>9, <1>10, <1>11, <1>12, <1>13, StepKept

\* SessionWrite
LEMMA WriteKept == ASSUME IInv, IInv', Base, NEW e \in Endpoints, SessionWrite(e) PROVE Kept
<1> USE Constants
<1> DEFINE s == sess[e]
           k == KcpSend(s, "Data")
           w == shell[e].writes
<1>1. /\ Has(e) /\ s.phase = "Open" /\ wrote' = [wrote EXCEPT ![e] = @ + 1]
      /\ sess' = [sess EXCEPT ![e] = k] /\ Transmit(e, net, Flush(e, k))
      /\ UNCHANGED <<inst, tomb, win, shell, clean, forgot>>
  BY DEF SessionWrite
<1>2. /\ Types /\ sess \in [Endpoints -> SessionRec] /\ shell \in [Endpoints -> ShellRec]
      /\ s \in SessionRec /\ wrote \in [Endpoints -> Nat] /\ wrote' \in [Endpoints -> Nat]
      /\ s.sent \in Seq(Messages) /\ s.next \in Nat
  <2>1. Types /\ wrote' \in [Endpoints -> Nat] /\ sess \in [Endpoints -> SessionRec] /\ shell \in [Endpoints -> ShellRec]
    BY DEF IInv, Types, Sessions
  <2>2. s \in SessionRec
    BY <2>1
  <2>3. wrote \in [Endpoints -> Nat]
    BY <2>1 DEF Types
  <2> HIDE DEF s
  <2>4. s.sent \in Seq(Messages) /\ s.next \in Nat
    BY <2>2 DEF SessionRec
  <2> QED
    BY <2>1, <2>2, <2>3, <2>4
<1>3. tomb[e] = -1 /\ clean[e] = 0 /\ Shape(s, w) /\ s.peer <= inst[Peer(e)] /\ ~ s.queued
  BY <1>1 DEF Base, Tombs, Shapes, Shape, Lives
<1> HIDE DEF s
<1> DEFINE sent == s.sent
           more == Append(sent, "Data")
<1>4. /\ k.phase = "Open" /\ k.peer = s.peer /\ k.sent = more /\ k.acked = s.acked
      /\ k.buf = s.buf /\ k.next = s.next /\ k.queued = s.queued /\ k \in SessionRec
  <2>1. k = [s EXCEPT !.sent = more]
    BY DEF KcpSend
  <2>2. more \in Seq(Messages)
    BY <1>2 DEF Messages
  <2> HIDE DEF more, k
  <2> QED
    BY <1>1, <1>2, <2>1, <2>2 DEF SessionRec
<1>5. /\ Len(more) = Len(sent) + 1 /\ Len(sent) \in Nat
      /\ \A i \in 1..Len(more) : (i = Len(more) /\ more[i] = "Data") \/ (i \in 1..Len(sent) /\ more[i] = sent[i])
  <2>1. sent \in Seq(Messages)
    BY <1>2
  <2> HIDE DEF sent
  <2> QED
    BY <2>1
<1>6. sess'[e] = k /\ wrote'[e] = wrote[e] + 1 /\ shell'[e].writes = w
  BY <1>1, <1>2
<1> HIDE DEF k, w, more
<1>7. Alone(e)
  BY <1>1, <1>2 DEF Alone, Base
<1>8. Leaves(e, k, w)
  BY <1>1, <1>3, <1>6 DEF Leaves
<1>9. Puts(e, k)
  <2>1. Extends(k, k)
    BY <1>4, <1>5 DEF Extends
  <2>2. \A q \in Flush(e, k) : MadeOf(e, k, q)
    BY <1>2, <1>4, <2>1, FlushMade
  <2>3. Flush(e, k) \in SUBSET PacketRec
    <3>1. Sound(k, shell'[e], wrote'[e]) /\ wrote'[e] \in 0..MaxData
      <4>1. wrote'["client"] + wrote'["server"] <= MaxData
        BY DEF IInv, Types
      <4>2. wrote'[e] \in 0..MaxData
        BY <1>2, <4>1 DEF Endpoints
      <4> QED
        BY <1>6, <4>2 DEF IInv, Sessions, Sound
    <3> QED
      BY <1>2, <3>1, FlushType DEF Fresh
  <2>4. net \in SUBSET net
    OBVIOUS
  <2> QED
    BY <1>1, <1>2, <2>2, <2>3, <2>4, TransmitPuts
<1>10. Made(e, k, w)
  <2>1. Shape(k, w)
    BY <1>1, <1>3, <1>4 DEF Shape
  <2>2. e = "client" => inst["client"] = 1 /\ \A m \in k.buf : m.msg # "Open"
    BY <1>1, <1>4 DEF Base, FirstClient, NoOpen, s
  <2>3. e = "server" => (k.peer = 1 /\ \A i \in 1..Len(k.sent) : k.sent[i] # "Open")
    BY <1>1, <1>4, <1>5 DEF Base, FirstClient, NoOpen, s, LivePhases
  <2> QED
    BY <1>3, <1>4, <2>1, <2>2, <2>3 DEF Made
<1>11. ASSUME Unbroken, Agreement PROVE Continues(e, k, w)
  <2>0. Sends(e) /\ Acked(e) /\ Follows(e)
    BY <1>11 DEF Agreement, Halves
  <2>1. ~ forgot'[e] => Streams(Off(e), Off(e) + wrote'[e], k.phase, k)
    <3> SUFFICES ASSUME ~ forgot[e] PROVE Streams(Off(e), Off(e) + wrote'[e], k.phase, k)
      BY <1>1
    <3> DEFINE off == Off(e)
               end == End(e)
    <3>1. Streams(off, end, "Open", s)
      BY <1>1, <2>0 DEF Sends, s
    <3>2. off \in {0, 1} /\ end \in Nat /\ Off(e) + wrote'[e] = end + 1 /\ end >= off
      BY <1>2, <1>6 DEF Off, End
    <3> HIDE DEF off, end
    <3>3. Len(sent) = end /\ \A n \in 0..(Len(sent) - 1) : Content(off, end, "Open", n, sent[n + 1])
      BY <1>3, <3>1, <3>2 DEF Streams
    <3>4. \A n \in 0..(Len(more) - 1) : Content(off, end + 1, "Open", n, more[n + 1])
      <4> SUFFICES ASSUME NEW n \in 0..end PROVE Content(off, end + 1, "Open", n, more[n + 1])
        BY <1>5, <3>2, <3>3
      <4>1. CASE n = end
        <5>1. more[n + 1] = "Data"
          BY <1>5, <3>2, <3>3, <4>1
        <5> QED
          BY <3>2, <4>1, <5>1 DEF Content
      <4>2. CASE n # end
        <5>1. n \in 0..(Len(sent) - 1) /\ n + 1 \in 1..Len(more) /\ n + 1 # Len(more)
          BY <1>5, <3>2, <3>3, <4>2
        <5>2. more[n + 1] = sent[n + 1]
          BY <1>5, <5>1
        <5> QED
          BY <3>2, <3>3, <5>1, <5>2 DEF Content
      <4> QED
        BY <4>1, <4>2
    <3> QED
      BY <1>3, <1>4, <1>5, <3>2, <3>3, <3>4 DEF Streams, off
  <2>2. /\ Has(Peer(e)) /\ k.peer = inst[Peer(e)] /\ ~ forgot[Peer(e)] => k.acked \subseteq Received(sess[Peer(e)])
        /\ k.peer = inst[Peer(e)] /\ ~ forgot[Peer(e)] =>
             Reading(Off(Peer(e)), End(Peer(e)), sess[Peer(e)].phase, k, w)
    BY <1>1, <1>4, <2>0 DEF Acked, Follows, Reading, s, w
  <2>3. sess[e].next <= k.next /\ Received(sess[e]) \subseteq Received(k) /\ sess[e].peer \in {0, k.peer}
    BY <1>2, <1>4 DEF Received, s
  <2>4. Grows(wrote[e], sess[e].phase, wrote'[e], k.phase)
    BY <1>1, <1>4, <1>6 DEF Grows, s
  <2> QED
    BY <1>1, <1>4, <2>1, <2>2, <2>3, <2>4 DEF Continues, s
<1> QED
  BY <1>1, <1>7, <1>8, <1>9, <1>10, <1>11, Began, StepKept DEF Knows

\* SessionClose
LEMMA CloseKept == ASSUME IInv, IInv', Base, NEW e \in Endpoints, SessionClose(e) PROVE Kept
<1> USE Constants
<1> DEFINE s == sess[e]
           c == [s EXCEPT !.phase = "ClosingLocal", !.timer = CloseTicks]
           k == QueueLocalClose(e, c)
           w == shell[e].writes
           out == IF k.queued THEN Flush(e, k) ELSE {}
<1>1. /\ Has(e) /\ s.phase = "Open"
      /\ sess' = [sess EXCEPT ![e] = k] /\ Transmit(e, net, out)
      /\ UNCHANGED <<inst, tomb, win, shell, clean, wrote, forgot>>
  BY DEF SessionClose
<1>2. Types /\ sess \in [Endpoints -> SessionRec] /\ shell \in [Endpoints -> ShellRec] /\ s \in SessionRec
  BY DEF IInv, Sessions
<1>3. tomb[e] = -1 /\ clean[e] = 0 /\ Shape(s, w) /\ s.peer <= inst[Peer(e)] /\ ~ s.queued
  BY <1>1 DEF Base, Tombs, Shapes, Shape, Lives
<1> HIDE DEF s
<1>4. /\ c.phase = "ClosingLocal" /\ c.peer = s.peer /\ c.sent = s.sent /\ c.acked = s.acked
      /\ c.buf = s.buf /\ c.next = s.next /\ c.queued = s.queued /\ c \in SessionRec
  <2>1. "ClosingLocal" \in AllPhases /\ CloseTicks \in -1..CloseTicks
    BY DEF AllPhases, Phases
  <2> QED
    BY ONLY <1>2, <2>1 DEF SessionRec
<1>5. sess'[e] = k /\ wrote'[e] = wrote[e] /\ shell'[e].writes = w
  BY <1>1, <1>2
<1> HIDE DEF c
<1>6. Requeued(c, k) /\ k \in SessionRec
  <2>1. k \in SessionRec
    BY <1>5 DEF IInv, Sessions
  <2> QED
    BY <1>4, <2>1, QueueRequeued
<1> HIDE DEF k
<1>7. /\ k.phase = "ClosingLocal" /\ k.peer = s.peer /\ k.acked = s.acked /\ k.buf = s.buf /\ k.next = s.next
      /\ k.sent \in {s.sent, Append(s.sent, "Close")}
  BY <1>4, <1>6 DEF Requeued
<1> HIDE DEF w
<1>8. Alone(e)
  BY <1>1, <1>2 DEF Alone, Base
<1>9. Leaves(e, k, w)
  BY <1>1, <1>3, <1>5 DEF Leaves
<1>10. Puts(e, k)
  <2>1. Extends(k, k)
    <3>1. Len(k.sent) \in Nat
      BY <1>6 DEF SessionRec
    <3> QED
      BY <3>1 DEF Extends
  <2>2. \A q \in out : MadeOf(e, k, q)
    BY <1>2, <1>6, <2>1, FlushMade
  <2>3. Flush(e, k) \in SUBSET PacketRec
    <3>1. Sound(k, shell'[e], wrote'[e]) /\ wrote'[e] \in 0..MaxData
      <4>1. wrote[e] \in 0..MaxData
        BY <1>2, WroteType DEF Types
      <4> QED
        BY <1>5, <4>1 DEF IInv, Sessions
    <3> QED
      BY <1>2, <3>1, FlushType DEF Fresh
  <2>4. net \in SUBSET net /\ out \in SUBSET PacketRec
    BY <2>3
  <2> HIDE DEF out
  <2> QED
    BY <1>1, <1>2, <2>2, <2>4, TransmitPuts
<1>11. Made(e, k, w)
  <2>1. Shape(k, w)
    BY <1>1, <1>3, <1>7 DEF Shape
  <2>2. e = "client" => inst["client"] = 1 /\ \A m \in k.buf : m.msg # "Open"
    BY <1>1, <1>7 DEF Base, FirstClient, NoOpen, s
  <2>3. e = "server" => (k.peer = 1 /\ \A i \in 1..Len(k.sent) : k.sent[i] # "Open")
    <3> SUFFICES ASSUME e = "server" PROVE k.peer = 1 /\ \A i \in 1..Len(k.sent) : k.sent[i] # "Open"
      OBVIOUS
    <3> DEFINE sent == s.sent
               more == Append(sent, "Close")
    <3>1. s.peer = 1 /\ \A i \in 1..Len(sent) : sent[i] # "Open"
      BY <1>1 DEF Base, FirstClient, NoOpen, s, LivePhases
    <3>2. sent \in Seq(Messages)
      BY <1>2 DEF SessionRec
    <3>3. k.sent \in {sent, more}
      BY <1>7
    <3> HIDE DEF sent
    <3>4. \A i \in 1..Len(more) : more[i] # "Open"
      BY <3>1, <3>2
    <3> HIDE DEF more
    <3> QED
      BY <1>7, <3>1, <3>3, <3>4
  <2> QED
    BY <1>3, <1>6, <1>7, <2>1, <2>2, <2>3 DEF Made
<1>12. ASSUME Unbroken, Agreement PROVE Continues(e, k, w)
  <2>0. Sends(e) /\ Acked(e) /\ Follows(e)
    BY <1>12 DEF Agreement, Halves
  <2>1. ~ forgot'[e] => Streams(Off(e), Off(e) + wrote'[e], k.phase, k)
    <3> SUFFICES ASSUME ~ forgot[e] PROVE Streams(Off(e), Off(e) + wrote'[e], k.phase, k)
      BY <1>1
    <3> DEFINE off == Off(e)
               end == End(e)
    <3>1. Streams(off, end, "Open", s)
      BY <1>1, <2>0 DEF Sends, s
    <3>2. off \in {0, 1} /\ end \in Nat /\ Off(e) + wrote'[e] = end
      BY <1>2, <1>5 DEF Off, End, Types
    <3> HIDE DEF off, end
    <3>3. Streams(off, end, c.phase, c)
      BY <1>4, <3>1, <3>2 DEF Streams, Content
    <3>4. Streams(off, end, c.phase, k)
      BY <1>4, <1>6, <3>2, <3>3, RequeuedStreams
    <3> QED
      BY <1>4, <1>7, <3>2, <3>4 DEF off
  <2>2. /\ Has(Peer(e)) /\ k.peer = inst[Peer(e)] /\ ~ forgot[Peer(e)] => k.acked \subseteq Received(sess[Peer(e)])
        /\ k.peer = inst[Peer(e)] /\ ~ forgot[Peer(e)] =>
             Reading(Off(Peer(e)), End(Peer(e)), sess[Peer(e)].phase, k, w)
    BY <1>1, <1>7, <2>0 DEF Acked, Follows, Reading, At, LivePhases, s, w
  <2>3. sess[e].next <= k.next /\ Received(sess[e]) \subseteq Received(k) /\ sess[e].peer \in {0, k.peer}
    <3>1. s.next \in Nat
      BY <1>2 DEF SessionRec
    <3> QED
      BY <1>7, <3>1 DEF Received, s
  <2>4. Grows(wrote[e], sess[e].phase, wrote'[e], k.phase)
    BY <1>5, <1>7 DEF Grows
  <2> QED
    BY <1>1, <1>5, <1>7, <2>1, <2>2, <2>3, <2>4 DEF Continues, s
<1> QED
  BY <1>1, <1>8, <1>9, <1>10, <1>11, <1>12, Began, StepKept DEF Knows

\* The tombstone of e expires, if anything happens: what e knows and what is said
\* of the conversation stays.
Quiet(e) ==
  /\ UNCHANGED <<inst, sess, shell, wrote>>
  /\ forgot' \in [Endpoints -> BOOLEAN]
  /\ \A x \in Endpoints : x # e => tomb'[x] = tomb[x] /\ clean'[x] = clean[x] /\ forgot'[x] = forgot[x]
  /\ \/ tomb'[e] = tomb[e] /\ clean'[e] = clean[e] /\ forgot'[e] = forgot[e]
     \/ /\ tomb[e] = 0 /\ tomb'[e] = -1 /\ clean'[e] = 0
        /\ forgot[e] \/ LivesOn(e) => forgot'[e]
  /\ \A q \in net' :
       \/ \E p \in net : SamePacket(p, q)
       \/ q.msg = "KeepAlive" /\ q.to = Peer(e) /\ q.inst = inst[e] /\ (e = "client" => q.age = -Skew)

\* Such a step keeps what is known.
LEMMA QuietKept ==
  ASSUME MaxPast + Skew < TombTicks, IInv, IInv', Base, NEW e \in Endpoints, Quiet(e)
  PROVE  Kept
<1> USE Constants
<1> DEFINE r == Peer(e)
<1>1. /\ r \in Endpoints /\ r # e /\ Peer(r) = e /\ Endpoints = {e, r}
      /\ (e = "client" /\ r = "server") \/ (e = "server" /\ r = "client")
  BY DEF Peer, Endpoints
<1>2. inst' = inst /\ sess' = sess /\ shell' = shell /\ wrote' = wrote
  BY DEF Quiet
<1>3. /\ inst \in [Endpoints -> Instances] /\ clean \in [Endpoints -> 0..MaxInst] /\ net' \in SUBSET PacketRec
      /\ net \in SUBSET PacketRec
  BY DEF IInv, Types
<1>4. \A x \in Endpoints : inst[x] \in Nat \ {0} /\ clean'[x] \in {0, clean[x]} /\ (forgot[x] => forgot'[x])
                           /\ (tomb'[x] # tomb[x] => x = e /\ tomb[x] = 0 /\ tomb'[x] = -1)
  BY <1>1, <1>3 DEF Quiet, Instances
<1>5. \A q \in net' : q.msg # "KeepAlive" => \E p \in net : SamePacket(p, q)
  BY DEF Quiet
<1> HIDE DEF r
<1>6. Base'
  <2>1. Shapes'
    BY <1>2 DEF Base, Shapes, Shape
  <2>2. Lives'
    <3>1. \A q \in net' : q.inst <= inst[Peer(q.to)]
      <4> SUFFICES ASSUME NEW q \in net' PROVE q.inst <= inst[Peer(q.to)]
        OBVIOUS
      <4>1. CASE \E p \in net : SamePacket(p, q)
        BY <4>1 DEF SamePacket, Base, Lives
      <4>2. CASE q.to = r /\ q.inst = inst[e]
        BY <1>1, <1>4, <4>2
      <4> QED
        BY <4>1, <4>2 DEF Quiet, r
    <3>2. \A x \in Endpoints : clean'[x] <= inst[Peer(x)]
      <4> SUFFICES ASSUME NEW x \in Endpoints PROVE clean'[x] <= inst[Peer(x)]
        OBVIOUS
      <4>1. Peer(x) \in Endpoints /\ clean[x] <= inst[Peer(x)]
        BY PeerType DEF Base, Lives
      <4> QED
        BY <1>4, <4>1
    <3> QED
      BY <1>2, <3>1, <3>2 DEF Base, Lives
  <2>3. Tombs'
    <3> SUFFICES ASSUME NEW x \in Endpoints
                 PROVE  (clean'[x] # 0 => tomb'[x] # -1) /\ (Has(x)' => tomb'[x] = -1)
      BY DEF Tombs
    <3>1. (clean[x] # 0 => tomb[x] # -1) /\ (Has(x) => tomb[x] = -1) /\ (Has(x)' <=> Has(x))
      BY <1>2 DEF Base, Tombs, Has
    <3>2. x = e \/ (tomb'[x] = tomb[x] /\ clean'[x] = clean[x])
      BY DEF Quiet
    <3> QED
      BY <3>1, <3>2 DEF Quiet
  <2>4. FirstClient'
    <3>1. \A q \in net' : q.to = "server" /\ q.msg \in Messages => q.inst = 1
      BY <1>5 DEF Base, FirstClient, SamePacket, Messages
    <3>2. clean'["client"] \in {0, clean["client"]} /\ clean'["server"] \in {0, clean["server"]}
      BY <1>4 DEF Endpoints
    <3> QED
      BY <1>2, <3>1, <3>2 DEF Base, FirstClient
  <2>5. NoOpen'
    <3>1. \A q \in net' : q.to = "client" => q.msg # "Open"
      BY <1>5 DEF Base, NoOpen, SamePacket
    <3> QED
      BY <1>2, <3>1 DEF Base, NoOpen
  <2>6. Young'
    <3> SUFFICES ASSUME NEW q \in net', q.to = "server" PROVE q.age <= MaxPast
      BY DEF Young
    <3>1. CASE \E p \in net : SamePacket(p, q)
      BY <3>1 DEF SamePacket, Base, Young
    <3>2. CASE q.to = r /\ (e = "client" => q.age = -Skew)
      <4>1. q.age = -Skew
        BY <1>1, <3>2
      <4> QED
        BY <4>1
    <3> QED
      BY <3>1, <3>2 DEF Quiet, r
  <2>7. Before'
    <3> SUFFICES ASSUME inst["client"] = 1, shell["client"].state = "none"
                 PROVE  /\ \A x \in Endpoints : ~ Has(x)' /\ tomb'[x] = -1 /\ clean'[x] = 0 /\ wrote'[x] = 0 /\ ~ forgot'[x]
                        /\ \A q \in net' : q.msg = "KeepAlive"
      BY <1>2 DEF Before
    <3>1. /\ \A x \in Endpoints : ~ Has(x) /\ tomb[x] = -1 /\ clean[x] = 0 /\ wrote[x] = 0 /\ ~ forgot[x]
          /\ \A p \in net : p.msg = "KeepAlive"
      BY DEF Base, Before
    <3>2. \A x \in Endpoints : (Has(x)' <=> Has(x)) /\ tomb'[x] = tomb[x] /\ clean'[x] = 0 /\ forgot'[x] = forgot[x]
      BY <1>1, <1>2, <3>1 DEF Quiet, Has
    <3>3. \A q \in net' : q.msg = "KeepAlive"
      BY <1>5, <3>1 DEF SamePacket
    <3> QED
      BY <1>2, <3>1, <3>2, <3>3
  <2> QED
    BY <2>1, <2>2, <2>3, <2>4, <2>5, <2>6, <2>7 DEF Base, Quiet
<1>7. Unbroken' => Unbroken
  BY <1>2, <1>4 DEF Unbroken, Endpoints
<1>8. ASSUME Unbroken, Unbroken', Agreement PROVE Agreement'
  <2>0. \A x \in Endpoints : (Has(x)' <=> Has(x)) /\ End(x)' = End(x) /\ Peer(x)' = Peer(x) /\ Peer(x) \in Endpoints
    BY <1>2, PeerType DEF Has, End
  <2>1. ASSUME NEW x \in Endpoints
        PROVE  Sends(x)' /\ Carries(x)' /\ Answers(x)' /\ Acked(x)' /\ Follows(x)' /\ Agreed(x)'
    <3>0. /\ Sends(x) /\ Carries(x) /\ Answers(x) /\ Acked(x) /\ Follows(x) /\ Agreed(x)
          /\ (~ forgot'[x] => ~ forgot[x]) /\ (~ forgot'[Peer(x)] => ~ forgot[Peer(x)])
          /\ (~ Forgotten' => ~ Forgotten)
      BY <1>4, <1>8, <2>0, <2>1 DEF Agreement, Halves, Forgotten
    <3>1. Sends(x)'
      BY <1>2, <2>0, <3>0 DEF Sends, Streams, Content
    <3>2. Carries(x)'
      <4> SUFFICES ASSUME ~ forgot'[x], NEW q \in net', Of(x, q), q.msg \in Messages
                   PROVE  Content(Off(x), End(x), sess[x].phase, q.sn, q.msg)
        BY <1>2, <2>0 DEF Carries, Content, Of
      <4>1. PICK p \in net : SamePacket(p, q)
        BY <1>5 DEF Of
      <4>2. Of(x, p) /\ p.msg = q.msg /\ p.sn = q.sn
        BY <4>1 DEF Of, SamePacket
      <4> QED
        BY <3>0, <4>2 DEF Carries
    <3>3. Answers(x)'
      <4> SUFFICES ASSUME Has(x), ~ forgot'[x], NEW q \in net', Of(x, q)
                   PROVE  q.una <= sess[x].next /\ (q.msg = "Ack" => q.sn \in Received(sess[x]))
        BY <1>2, <2>0 DEF Answers, Received, Of
      <4>1. PICK p \in net : SamePacket(p, q)
        BY <1>5 DEF Of
      <4>2. Of(x, p) /\ p.msg = q.msg /\ p.sn = q.sn /\ p.una = q.una
        BY <4>1 DEF Of, SamePacket
      <4> QED
        BY <3>0, <4>2 DEF Answers
    <3>4. Acked(x)'
      BY <1>2, <2>0, <3>0 DEF Acked, Received
    <3>5. Follows(x)'
      BY <1>2, <2>0, <3>0 DEF Follows, Reading, At, Content
    <3>6. Agreed(x)'
      BY <1>2, <1>4, <2>0, <3>0 DEF Agreed
    <3> QED
      BY <3>1, <3>2, <3>3, <3>4, <3>5, <3>6
  <2>2. Idle'
    <3> SUFFICES ASSUME ~ Has("client") PROVE Idle'
      BY <2>0 DEF Idle, Endpoints
    <3>1. CASE tomb["client"] = -1 /\ ~ Has("server") /\ \A p \in net : p.msg = "KeepAlive"
      <4>1. tomb'["client"] = -1 /\ ~ Has("server")'
        BY <1>4, <2>0, <3>1 DEF Endpoints
      <4>2. \A q \in net' : q.msg = "KeepAlive"
        BY <1>5, <3>1 DEF SamePacket
      <4> QED
        BY <4>1, <4>2 DEF Idle
    <3>2. CASE /\ tomb["client"] # -1
               /\ \A p \in net : p.to = "server" /\ p.msg # "KeepAlive" => p.age >= TombTicks - tomb["client"] - Skew
      <4>1. CASE tomb'["client"] = tomb["client"]
        BY <1>5, <3>2, <4>1 DEF Idle, SamePacket
      <4>2. CASE tomb'["client"] # tomb["client"]
        <5>1. e = "client" /\ tomb["client"] = 0 /\ tomb'["client"] = -1
          BY <1>4, <4>2 DEF Endpoints
        <5>2. ~ LivesOn("client")
          BY <1>8, <4>2, <5>1 DEF Quiet, Unbroken
        <5>3. ~ Has("server") /\ \A p \in net : p.to = "client" => p.msg = "KeepAlive"
          BY <5>2 DEF LivesOn, Peer
        <5>4. \A p \in net : p.to = "server" => p.msg = "KeepAlive"
          <6> SUFFICES ASSUME NEW p \in net, p.to = "server", p.msg # "KeepAlive" PROVE FALSE
            OBVIOUS
          <6>1. p.age \in Int /\ p.age <= MaxPast
            BY <1>3 DEF PacketRec, Base, Young
          <6>2. p.age >= TombTicks - 0 - Skew
            BY <3>2, <5>1
          <6> QED
            BY <6>1, <6>2
        <5>5. \A p \in net : p.to \in {"client", "server"}
          BY <1>3 DEF PacketRec, Endpoints
        <5>6. \A q \in net' : q.msg = "KeepAlive"
          BY <1>5, <5>3, <5>4, <5>5 DEF SamePacket
        <5>7. ~ Has("server")'
          BY <2>0, <5>3 DEF Endpoints
        <5> QED
          BY <5>1, <5>6, <5>7 DEF Idle
      <4> QED
        BY <4>1, <4>2
    <3> QED
      BY <1>8, <3>1, <3>2 DEF Agreement, Idle
  <2>3. Unopened'
    <3> SUFFICES ASSUME ~ Has("server"), tomb'["server"] = -1, ~ forgot'["server"] PROVE Unopened'
      BY <2>0 DEF Unopened, Endpoints
    <3>1. CASE tomb["server"] = -1
      <4>1. ~ forgot["server"] /\ clean'["client"] \in {0, clean["client"]} /\ inst["server"] # 0
        BY <1>4 DEF Endpoints
      <4>2. CASE /\ wrote["server"] = 0 /\ clean["client"] # inst["server"]
                 /\ Has("client") => sess["client"].peer # inst["server"]
                 /\ \A p \in net : ~ Of("server", p)
        <5>1. \A q \in net' : ~ Of("server", q)
          BY <1>5, <4>2 DEF SamePacket, Of
        <5>2. \A q \in net' : ~ Of("server", q)'
          BY <1>2, <5>1 DEF Of
        <5>3. Has("client")' <=> Has("client")
          BY <2>0 DEF Endpoints
        <5> QED
          BY <1>2, <4>1, <4>2, <5>2, <5>3 DEF Unopened
      <4>3. CASE ~ Has("client") /\ \A p \in net : p.to = "server" => p.msg = "KeepAlive"
        <5>1. \A q \in net' : q.to = "server" => q.msg = "KeepAlive"
          BY <1>5, <4>3 DEF SamePacket
        <5> QED
          BY <2>0, <4>3, <5>1 DEF Unopened, Endpoints
      <4> QED
        BY <1>8, <3>1, <4>1, <4>2, <4>3 DEF Agreement, Unopened
    <3>2. CASE tomb["server"] # -1
      <4>1. e = "server" /\ ~ LivesOn("server")
        BY <1>4, <3>2 DEF Quiet, Endpoints
      <4>2. ~ Has("client") /\ \A p \in net : p.to = "server" => p.msg = "KeepAlive"
        BY <4>1 DEF LivesOn, Peer
      <4>3. \A q \in net' : q.to = "server" => q.msg = "KeepAlive"
        BY <1>5, <4>2 DEF SamePacket
      <4> QED
        BY <2>0, <4>2, <4>3 DEF Unopened, Endpoints
    <3> QED
      BY <3>1, <3>2
  <2> QED
    BY <1>2, <1>8, <2>1, <2>2, <2>3 DEF Agreement, Halves
<1> QED
  BY <1>6, <1>7, <1>8 DEF Kept

\* Without a session there is nothing to flush.
LEMMA NothingMade ==
  ASSUME NEW e \in Endpoints
  PROVE  /\ Flush(e, NoSession) = {} /\ QueueLocalClose(e, NoSession) = NoSession /\ ~ Done(NoSession)
         /\ \A q : MadeOf(e, NoSession, q) => q.msg = "KeepAlive"
<1>1. /\ NoSession.phase = "None" /\ NoSession.buf = {} /\ NoSession.next = 0
      /\ NoSession.sent = <<>> /\ Len(NoSession.sent) = 0
  BY NewTypes DEF NoSession, NewSession
<1>2. Unacked(NoSession) = {} /\ Received(NoSession) = {}
  BY <1>1, Constants DEF Unacked, Received, SeqNos
<1>3. Flush(e, NoSession) = {}
  BY <1>2 DEF Flush
<1>4. QueueLocalClose(e, NoSession) = NoSession /\ ~ Done(NoSession)
  BY <1>1 DEF QueueLocalClose, Done
<1>5. ASSUME NEW q, MadeOf(e, NoSession, q) PROVE q.msg = "KeepAlive"
  BY <1>1, <1>2, <1>5 DEF MadeOf
<1> QED
  BY <1>3, <1>4, <1>5

\* The packets of a poll, which sends what is in the stream of s or a keepalive.
LEMMA PollMade ==
  ASSUME Types, NEW e \in Endpoints, NEW s, NEW sh, NEW w \in 0..MaxData, Sound(s, sh, w),
         NEW out \in {Flush(e, s)} \cup KeepAlives(e)
  PROVE  out \in SUBSET PacketRec /\ \A q \in out : MadeOf(e, s, q)
<1> USE Constants
<1>1. s \in SessionRec
  BY DEF Sound
<1>2. CASE out = Flush(e, s)
  <2>1. Extends(s, s)
    <3>1. Len(s.sent) \in Nat
      BY <1>1 DEF SessionRec
    <3> QED
      BY <3>1 DEF Extends
  <2>2. Flush(e, s) \in SUBSET Fresh(e)
    BY FlushType
  <2> QED
    BY <1>1, <1>2, <2>1, <2>2, FlushMade DEF Fresh
<1>3. CASE out \in KeepAlives(e)
  <2> DEFINE q == Packet(e, "KeepAlive", 0, 0)
  <2>1. out = {q}
    BY <1>3 DEF KeepAlives
  <2>2. 0 \in SeqNos /\ 0 \in 0..(MaxData + 2) /\ "KeepAlive" \in Messages \cup {"Ack", "KeepAlive"}
    BY DEF SeqNos
  <2>3. q \in Fresh(e)
    BY <2>2, PacketType
  <2>4. MadeOf(e, s, q)
    BY DEF MadeOf, Packet
  <2> QED
    BY <2>1, <2>3, <2>4 DEF Fresh
<1> QED
  BY <1>2, <1>3

\* Poll
LEMMA PollKept ==
  ASSUME MaxPast + Skew < TombTicks, IInv, IInv', Base, NEW e \in Endpoints, Poll(e)
  PROVE  Kept
<1> USE Constants
<1>1. PICK gone \in ExpiredSequences(e) :
        LET reset == ResetBy(e, gone)
            tombs == [tomb EXCEPT ![e] = IF reset THEN TombTicks ELSE IF @ = 0 THEN -1 ELSE @]
            s     == IF reset THEN NoSession ELSE QueueLocalClose(e, sess[e])
            sh    == IF reset /\ sess[e].phase # "PendingRemote" THEN TellClose(shell[e])
                     ELSE shell[e]
        IN  /\ Finish(e, s, sh, tombs)
            /\ \E out \in {Flush(e, s)} \cup KeepAlives(e) : Transmit(e, net, out)
            /\ forgot' = [forgot EXCEPT ![e] =
                            \/ @
                            \/ Done(s) /\ s.phase = "PendingRemote"
                            \/ tomb[e] = 0 /\ tomb'[e] = -1 /\ LivesOn(e)]
            /\ UNCHANGED <<inst, wrote>>
  BY DEF Poll
<1> DEFINE reset == ResetBy(e, gone)
           tombs == [tomb EXCEPT ![e] = IF reset THEN TombTicks ELSE IF @ = 0 THEN -1 ELSE @]
           s     == IF reset THEN NoSession ELSE QueueLocalClose(e, sess[e])
           sh    == IF reset /\ sess[e].phase # "PendingRemote" THEN TellClose(shell[e])
                    ELSE shell[e]
           w     == shell[e].writes
           lost  == \/ Done(s) /\ s.phase = "PendingRemote"
                    \/ tomb[e] = 0 /\ tomb'[e] = -1 /\ LivesOn(e)
<1>2. /\ Finish(e, s, sh, tombs) /\ inst' = inst /\ wrote' = wrote
      /\ forgot' = [forgot EXCEPT ![e] = @ \/ lost]
  BY <1>1
<1>3. PICK out \in {Flush(e, s)} \cup KeepAlives(e) : Transmit(e, net, out)
  BY <1>1
<1>4. /\ Types /\ Sessions /\ forgot \in [Endpoints -> BOOLEAN]
      /\ Sound(sess[e], shell[e], wrote[e]) /\ wrote[e] \in 0..MaxData /\ wrote[e] \in Nat
      /\ sess[e] \in SessionRec /\ shell[e] \in ShellRec
  BY WroteType DEF IInv, Types, Sessions, Base
<1>5. /\ tomb \in [Endpoints -> -1..TombTicks] /\ tombs \in [Endpoints -> -1..TombTicks]
      /\ tombs[e] = (IF reset THEN TombTicks ELSE IF tomb[e] = 0 THEN -1 ELSE tomb[e])
      /\ \A x \in Endpoints : x # e => tombs[x] = tomb[x]
  BY <1>4 DEF Types
<1>6. /\ forgot' \in [Endpoints -> BOOLEAN] /\ (forgot'[e] <=> forgot[e] \/ lost)
      /\ \A x \in Endpoints : x # e => forgot'[x] = forgot[x]
  BY <1>2, <1>4
<1>7. TellClose(shell[e]).state = "closed"
  BY <1>4 DEF TellClose, ShellRec
<1>8. (clean[e] # 0 => tomb[e] # -1) /\ (Has(e) => tomb[e] = -1)
  BY DEF Base, Tombs
<1>9. net \in SUBSET net
  OBVIOUS
<1>10. CASE ~ Has(e)
  <2>1. ~ reset /\ s = NoSession /\ sh = shell[e] /\ sess[e] = NoSession
    BY <1>10, NothingMade DEF ResetBy, Has
  <2>2. /\ sess' = [sess EXCEPT ![e] = NoSession] /\ shell' = [shell EXCEPT ![e] = shell[e]]
        /\ tomb' = tombs /\ clean' = [clean EXCEPT ![e] = IF tomb'[e] = -1 THEN 0 ELSE @]
    <3> HIDE DEF reset, tombs, s, sh
    <3>1. tombs = [tombs EXCEPT ![e] = @]
      BY <1>5
    <3> QED
      BY <1>2, <2>1, <3>1, NothingMade DEF Finish
  <2> HIDE DEF tombs
  <2>3. sess' = sess /\ shell' = shell
    BY <1>4, <2>1, <2>2 DEF Sessions
  <2>4. /\ \A x \in Endpoints : x # e => tomb'[x] = tomb[x] /\ clean'[x] = clean[x]
        /\ tomb'[e] = (IF tomb[e] = 0 THEN -1 ELSE tomb[e])
        /\ clean'[e] = (IF tomb'[e] = -1 THEN 0 ELSE clean[e])
    BY <1>4, <1>5, <2>1, <2>2 DEF Types
  <2>5. Sound(NoSession, shell[e], wrote[e]) /\ out \in {Flush(e, NoSession)} \cup KeepAlives(e)
    BY <1>3, <1>4, <2>1
  <2>6. Puts(e, NoSession)
    <3>1. out \in SUBSET PacketRec /\ \A q \in out : MadeOf(e, NoSession, q)
      BY <1>4, <2>5, PollMade
    <3> QED
      BY <1>3, <1>4, <1>9, <3>1, TransmitPuts
  <2>7. \A q \in net' :
          \/ \E p \in net : SamePacket(p, q)
          \/ q.msg = "KeepAlive" /\ q.to = Peer(e) /\ q.inst = inst[e] /\ (e = "client" => q.age = -Skew)
    <3> SUFFICES ASSUME NEW q \in net', MadeOf(e, NoSession, q)
                 PROVE  q.msg = "KeepAlive" /\ q.to = Peer(e) /\ q.inst = inst[e] /\ (e = "client" => q.age = -Skew)
      BY <2>6 DEF Puts
    <3>1. q.msg = "KeepAlive"
      BY NothingMade
    <3> QED
      BY <3>1 DEF MadeOf
  <2>8. lost <=> (tomb[e] = 0 /\ tomb'[e] = -1 /\ LivesOn(e))
    <3>1. ~ Done(s)
      BY <2>1, NothingMade
    <3> QED
      BY <3>1
  <2> HIDE DEF lost, reset, s, sh
  <2>9. \/ tomb'[e] = tomb[e] /\ clean'[e] = clean[e] /\ forgot'[e] = forgot[e]
        \/ /\ tomb[e] = 0 /\ tomb'[e] = -1 /\ clean'[e] = 0
           /\ forgot[e] \/ LivesOn(e) => forgot'[e]
    <3>1. CASE tomb[e] = 0
      BY <1>6, <2>4, <2>8, <3>1
    <3>2. CASE tomb[e] # 0
      <4>1. ~ lost /\ forgot[e] \in BOOLEAN /\ forgot'[e] \in BOOLEAN
        BY <1>4, <1>6, <2>8, <3>2
      <4> QED
        BY <1>6, <1>8, <2>4, <3>2, <4>1
    <3> QED
      BY <3>1, <3>2
  <2>10. Quiet(e)
    BY <1>2, <1>6, <2>3, <2>4, <2>7, <2>9 DEF Quiet
  <2> QED
    BY <2>10, QuietKept
<1>11. CASE Has(e) /\ reset
  <2>1. s = NoSession /\ sh \in {shell[e], TellClose(shell[e])} /\ tomb[e] = -1 /\ clean[e] = 0
    BY <1>8, <1>11
  <2>0. tombs[e] = TombTicks
    BY <1>5, <1>11
  <2> HIDE DEF reset, tombs, s, sh
  <2>2. /\ sess' = [sess EXCEPT ![e] = NoSession] /\ shell' = [shell EXCEPT ![e] = sh]
        /\ tomb' = tombs /\ clean' = [clean EXCEPT ![e] = IF tomb'[e] = -1 THEN 0 ELSE @]
    <3>1. tombs = [tombs EXCEPT ![e] = @]
      BY <1>5
    <3> QED
      BY <1>2, <2>1, <3>1, NothingMade DEF Finish
  <2>3. /\ sess'[e] = NoSession /\ tomb'[e] = TombTicks /\ clean'[e] = 0 /\ shell'[e] = sh
        /\ \A x \in Endpoints : x # e =>
             sess'[x] = sess[x] /\ shell'[x] = shell[x] /\ tomb'[x] = tomb[x] /\ clean'[x] = clean[x]
    BY <1>4, <1>5, <2>0, <2>1, <2>2 DEF Sessions, Types
  <2>4. Alone(e)
    BY <1>2, <1>6, <1>7, <2>1, <2>3 DEF Alone
  <2> DEFINE k == sess[e]
  <2>5. Leaves(e, k, w)
    BY <2>3 DEF Leaves
  <2>6. Puts(e, k)
    <3>0. Sound(NoSession, shell'[e], wrote'[e]) /\ wrote'[e] = wrote[e]
      BY <1>2, <2>3 DEF IInv, Sessions
    <3>1. out \in SUBSET PacketRec /\ \A q \in out : MadeOf(e, NoSession, q)
      BY <1>3, <1>4, <2>1, <3>0, PollMade
    <3>2. \A q : MadeOf(e, NoSession, q) => MadeOf(e, k, q)
      BY NothingMade DEF MadeOf
    <3> HIDE DEF k
    <3> QED
      BY <1>3, <1>4, <1>9, <3>1, <3>2, TransmitPuts
  <2>7. Requeued(sess[e], k)
    BY DEF Requeued
  <2>8. /\ Made(e, k, w)
        /\ Unbroken /\ Agreement => Continues(e, k, w)
    BY <1>2, <1>4, <1>6, <1>11, <2>7, KeptContinues
  <2>9. inst["client"] = 1 => shell'["client"].state # "none"
    BY <1>11, <2>4, Began
  <2> HIDE DEF k, w
  <2> QED
    BY <1>11, <2>4, <2>5, <2>6, <2>8, <2>9, StepKept DEF Knows
<1>12. CASE Has(e) /\ ~ reset
  <2> DEFINE k == QueueLocalClose(e, sess[e])
  <2>1. s = k /\ sh = shell[e] /\ tomb[e] = -1 /\ clean[e] = 0 /\ tombs[e] = -1
    BY <1>5, <1>8, <1>12
  <2>2. sess[e].phase # "None"
    BY <1>4, <1>12 DEF Has, Sound
  <2>3. Sound(k, shell[e], wrote[e]) /\ Full(e, k) /\ k.phase # "None" /\ Requeued(sess[e], k) /\ k \in SessionRec
    <3>1. k = QueueLocalClose(e, sess[e]) /\ Requeued(sess[e], k)
      BY <1>4, QueueRequeued
    <3> HIDE DEF k
    <3>2. Sound(k, shell[e], wrote[e]) /\ Full(e, k) /\ k.phase = sess[e].phase
      <4>1. Sound(sess[e], shell[e], wrote[e]) /\ wrote[e] \in Nat
        BY <1>4
      <4> QED
        BY ONLY <3>1, <4>1, e \in Endpoints, QueueSound
    <3> QED
      BY <2>2, <3>1, <3>2 DEF Sound
  <2>4. Finish(e, k, shell[e], tombs) /\ out \in {Flush(e, k)} \cup KeepAlives(e)
    BY <1>2, <1>3, <2>1
  <2>5. Done(k) /\ k.phase = "PendingRemote" => forgot'[e]
    BY <1>6, <2>1
  <2> HIDE DEF k, s, sh, tombs, reset, lost
  <2>6. /\ Leaves(e, k, w)
        /\ \A x \in Endpoints : x # e =>
             sess'[x] = sess[x] /\ shell'[x] = shell[x] /\ tomb'[x] = tombs[x] /\ clean'[x] = clean[x]
        /\ shell'[e].state = "none" => shell[e].state = "none"
    BY <1>5, <2>1, <2>3, <2>4, <2>5, FinishLeaves
  <2>7. Alone(e)
    BY <1>2, <1>5, <1>6, <2>6 DEF Alone
  <2>8. Puts(e, k)
    <3>1. out \in SUBSET PacketRec /\ \A q \in out : MadeOf(e, k, q)
      BY <1>4, <2>3, <2>4, PollMade
    <3> QED
      BY <1>3, <1>4, <1>9, <3>1, TransmitPuts
  <2>9. /\ Made(e, k, w)
        /\ Unbroken /\ Agreement => Continues(e, k, w)
    BY <1>2, <1>6, <1>12, <2>3, KeptContinues
  <2>10. inst["client"] = 1 => shell'["client"].state # "none"
    BY <1>12, <2>7, Began
  <2> HIDE DEF w
  <2> QED
    BY <1>12, <2>6, <2>7, <2>8, <2>9, <2>10, StepKept DEF Knows
<1> QED
  BY <1>10, <1>11, <1>12

\* The session of e that packet p goes to.
Serves(e, p, f) ==
  /\ f \in SessionRec /\ f.peer = p.inst
  /\ Has(e) => /\ f.phase = sess[e].phase /\ f.queued = sess[e].queued /\ f.sent = sess[e].sent
               /\ f.acked = sess[e].acked /\ f.buf = sess[e].buf /\ f.next = sess[e].next
               /\ f.phase # "None"
  /\ ~ Has(e) => /\ f.phase = "PendingRemote" /\ f.queued = FALSE /\ f.sent = <<>>
                 /\ f.acked = {} /\ f.buf = {} /\ f.next = 0

\* SessionFor
LEMMA ForServes ==
  ASSUME IInv, NEW e \in Endpoints, NEW p \in PacketRec, NEW f, f = SessionFor(e, p)
  PROVE  Serves(e, p, f)
<1> USE Constants
<1>1. sess[e] \in SessionRec /\ p.inst \in 0..MaxInst /\ (Has(e) => sess[e].phase # "None")
  BY DEF IInv, Sessions, Sound, Has, PacketRec, Instances
<1>2. CASE Has(e)
  <2>1. f = [sess[e] EXCEPT !.peer = p.inst]
    BY <1>2 DEF SessionFor
  <2> DEFINE s == sess[e]
             i == p.inst
  <2>2. s \in SessionRec /\ i \in 0..MaxInst /\ f = [s EXCEPT !.peer = i]
    BY <1>1, <2>1
  <2> HIDE DEF s, i
  <2>3. /\ f \in SessionRec /\ f.peer = i /\ f.phase = s.phase /\ f.queued = s.queued /\ f.sent = s.sent
        /\ f.acked = s.acked /\ f.buf = s.buf /\ f.next = s.next
    BY ONLY <2>2 DEF SessionRec
  <2> QED
    BY <1>1, <1>2, <2>3 DEF Serves, s, i
<1>3. CASE ~ Has(e)
  <2> DEFINE s == NewSession("PendingRemote")
             i == p.inst
  <2>1. /\ s \in SessionRec /\ s.phase = "PendingRemote" /\ s.queued = FALSE /\ s.sent = <<>>
        /\ s.acked = {} /\ s.buf = {} /\ s.next = 0
    BY NewTypes DEF NewSession
  <2>2. f = [s EXCEPT !.peer = i, !.timer = CloseTicks] /\ CloseTicks \in -1..CloseTicks /\ i \in 0..MaxInst
    BY <1>1, <1>3 DEF SessionFor
  <2> HIDE DEF s, i
  <2>3. /\ f \in SessionRec /\ f.peer = i /\ f.phase = s.phase /\ f.queued = s.queued /\ f.sent = s.sent
        /\ f.acked = s.acked /\ f.buf = s.buf /\ f.next = s.next
    BY ONLY <2>1, <2>2 DEF SessionRec
  <2> QED
    BY <1>3, <2>1, <2>3 DEF Serves, i
<1> QED
  BY <1>2, <1>3

\* e's session may get packet p, which is of the conversation.
Admits(e, p) ==
  /\ p \in net /\ p \in PacketRec /\ p.to = e /\ p.msg # "KeepAlive" /\ tomb[e] = -1
  /\ Has(e) => sess[e].peer \in {0, p.inst}

\* A session that got a packet before it read anything.
LEMMA ServesMade ==
  ASSUME IInv, Base, NEW e \in Endpoints, NEW p, Admits(e, p), NEW f, Serves(e, p, f)
  PROVE  /\ f.peer # 0 /\ f.peer <= inst[Peer(e)]
         /\ f.phase # "None" /\ Shape(f, shell[e].writes)
         /\ e = "client" => /\ inst["client"] # 1 => f.phase = "PendingRemote"
                            /\ \A m \in f.buf : m.msg # "Open"
                            /\ p.msg # "Open"
         /\ e = "server" => /\ f.buf # {} \/ f.phase \in LivePhases \/ p.msg \in Messages => f.peer = 1
                            /\ \A i \in 1..Len(f.sent) : f.sent[i] # "Open"
<1> USE Constants
<1>1. p.inst \in Nat \ {0} /\ p.inst <= inst[Peer(e)]
  BY DEF Admits, PacketRec, Instances, Base, Lives
<1>2. f.peer = p.inst
  BY DEF Serves
<1>3. CASE Has(e)
  <2>1. Shape(sess[e], shell[e].writes) /\ sess[e].peer \in {0, p.inst}
    BY <1>3 DEF Base, Shapes, Admits
  <2>2. /\ f.phase = sess[e].phase /\ f.queued = sess[e].queued /\ f.sent = sess[e].sent
        /\ f.acked = sess[e].acked /\ f.buf = sess[e].buf /\ f.next = sess[e].next /\ f.phase # "None"
    BY <1>3 DEF Serves
  <2>3. Shape(f, shell[e].writes)
    BY <1>1, <1>2, <2>1, <2>2 DEF Shape
  <2>4. e = "client" => /\ inst["client"] # 1 => f.phase = "PendingRemote"
                        /\ \A m \in f.buf : m.msg # "Open"
                        /\ p.msg # "Open"
    BY <2>2 DEF Base, FirstClient, NoOpen, Admits
  <2>5. e = "server" => /\ f.buf # {} \/ f.phase \in LivePhases \/ p.msg \in Messages => f.peer = 1
                        /\ \A i \in 1..Len(f.sent) : f.sent[i] # "Open"
    BY <1>2, <2>1, <2>2 DEF Base, FirstClient, NoOpen, Admits
  <2> QED
    BY <1>1, <1>2, <2>2, <2>3, <2>4, <2>5
<1>4. CASE ~ Has(e)
  <2>1. /\ f.phase = "PendingRemote" /\ f.queued = FALSE /\ f.sent = <<>>
        /\ f.acked = {} /\ f.buf = {} /\ f.next = 0 /\ Len(f.sent) = 0
    BY <1>4, NewTypes DEF Serves
  <2>2. Shape(f, shell[e].writes)
    BY <1>1, <1>2, <2>1 DEF Shape
  <2>3. e = "client" => p.msg # "Open"
    BY DEF Base, NoOpen, Admits
  <2>4. e = "server" /\ p.msg \in Messages => f.peer = 1
    BY <1>2 DEF Base, FirstClient, Admits
  <2> QED
    BY <1>1, <1>2, <2>1, <2>2, <2>3, <2>4 DEF LivePhases
<1> QED
  BY <1>3, <1>4

\* What becomes of a session f that gets packet p: recv after KCP, t after the
\* messages are read, k after queue_local_close.
Handles(e, p, f, recv, msgs, t, th, k) ==
  /\ Serves(e, p, f) /\ Took(f, p, recv, msgs)
  /\ ReadTo(recv, shell[e], Len(msgs), e = "server", t, th)
  /\ t # NoSession /\ t.phase # "None" /\ t \in SessionRec /\ Requeued(t, k) /\ k \in SessionRec

\* The fields of the session in the end.
LEMMA HandledFields ==
  ASSUME NEW e, NEW p, NEW f, NEW recv, NEW msgs, NEW t, NEW th, NEW k, Handles(e, p, f, recv, msgs, t, th, k)
  PROVE  /\ k.phase = t.phase /\ k.phase # "None" /\ k.peer = p.inst /\ k.acked = recv.acked
         /\ k.buf = recv.buf /\ k.next = recv.next
         /\ k.queued => k.phase = "ClosingLocal" \/ f.queued
         /\ (k = t \/ k.phase = "ClosingLocal") /\ t.sent = f.sent /\ t.queued = f.queued
         /\ k = t \/ k.sent = Append(f.sent, "Close")
<1>1. SameStream(recv, t) /\ k.phase = t.phase
  BY DEF Handles, ReadTo, Requeued
<1>2. recv.queued = f.queued /\ recv.sent = f.sent /\ recv.peer = f.peer /\ f.peer = p.inst
  BY DEF Handles, Took, Serves
<1> QED
  BY <1>1, <1>2 DEF Handles, SameStream, Requeued

\* It is one the peer may answer.
LEMMA HandledMade ==
  ASSUME IInv, Base, NEW e \in Endpoints, NEW p, Admits(e, p), NEW f, NEW recv, NEW msgs, NEW t, NEW th, NEW k,
         Handles(e, p, f, recv, msgs, t, th, k)
  PROVE  Made(e, k, th.writes)
<1> USE Constants
<1>1. /\ f.peer # 0 /\ f.peer <= inst[Peer(e)]
      /\ f.phase # "None" /\ Shape(f, shell[e].writes)
      /\ e = "client" => /\ inst["client"] # 1 => f.phase = "PendingRemote"
                         /\ \A m \in f.buf : m.msg # "Open"
                         /\ p.msg # "Open"
      /\ e = "server" => /\ f.buf # {} \/ f.phase \in LivePhases \/ p.msg \in Messages => f.peer = 1
                         /\ \A i \in 1..Len(f.sent) : f.sent[i] # "Open"
  BY ServesMade DEF Handles
<1>2. /\ k.phase = t.phase /\ k.phase # "None" /\ k.peer = p.inst /\ k.acked = recv.acked
      /\ k.buf = recv.buf /\ k.next = recv.next
      /\ k.queued => k.phase = "ClosingLocal" \/ f.queued
      /\ (k = t \/ k.phase = "ClosingLocal") /\ t.sent = f.sent /\ t.queued = f.queued
      /\ k = t \/ k.sent = Append(f.sent, "Close")
  BY HandledFields
<1>3. Took(f, p, recv, msgs) /\ ReadTo(recv, shell[e], Len(msgs), e = "server", t, th) /\ f.peer = p.inst /\ f \in SessionRec
      /\ recv.phase = f.phase /\ k \in SessionRec /\ t \in SessionRec
  BY DEF Handles, Serves, Took
<1>4. Len(msgs) \in Nat /\ f.next \in Nat /\ recv.next \in Nat /\ f.sent \in Seq(Messages) /\ Len(f.sent) \in Nat
      /\ f.phase \in AllPhases /\ t.phase \in AllPhases
  <2>1. msgs \in Seq(Messages) /\ recv \in SessionRec
    BY <1>3 DEF Took
  <2>2. Len(msgs) \in Nat
    BY <2>1
  <2> QED
    BY <1>3, <2>1, <2>2 DEF SessionRec
<1>5. Len(msgs) # 0 => f.buf # {} \/ p.msg \in Messages
  <2> SUFFICES ASSUME Len(msgs) # 0 PROVE f.buf # {} \/ p.msg \in Messages
    OBVIOUS
  <2>1. 1 \in 1..Len(msgs)
    BY <1>4
  <2>2. PICK m : m \in f.buf \/ Brings(p, m)
    BY <1>3, <2>1 DEF Took
  <2> QED
    BY <2>2 DEF Brings
<1>6. recv.buf # {} => f.buf # {} \/ p.msg \in Messages
  BY <1>3 DEF Took, Brings
<1>7. f.phase = "PendingRemote" => recv.acked = {}
  <2> SUFFICES ASSUME f.phase = "PendingRemote" PROVE recv.acked = {}
    OBVIOUS
  <2>1. f.sent = <<>> /\ f.acked = {}
    BY <1>1 DEF Shape
  <2>2. Unacked(f) = {}
    BY <2>1, NewTypes DEF Unacked
  <2> QED
    BY <1>3, <2>1, <2>2 DEF Took
<1>8. Shape(k, th.writes)
  <2>1. ASSUME k.phase = "PendingRemote" PROVE k.sent = <<>> /\ k.acked = {} /\ k.next = 0 /\ ~ k.queued
    <3>1. Len(msgs) = 0 /\ f.phase = "PendingRemote" /\ k = t
      BY <1>2, <1>3, <2>1 DEF ReadTo
    <3>2. f.sent = <<>> /\ f.next = 0 /\ ~ f.queued
      BY <1>1, <3>1 DEF Shape
    <3>3. recv.next = f.next + Len(msgs)
      BY <1>3 DEF Took
    <3> QED
      BY <1>2, <1>7, <3>1, <3>2, <3>3
  <2>2. k.queued => k.phase = "ClosingLocal"
    BY <1>1, <1>2, <1>3 DEF Shape, ReadTo
  <2>3. k.peer # 0
    BY <1>1, <1>2, <1>3
  <2>4. \A m \in k.buf : m.sn > k.next
    BY <1>2, <1>3 DEF Took
  <2> QED
    BY <1>2, <2>1, <2>2, <2>3, <2>4 DEF Shape
<1>9. e = "client" => /\ inst["client"] # 1 => k.phase = "PendingRemote"
                      /\ \A m \in k.buf : m.msg # "Open"
  <2> SUFFICES ASSUME e = "client"
               PROVE  /\ inst["client"] # 1 => k.phase = "PendingRemote"
                      /\ \A m \in k.buf : m.msg # "Open"
    OBVIOUS
  <2>1. \A m : Brings(p, m) => m.msg = p.msg
    BY DEF Brings
  <2>2. \A m \in k.buf : m.msg # "Open"
    BY <1>1, <1>2, <1>3, <2>1 DEF Took
  <2>3. ASSUME inst["client"] # 1 PROVE k.phase = "PendingRemote"
    <3>1. recv.phase = "PendingRemote" /\ e # "server"
      BY <1>1, <1>3, <2>3
    <3> QED
      BY <1>2, <1>3, <3>1 DEF ReadTo
  <2> QED
    BY <2>2, <2>3
<1>10. e = "server" => (k.buf # {} \/ k.phase \in LivePhases => k.peer = 1)
  <2> SUFFICES ASSUME e = "server", k.buf # {} \/ k.phase \in LivePhases PROVE f.peer = 1
    BY <1>2, <1>3
  <2>1. CASE k.buf # {}
    BY <1>1, <1>2, <1>6, <2>1
  <2>2. CASE k.phase \in LivePhases
    <3>1. CASE f.phase \in LivePhases
      BY <1>1, <3>1
    <3>2. CASE f.phase = "PendingRemote"
      <4>1. Len(msgs) # 0
        BY <1>2, <1>3, <2>2, <3>2 DEF ReadTo, LivePhases
      <4> QED
        BY <1>1, <1>5, <4>1
    <3> QED
      BY <1>1, <1>4, <3>1, <3>2 DEF AllPhases, Phases, LivePhases
  <2> QED
    BY <2>1, <2>2
<1>11. e = "server" => \A i \in 1..Len(k.sent) : k.sent[i] # "Open"
  <2> SUFFICES ASSUME e = "server" PROVE \A i \in 1..Len(k.sent) : k.sent[i] # "Open"
    OBVIOUS
  <2> DEFINE sent == f.sent
             more == Append(sent, "Close")
  <2>1. sent \in Seq(Messages) /\ \A i \in 1..Len(sent) : sent[i] # "Open"
    BY <1>1, <1>4
  <2>2. k.sent \in {sent, more}
    BY <1>2
  <2> HIDE DEF sent
  <2>3. \A i \in 1..Len(more) : more[i] # "Open"
    BY <2>1
  <2> HIDE DEF more
  <2> QED
    BY <2>1, <2>2, <2>3
<1> QED
  BY <1>1, <1>2, <1>3, <1>8, <1>9, <1>10, <1>11 DEF Made

\* A session that gets a packet follows the stream of its peer so far.
LEMMA ServesReading ==
  ASSUME IInv, Base, Agreement, NEW e \in Endpoints, Knows(e), NEW p, Admits(e, p), NEW f, Serves(e, p, f),
         e = "client" => Has(e), p.inst = inst[Peer(e)], ~ forgot[Peer(e)]
  PROVE  Reading(Off(Peer(e)), End(Peer(e)), sess[Peer(e)].phase, f, shell[e].writes)
<1> DEFINE r == Peer(e)
           phase == sess[r].phase
           off == Off(r)
           end == End(r)
           w == shell[e].writes
<1>1. /\ r \in Endpoints /\ off \in {0, 1} /\ end \in Nat /\ end >= off /\ w \in Nat
      /\ (e = "client" => off = 0) /\ (e = "server" => off = 1)
  <2>1. r \in Endpoints
    BY PeerType
  <2>2. wrote[r] \in Nat /\ w \in Nat
    BY <2>1 DEF IInv, Types, Sessions, ShellRec
  <2> QED
    BY <2>1, <2>2 DEF Off, End, Peer, Endpoints
<1> HIDE DEF phase, off, end, w
<1>2. CASE Has(e) /\ sess[e].peer = p.inst
  <2>1. Reading(off, end, phase, sess[e], w)
    <3>1. Follows(e)
      BY DEF Agreement, Halves
    <3> QED
      BY <1>2, <3>1 DEF Follows, off, end, phase, w
  <2>2. f.phase = sess[e].phase /\ f.buf = sess[e].buf /\ f.next = sess[e].next
    BY <1>2 DEF Serves
  <2>3. Reading(off, end, phase, f, w)
    BY <2>1, <2>2 DEF Reading
  <2> QED
    BY <2>3 DEF off, end, phase, w
<1>3. CASE Has(e) /\ sess[e].peer # p.inst
  <2>1. sess[e].peer = 0 /\ Shape(sess[e], w)
    BY <1>3 DEF Admits, Base, Shapes, w
  <2>2. f.phase = sess[e].phase /\ f.buf = sess[e].buf /\ f.next = sess[e].next /\ f.phase # "None"
    BY <1>3 DEF Serves
  <2>3. f.next = 0 /\ f.buf = {} /\ f.phase \in {"Open", "ClosingLocal"} /\ (f.phase = "Open" => w = 0)
    BY <2>1, <2>2 DEF Shape
  <2>4. e = "client"
    <3>1. f.phase \in LivePhases
      BY <2>3 DEF LivePhases
    <3> QED
      BY <2>1, <2>2, <3>1 DEF Base, FirstClient, Endpoints
  <2>5. off = 0
    BY <1>1, <2>4
  <2>6. Reading(off, end, phase, f, w)
    BY <1>1, <2>3, <2>5 DEF Reading, At, LivePhases
  <2> QED
    BY <2>6 DEF off, end, phase, w
<1>4. CASE ~ Has(e)
  <2>1. off = 1
    BY <1>1, <1>4 DEF Endpoints
  <2>2. f.phase = "PendingRemote" /\ f.buf = {} /\ f.next = 0
    BY <1>4 DEF Serves
  <2>3. Reading(off, end, phase, f, w)
    BY <1>1, <2>1, <2>2 DEF Reading, At, LivePhases
  <2> QED
    BY <2>3 DEF off, end, phase, w
<1> QED
  BY <1>2, <1>3, <1>4

\* Only a client that has its session admits a packet of the conversation.
LEMMA AdmitsKnows ==
  ASSUME Base, Agreement, NEW e \in Endpoints, NEW p, Admits(e, p)
  PROVE  Knows(e) /\ (e = "client" => Has(e))
<1>1. CASE e = "client"
  <2>1. Has(e)
    BY <1>1 DEF Agreement, Idle, Admits
  <2> QED
    BY <2>1 DEF Knows
<1>2. CASE e = "server"
  BY <1>2 DEF Knows, Admits
<1> QED
  BY <1>1, <1>2 DEF Endpoints

\* It goes on where e and its peer were.
LEMMA HandledContinues ==
  ASSUME IInv, Base, Unbroken, Agreement, NEW e \in Endpoints, NEW p, Admits(e, p),
         NEW f, NEW recv, NEW msgs, NEW t, NEW th, NEW k, Handles(e, p, f, recv, msgs, t, th, k),
         Sound(recv, shell[e], wrote[e]), NEW read,
         read = ReadMessages([s |-> recv, sh |-> shell[e]], msgs), t = read.s, th = read.sh,
         wrote' = wrote, forgot[e] => forgot'[e]
  PROVE  Continues(e, k, th.writes)
<1> USE Constants
<1> DEFINE r == Peer(e)
<1>1. /\ r \in Endpoints /\ Peer(r) = e /\ Knows(e) /\ (e = "client" => Has(e))
  BY AdmitsKnows DEF Peer, Endpoints
<1>2. /\ f.peer # 0 /\ f.phase # "None" /\ Shape(f, shell[e].writes)
  BY ServesMade DEF Handles
<1>3. /\ k.phase = t.phase /\ k.phase # "None" /\ k.peer = p.inst /\ k.acked = recv.acked
      /\ k.buf = recv.buf /\ k.next = recv.next
      /\ (k = t \/ k.phase = "ClosingLocal") /\ t.sent = f.sent /\ t.queued = f.queued
  BY HandledFields
<1>4. /\ Took(f, p, recv, msgs) /\ ReadTo(recv, shell[e], Len(msgs), e = "server", t, th) /\ f \in SessionRec
      /\ recv.phase = f.phase /\ k \in SessionRec /\ t \in SessionRec /\ recv \in SessionRec
      /\ Serves(e, p, f) /\ msgs \in Seq(Messages) /\ recv.next = f.next + Len(msgs) /\ Requeued(t, k)
  BY DEF Handles, Took, Serves
<1>5. /\ Len(msgs) \in Nat /\ f.next \in Nat /\ f.phase \in AllPhases /\ t.phase \in AllPhases
      /\ \A m \in f.buf : m.sn \in Nat
  <2>1. Len(msgs) \in Nat
    BY <1>4
  <2>2. \A u \in SessionRec : u.next \in Nat /\ u.phase \in AllPhases /\ \A m \in u.buf : m.sn \in Nat
    BY DEF SessionRec, SeqNos
  <2> QED
    BY <1>4, <2>1, <2>2
<1>6. p \in net /\ p \in PacketRec /\ p.to = e /\ p.msg # "KeepAlive" /\ p.inst # 0
  BY <1>2, <1>4 DEF Admits, Serves
<1>7. Off(e) \in {0, 1} /\ Off(r) \in {0, 1} /\ End(r) \in Nat /\ End(r) >= Off(r) /\ wrote[e] \in Nat
      /\ End(e) = Off(e) + wrote[e] /\ End(e) \in Nat
  <2>1. wrote[e] \in Nat /\ wrote[r] \in Nat
    BY <1>1 DEF IInv, Types
  <2> QED
    BY <2>1 DEF Off, End
<1> HIDE DEF r
<1>8. Has(e) => Grows(wrote[e], sess[e].phase, wrote'[e], k.phase)
  <2> SUFFICES ASSUME Has(e) PROVE k.phase \in {"Open", "PendingRemote"} => sess[e].phase \in {"Open", "PendingRemote"}
    BY DEF Grows
  <2>1. f.phase = sess[e].phase
    BY <1>4 DEF Serves
  <2> QED
    BY <1>3, <1>4, <2>1 DEF ReadTo
<1>9. ~ forgot'[e] => Streams(Off(e), Off(e) + wrote'[e], k.phase, k)
  <2> SUFFICES ASSUME ~ forgot'[e] PROVE Streams(Off(e), Off(e) + wrote'[e], k.phase, k)
    OBVIOUS
  <2> DEFINE off == Off(e)
             end == End(e)
  <2>1. off \in {0, 1} /\ end \in Nat /\ end = Off(e) + wrote'[e] /\ end = off + wrote[e]
    BY <1>7
  <2>2. Streams(off, end, t.phase, t)
    <3>1. CASE Has(e)
      <4>1. Streams(off, end, sess[e].phase, sess[e])
        BY <3>1 DEF Agreement, Halves, Sends
      <4>2. t.sent = sess[e].sent /\ t.queued = sess[e].queued
        BY <1>3, <1>4, <3>1 DEF Serves
      <4>3. Len(t.sent) \in Nat
        <5>1. \A u \in SessionRec : Len(u.sent) \in Nat
          BY DEF SessionRec
        <5> QED
          BY <1>4, <5>1
      <4>4. \A sn \in Nat : \A msg : Content(off, off + wrote[e], sess[e].phase, sn, msg) =>
                                 Content(off, off + wrote[e], t.phase, sn, msg)
        <5>1. Grows(wrote[e], sess[e].phase, wrote[e], t.phase)
          BY <1>3, <1>8, <3>1
        <5> HIDE DEF off
        <5> QED
          BY <1>7, <2>1, <5>1, ContentGrows
      <4> HIDE DEF off, end
      <4>5. \A n \in 0..(Len(t.sent) - 1) : n \in Nat
        BY <4>3
      <4> QED
        BY <2>1, <4>1, <4>2, <4>4, <4>5 DEF Streams
    <3>2. CASE ~ Has(e)
      <4>1. e = "server" /\ ~ forgot[e] /\ tomb[e] = -1
        BY <1>1, <3>2 DEF Endpoints, Admits
      <4>2. wrote[e] = 0
        BY <1>6, <3>2, <4>1, Learns DEF Agreement
      <4>3. t.sent = <<>> /\ t.queued = FALSE /\ off = 0 /\ Len(t.sent) = 0
        BY <1>3, <1>4, <3>2, <4>1, NewTypes DEF Serves, Off
      <4> HIDE DEF off, end
      <4> QED
        BY <2>1, <4>2, <4>3 DEF Streams
    <3> QED
      BY <3>1, <3>2
  <2> HIDE DEF off, end
  <2>3. Streams(off, end, t.phase, k)
    BY <1>4, <2>1, <2>2, RequeuedStreams
  <2> QED
    BY <1>3, <2>1, <2>3 DEF off
<1>10. Has(r) /\ k.peer = inst[r] /\ ~ forgot[r] => k.acked \subseteq Received(sess[r])
  <2> SUFFICES ASSUME Has(r), p.inst = inst[r], ~ forgot[r], NEW n \in recv.acked PROVE n \in Received(sess[r])
    BY <1>3
  <2>1. Of(r, p)
    BY <1>1, <1>6 DEF Of
  <2>2. p.una <= sess[r].next /\ (p.msg = "Ack" => p.sn \in Received(sess[r]))
    BY <1>1, <1>6, <2>1 DEF Agreement, Halves, Answers
  <2>3. n \in SeqNos /\ n \in Nat /\ p.una \in Nat /\ sess[r].next \in Nat
    <3>1. n \in SeqNos
      BY <1>4 DEF SessionRec
    <3>2. sess[r] \in SessionRec
      BY <1>1 DEF IInv, Sessions
    <3> QED
      BY <1>6, <3>1, <3>2 DEF SeqNos, PacketRec, SessionRec
  <2>4. CASE n \in f.acked
    <3>1. Has(e) /\ sess[e].acked = f.acked
      BY <1>4, <2>4 DEF Serves
    <3>2. sess[e].peer = p.inst
      BY <2>4, <3>1 DEF Admits, Base, Shapes, Shape
    <3>3. sess[e].acked \subseteq Received(sess[r])
      <4>1. Acked(e)
        BY DEF Agreement, Halves
      <4> QED
        BY <3>1, <3>2, <4>1 DEF Acked, r
    <3> QED
      BY <2>4, <3>1, <3>3
  <2>5. CASE Acks(p, n)
    BY <2>2, <2>3, <2>5 DEF Acks, Received
  <2> QED
    BY <1>4, <2>4, <2>5 DEF Took
<1>11. k.peer = inst[r] /\ ~ forgot[r] => Reading(Off(r), End(r), sess[r].phase, k, th.writes)
  <2> SUFFICES ASSUME p.inst = inst[r], ~ forgot[r]
               PROVE  Reading(Off(r), End(r), sess[r].phase, k, th.writes)
    BY <1>3
  <2> DEFINE off == Off(r)
             end == End(r)
             phase == sess[r].phase
             sh == shell[e]
             q == f.next
  <2>1. Reading(off, end, phase, f, sh.writes)
    BY <1>1, <1>4, ServesReading DEF r
  <2>2. ASSUME NEW m, m \in f.buf \/ Brings(p, m) PROVE Content(off, end, phase, m.sn, m.msg)
    <3>1. CASE m \in f.buf
      BY <2>1, <3>1 DEF Reading
    <3>2. CASE Brings(p, m)
      <4>1. Of(r, p) /\ p.msg \in Messages /\ m.sn = p.sn /\ m.msg = p.msg
        BY <1>1, <1>6, <3>2 DEF Of, Brings
      <4>2. Carries(r)
        BY <1>1 DEF Agreement, Halves
      <4> QED
        BY <1>6, <4>1, <4>2 DEF Carries
    <3> QED
      BY <2>2, <3>1, <3>2
  <2>3. \A i \in 1..Len(msgs) : Content(off, end, phase, q + i - 1, msgs[i])
    <3> SUFFICES ASSUME NEW i \in 1..Len(msgs) PROVE Content(off, end, phase, q + i - 1, msgs[i])
      OBVIOUS
    <3>1. PICK m : (m \in f.buf \/ Brings(p, m)) /\ m.sn = f.next + i - 1 /\ msgs[i] = m.msg
      BY <1>4 DEF Took
    <3>2. Content(off, end, phase, m.sn, m.msg)
      BY <2>2, <3>1
    <3> QED
      BY <3>1, <3>2
  <2>4. /\ off \in {0, 1} /\ end \in Nat /\ end >= off /\ q \in Nat /\ recv.phase # "None"
        /\ At(off, end, phase, q, recv.phase, sh.writes) /\ Sound(recv, sh, wrote[e])
    BY <1>2, <1>4, <1>5, <1>7, <2>1 DEF Reading
  <2>5. read = ReadMessages([s |-> recv, sh |-> sh], msgs) /\ read.s = t /\ read.sh = th
    OBVIOUS
  <2> HIDE DEF off, end, phase, sh, q
  <2>6. At(off, end, phase, q + Len(msgs), t.phase, th.writes)
    <3>1. At(off, end, phase, q + Len(msgs), read.s.phase, read.sh.writes)
      <4>1. wrote[e] \in Nat /\ msgs \in Seq(Messages)
        BY <1>4, <1>7
      <4> QED
        BY ONLY <2>3, <2>4, <2>5, <4>1, ReadFollows
    <3> QED
      BY <2>5, <3>1
  <2>7. k.next = q + Len(msgs)
    BY <1>3, <1>4 DEF q
  <2>8. \A m \in k.buf : Content(off, end, phase, m.sn, m.msg)
    BY <1>3, <1>4, <2>2 DEF Took
  <2>9. Reading(off, end, phase, k, th.writes)
    BY <1>3, <2>6, <2>7, <2>8 DEF Reading
  <2> QED
    BY <2>9 DEF off, end, phase
<1>12. Has(e) => /\ sess[e].next <= k.next /\ Received(sess[e]) \subseteq Received(k)
                 /\ sess[e].peer \in {0, k.peer}
  <2> SUFFICES ASSUME Has(e)
               PROVE  /\ sess[e].next <= k.next /\ Received(sess[e]) \subseteq Received(k)
                      /\ sess[e].peer \in {0, k.peer}
    OBVIOUS
  <2>1. sess[e].next = f.next /\ sess[e].buf = f.buf
    BY <1>4 DEF Serves
  <2>2. sess[e].next <= k.next
    BY <1>3, <1>4, <1>5, <2>1
  <2>3. Received(sess[e]) = Received(f) /\ Received(k) = Received(recv)
    BY <1>3, <2>1 DEF Received
  <2> QED
    BY <1>3, <1>4, <2>2, <2>3 DEF Took, Admits
<1>13. k.phase = "ClosingLocal" => Has(e)
  BY <1>3, <1>4 DEF ReadTo, Serves
<1>14. e = "client" => k.phase # "PendingRemote"
  BY <1>1, <1>3, <1>4 DEF ReadTo, Serves, Agreement
<1> QED
  BY <1>3, <1>6, <1>8, <1>9, <1>10, <1>11, <1>12, <1>13, <1>14 DEF Continues, r

\* A packet that is dropped changes nothing.
LEMMA DropKept ==
  ASSUME MaxPast + Skew < TombTicks, IInv, IInv', Base, NEW p \in net, NEW e \in Endpoints, net' = net \ {p},
         UNCHANGED <<inst, wrote, sess, shell, tomb, clean, forgot>>
  PROVE  Kept
<1>1. \A q \in net' : SamePacket(q, q) /\ q \in net
  BY DEF SamePacket
<1>2. Quiet(e)
  BY <1>1 DEF Quiet, Base
<1> QED
  BY <1>2, QuietKept

\* The packets that answer a packet.
LEMMA AnswerMade ==
  ASSUME Types, NEW e \in Endpoints, NEW p \in PacketRec, NEW k \in SessionRec, NEW una \in 0..(MaxData + 2),
         (forgot'[e] /\ k.phase # "None") \/ (una = k.next /\ p.sn \in Received(k)), NEW q, q = Packet(e, "Ack", p.sn, una)
  PROVE  q \in PacketRec /\ MadeOf(e, k, q)
<1>1. p.sn \in SeqNos /\ "Ack" \in Messages \cup {"Ack", "KeepAlive"}
  BY DEF PacketRec
<1> DEFINE sn == p.sn
<1>2. q \in Fresh(e)
  <2> HIDE DEF sn
  <2>1. Packet(e, "Ack", sn, una) \in Fresh(e)
    BY <1>1, PacketType DEF sn
  <2> QED
    BY <2>1 DEF sn
<1>3. /\ q.to = Peer(e) /\ q.inst = inst[e] /\ q.age = (IF e = "client" THEN -Skew ELSE Skew)
      /\ q.msg = "Ack" /\ q.sn = p.sn /\ q.una = una
  BY DEF Packet
<1> QED
  BY <1>2, <1>3 DEF MadeOf, Fresh

\* handle_kcp_packet
LEMMA PacketKept ==
  ASSUME IInv, IInv', Base, NEW p \in net, NEW e \in Endpoints, Admits(e, p), HandleKcpPacket(e, p),
         inst' = inst, wrote' = wrote
  PROVE  Kept
<1> USE Constants
<1> DEFINE f == SessionFor(e, p)
           input == KcpData(KcpAck(f, p), p)
           recv == KcpRecv(input)
           msgs == RecvMessages(input)
           una == input.next + Ready(input)
           acks == IF p.msg \in Messages THEN {Packet(e, "Ack", p.sn, una)} ELSE {}
           read == ReadMessages([s |-> recv, sh |-> shell[e]], msgs)
           final == QueueLocalClose(e, read.s)
           out == acks \cup Flush(e, recv) \cup Flush(e, final)
           lost == read.s = NoSession \/ (Done(final) /\ final.phase = "PendingRemote")
<1>1. /\ Finish(e, final, read.sh, tomb) /\ Transmit(e, net \ {p}, out)
      /\ forgot' = [forgot EXCEPT ![e] = @ \/ lost]
  BY DEF HandleKcpPacket
<1>2. /\ Types /\ Sessions /\ p \in PacketRec /\ tomb \in [Endpoints -> -1..TombTicks] /\ tomb[e] = -1
      /\ wrote[e] \in 0..MaxData /\ wrote[e] \in Nat /\ clean[e] = 0 /\ forgot \in [Endpoints -> BOOLEAN]
  BY WroteType DEF IInv, Types, Admits, Base, Tombs
<1>3. f = SessionFor(e, p) /\ input = KcpData(KcpAck(f, p), p) /\ recv = KcpRecv(input) /\ msgs = RecvMessages(input)
  OBVIOUS
<1>4. read = ReadMessages([s |-> recv, sh |-> shell[e]], msgs) /\ final = QueueLocalClose(e, read.s)
  OBVIOUS
<1> HIDE DEF f, input, recv, msgs, read, final
<1>5. Serves(e, p, f) /\ Sound(f, shell[e], wrote[e]) /\ f.phase # "None" /\ f \in SessionRec
  <2>1. Serves(e, p, f)
    BY <1>2, <1>3, ForServes
  <2>2. Sound(f, shell[e], wrote[e]) /\ f.phase # "None"
    BY <1>2, <1>3, SessionForSound
  <2> QED
    BY <2>1, <2>2 DEF Serves
<1>6. Took(f, p, recv, msgs) /\ input \in SessionRec
  BY <1>2, <1>3, <1>5, InputTook, InputType
<1>7. una = recv.next /\ una \in 0..(MaxData + 2)
  BY <1>3, <1>6, RecvFacts, ReadyFacts
<1>8. /\ Sound(recv, shell[e], wrote[e]) /\ msgs \in Seq(Messages) /\ recv \in SessionRec
      /\ recv.phase = f.phase /\ recv.sent = f.sent
  BY <1>5, <1>6 DEF Sound, Took
<1>9. Sound(read.s, read.sh, wrote[e])
  <2>1. recv.phase \in AllPhases
    BY <1>8 DEF SessionRec
  <2> QED
    BY <1>2, <1>4, <1>8, <2>1, ReadSound
<1>10. ReadTo(recv, shell[e], Len(msgs), e = "server", read.s, read.sh)
  <2> DEFINE opens == e = "server"
  <2>1. ~ opens => \A i \in 1..Len(msgs) : msgs[i] # "Open"
    <3> SUFFICES ASSUME e = "client", NEW i \in 1..Len(msgs) PROVE msgs[i] # "Open"
      BY DEF Endpoints
    <3>1. PICK m : (m \in f.buf \/ Brings(p, m)) /\ msgs[i] = m.msg
      BY <1>6 DEF Took
    <3>2. p.msg # "Open" /\ \A u \in f.buf : u.msg # "Open"
      BY <1>5, ServesMade
    <3>3. Brings(p, m) => m.msg = p.msg
      BY DEF Brings
    <3> QED
      BY <3>1, <3>2, <3>3
  <2>2. opens \in BOOLEAN
    OBVIOUS
  <2> HIDE DEF opens
  <2>3. ReadTo(recv, shell[e], Len(msgs), opens, read.s, read.sh)
    BY ONLY <1>2, <1>4, <1>8, <2>1, <2>2, ReadHandled
  <2> QED
    BY <2>3 DEF opens
<1>11. /\ forgot' \in [Endpoints -> BOOLEAN] /\ (forgot'[e] <=> forgot[e] \/ lost)
       /\ \A x \in Endpoints : x # e => forgot'[x] = forgot[x]
  BY <1>1, <1>2
<1> DEFINE t == read.s
           th == read.sh
<1>12. /\ Sound(final, th, wrote[e]) /\ Full(e, final) /\ final.phase = t.phase /\ Requeued(t, final)
       /\ final \in SessionRec /\ t \in SessionRec
  <2>1. final = QueueLocalClose(e, t) /\ Sound(t, th, wrote[e])
    BY <1>4, <1>9
  <2> HIDE DEF t, th
  <2>2. Sound(final, th, wrote[e]) /\ Full(e, final) /\ final.phase = t.phase
    BY <1>2, <2>1, QueueSound
  <2>3. t \in SessionRec
    BY <2>1 DEF Sound
  <2> QED
    BY <2>1, <2>2, <2>3, QueueRequeued DEF Sound
<1>13. Flush(e, recv) \in SUBSET PacketRec /\ Flush(e, final) \in SUBSET PacketRec
  BY <1>2, <1>8, <1>12, FlushType DEF Fresh
<1> DEFINE rest == net \ {p}
<1>14. rest \in SUBSET net /\ Transmit(e, rest, out)
  BY <1>1
<1>15. ASSUME NEW k \in SessionRec,
              (forgot'[e] /\ k.phase # "None") \/ (una = k.next /\ (p.msg \in Messages => p.sn \in Received(k))),
              \A q \in Flush(e, recv) \cup Flush(e, final) : MadeOf(e, k, q)
       PROVE  Puts(e, k)
  <2> HIDE DEF una
  <2>1. \A q \in acks : q \in PacketRec /\ MadeOf(e, k, q)
    BY <1>2, <1>7, <1>15, AnswerMade
  <2>2. out \in SUBSET PacketRec /\ \A q \in out : MadeOf(e, k, q)
    BY <1>13, <1>15, <2>1
  <2> HIDE DEF out, rest
  <2> QED
    BY <1>2, <1>14, <2>2, TransmitPuts
<1> HIDE DEF una, acks, out, rest
<1>16. CASE t = NoSession
  <2>1. final = NoSession /\ ~ Done(NoSession) /\ forgot'[e]
    BY <1>4, <1>11, <1>16, NothingMade
  <2>2. f.phase = "PendingRemote"
    BY <1>5, <1>8, <1>10, <1>16 DEF ReadTo
  <2>3. /\ sess' = [sess EXCEPT ![e] = NoSession] /\ shell' = [shell EXCEPT ![e] = th]
        /\ tomb' = [tomb EXCEPT ![e] = @] /\ clean' = [clean EXCEPT ![e] = IF tomb'[e] = -1 THEN 0 ELSE @]
    BY <1>1, <2>1 DEF Finish
  <2> HIDE DEF t, th, lost
  <2>4. /\ sess'[e] = NoSession /\ tomb'[e] = -1 /\ clean'[e] = 0 /\ shell'[e] = th
        /\ \A x \in Endpoints : x # e =>
             sess'[x] = sess[x] /\ shell'[x] = shell[x] /\ tomb'[x] = tomb[x] /\ clean'[x] = clean[x]
    BY <1>2, <2>3 DEF Sessions, Types
  <2>5. th.state = "none" => shell[e].state = "none"
    BY <1>10 DEF ReadTo, th
  <2>6. Alone(e)
    BY <1>11, <2>4, <2>5 DEF Alone
  <2> DEFINE w == shell[e].writes
  <2>7. Leaves(e, f, w)
    BY <2>1, <2>4 DEF Leaves
  <2>8. f.peer # 0 /\ f.peer <= inst[Peer(e)] /\ Shape(f, w)
        /\ (e = "client" => (inst["client"] # 1 => f.phase = "PendingRemote") /\ \A m \in f.buf : m.msg # "Open")
        /\ (e = "server" => (f.buf # {} \/ f.phase \in LivePhases => f.peer = 1)
                            /\ \A i \in 1..Len(f.sent) : f.sent[i] # "Open")
    BY <1>5, ServesMade
  <2>9. Made(e, f, w)
    BY <1>5, <2>8 DEF Made
  <2>10. Puts(e, f)
    <3>1. f.sent = <<>>
      BY <2>2, <2>8 DEF Shape
    <3>2. Flush(e, recv) = {} /\ Flush(e, final) = {}
      <4>1. Len(recv.sent) = 0
        BY <1>8, <3>1, NewTypes
      <4>2. Unacked(recv) = {}
        BY <4>1 DEF Unacked
      <4> QED
        BY <2>1, <4>2, NothingMade DEF Flush
    <3> QED
      BY <1>5, <1>15, <2>1, <2>2, <3>2
  <2>11. inst["client"] = 1 => shell'["client"].state # "none"
    <3>1. \E q \in net : q.msg # "KeepAlive"
      BY DEF Admits
    <3> QED
      BY <2>6, <3>1, Began
  <2>12. ASSUME Unbroken, Unbroken', Agreement PROVE Continues(e, f, w)
    <3>1. e = "server" /\ Knows(e)
      BY <1>11, <2>1, <2>12, AdmitsKnows DEF Unbroken, Endpoints
    <3>2. f.acked = {}
      BY <2>2, <2>8 DEF Shape
    <3>3. f.peer = inst[Peer(e)] /\ ~ forgot[Peer(e)] =>
            Reading(Off(Peer(e)), End(Peer(e)), sess[Peer(e)].phase, f, w)
      <4>1. f.peer = p.inst
        BY <1>5 DEF Serves
      <4> QED
        BY <1>5, <2>12, <3>1, <4>1, ServesReading
    <3>4. Has(e) => /\ sess[e].next <= f.next /\ Received(sess[e]) \subseteq Received(f)
                    /\ sess[e].peer \in {0, f.peer}
      <4>1. f.next \in Nat
        BY <1>5 DEF SessionRec
      <4> QED
        BY <1>5, <4>1 DEF Serves, Received, Admits
    <3>5. Grows(wrote[e], sess[e].phase, wrote'[e], f.phase) \/ ~ Has(e)
      BY <1>5 DEF Serves, Grows
    <3>6. \E q \in net : q.to = e /\ q.msg # "KeepAlive" /\ q.inst = f.peer
      BY <1>5 DEF Serves, Admits
    <3> QED
      BY <2>1, <2>2, <3>1, <3>2, <3>3, <3>4, <3>5, <3>6 DEF Continues
  <2>13. Unbroken /\ Agreement => Knows(e)
    BY AdmitsKnows
  <2> HIDE DEF w
  <2> QED
    BY <2>6, <2>7, <2>9, <2>10, <2>11, <2>12, <2>13, StepKept
<1>17. CASE t # NoSession
  <2> DEFINE w == th.writes
  <2>1. t.phase # "None"
    BY <1>9, <1>17 DEF Sound
  <2>2. Handles(e, p, f, recv, msgs, t, th, final)
    BY <1>5, <1>6, <1>10, <1>12, <1>17, <2>1 DEF Handles
  <2>3. Done(final) /\ final.phase = "PendingRemote" => forgot'[e]
    BY <1>11
  <2>4. Finish(e, final, th, tomb)
    BY <1>1
  <2> HIDE DEF lost
  <2>5. /\ Leaves(e, final, w)
        /\ \A x \in Endpoints : x # e =>
             sess'[x] = sess[x] /\ shell'[x] = shell[x] /\ tomb'[x] = tomb[x] /\ clean'[x] = clean[x]
        /\ shell'[e].state = "none" => th.state = "none"
    <3>1. final.phase # "None"
      BY <1>12, <2>1
    <3> HIDE DEF th
    <3> QED
      BY <1>2, <1>12, <2>3, <2>4, <3>1, FinishLeaves
  <2>6. Alone(e)
    BY <1>10, <1>11, <2>5 DEF Alone, ReadTo
  <2> HIDE DEF t, th
  <2>7. /\ final.acked = recv.acked /\ final.buf = recv.buf /\ final.next = recv.next /\ t.sent = f.sent
    BY <2>2, HandledFields
  <2>8. Puts(e, final)
    <3>1. Extends(final, final)
      <4>1. Len(final.sent) \in Nat
        BY <1>12 DEF SessionRec
      <4> QED
        BY <4>1 DEF Extends
    <3>2. Extends(recv, final)
      <4>1. Extends(t, final)
        BY <1>12, RequeuedExtends
      <4> QED
        BY <1>8, <2>7, <4>1 DEF Extends
    <3>3. \A q \in Flush(e, recv) \cup Flush(e, final) : MadeOf(e, final, q)
      BY <1>2, <1>8, <1>12, <3>1, <3>2, FlushMade
    <3>4. Received(final) = Received(recv)
      BY <2>7 DEF Received
    <3>5. una = final.next /\ (p.msg \in Messages => p.sn \in Received(final))
      BY <1>6, <1>7, <2>7, <3>4 DEF Took
    <3> QED
      BY <1>12, <1>15, <3>3, <3>5
  <2>9. Made(e, final, w)
    BY <2>2, HandledMade
  <2>10. ASSUME Unbroken, Agreement PROVE Continues(e, final, w)
    <3>1. t = read.s /\ th = read.sh /\ (forgot[e] => forgot'[e])
      BY <1>11 DEF t, th
    <3> QED
      BY <1>4, <1>8, <2>2, <2>10, <3>1, HandledContinues
  <2>11. inst["client"] = 1 => shell'["client"].state # "none"
    <3>1. \E q \in net : q.msg # "KeepAlive"
      BY DEF Admits
    <3> QED
      BY <2>6, <3>1, Began
  <2>12. Unbroken /\ Agreement => Knows(e)
    BY AdmitsKnows
  <2> HIDE DEF w
  <2> QED
    BY <2>5, <2>6, <2>8, <2>9, <2>10, <2>11, <2>12, StepKept
<1> QED
  BY <1>16, <1>17

\* Receive
LEMMA ReceiveKept ==
  ASSUME MaxPast + Skew < TombTicks, IInv, IInv', Base, NEW p \in net, Receive(p)
  PROVE  Kept
<1> DEFINE e == p.to
<1>1. p \in PacketRec /\ e \in Endpoints
  BY DEF IInv, Types, PacketRec
<1>2. inst' = inst /\ wrote' = wrote
  BY DEF Receive
<1>3. CASE net' = net \ {p} /\ UNCHANGED <<sess, shell, tomb, clean, forgot>>
  BY <1>1, <1>2, <1>3, DropKept
<1>4. CASE /\ p.msg # "KeepAlive" /\ ~ Tombstoned(e) /\ (Has(e) => AcceptedFrom(sess[e], p))
           /\ HandleKcpPacket(e, p)
  <2>1. Admits(e, p)
    BY <1>1, <1>4 DEF Admits, Tombstoned, AcceptedFrom
  <2> HIDE DEF e
  <2> QED
    BY <1>1, <1>2, <1>4, <2>1, PacketKept
<1> QED
  BY <1>3, <1>4 DEF Receive

-----------------------------------------------------------------------------
(* Time, restarts and the first state. *)

\* Two sessions that differ at most in how much time is left.
SameButTime(s, t) ==
  /\ t.phase = s.phase /\ SameStream(s, t) /\ (t = NoSession <=> s = NoSession)

\* A packet a tick later.
Later(p, q) ==
  /\ q.to = p.to /\ q.inst = p.inst /\ q.msg = p.msg /\ q.sn = p.sn /\ q.una = p.una
  /\ q.age = p.age + 1 /\ q.age <= MaxPast

\* What a tick does.
LEMMA TickTime ==
  ASSUME IInv, Tick
  PROVE  /\ \A e \in Endpoints : SameButTime(sess[e], sess'[e])
         /\ \A q \in net' : \E p \in net : Later(p, q)
         /\ \A e \in Endpoints : tomb'[e] = IF tomb[e] > 0 THEN tomb[e] - 1 ELSE tomb[e]
         /\ UNCHANGED <<inst, shell, clean, wrote, forgot>>
<1> USE Constants
<1>1. Types /\ Sessions
  BY DEF IInv
<1>2. ASSUME NEW e \in Endpoints PROVE SameButTime(sess[e], sess'[e])
  <2> DEFINE s == sess[e]
             n == s.timer - 1
             t == [s EXCEPT !.timer = n]
  <2>1. s \in SessionRec /\ (s.phase = "None" => s = NoSession)
    BY <1>1 DEF Sessions, Sound
  <2>2. sess'[e] = IF s.timer > 0 THEN t ELSE s
    BY <2>1 DEF Tick, SessionRec
  <2> HIDE DEF s, n
  <2>3. CASE s.timer > 0
    <3>1. t.phase = s.phase /\ SameStream(s, t)
      BY <2>1 DEF SessionRec, SameStream
    <3>2. s # NoSession
      BY <2>3, NewTypes
    <3>3. t # NoSession
      BY <2>1, <3>1, <3>2, NewTypes
    <3> HIDE DEF t
    <3> QED
      BY <2>2, <2>3, <3>1, <3>2, <3>3 DEF SameButTime, s
  <2>4. CASE ~ (s.timer > 0)
    BY <2>2, <2>4 DEF SameButTime, SameStream, s
  <2> QED
    BY <2>3, <2>4
<1>3. ASSUME NEW q \in net' PROVE \E p \in net : Later(p, q)
  <2>1. net' = {p \in {[u EXCEPT !.age = @ + 1] : u \in net} : p.age <= MaxPast}
    BY DEF Tick
  <2>2. PICK p \in net : q = [p EXCEPT !.age = @ + 1] /\ q.age <= MaxPast
    BY <1>3, <2>1
  <2>3. p \in PacketRec
    BY <1>1 DEF Types
  <2> DEFINE a == p.age + 1
  <2>4. q = [p EXCEPT !.age = a]
    BY <2>2, <2>3 DEF PacketRec
  <2> HIDE DEF a
  <2>5. q.to = p.to /\ q.inst = p.inst /\ q.msg = p.msg /\ q.sn = p.sn /\ q.una = p.una /\ q.age = a
    BY ONLY <2>3, <2>4 DEF PacketRec
  <2> QED
    BY <2>2, <2>5 DEF Later, a
<1> QED
  BY <1>2, <1>3 DEF Tick

\* Tick
LEMMA TickKept == ASSUME IInv, IInv', Base, Tick PROVE Kept
<1> USE Constants
<1>1. /\ \A e \in Endpoints : SameButTime(sess[e], sess'[e])
      /\ \A q \in net' : \E p \in net : Later(p, q)
      /\ \A e \in Endpoints : tomb'[e] = IF tomb[e] > 0 THEN tomb[e] - 1 ELSE tomb[e]
      /\ inst' = inst /\ shell' = shell /\ clean' = clean /\ wrote' = wrote /\ forgot' = forgot
  BY TickTime
<1>2. \A e \in Endpoints :
        /\ sess'[e].phase = sess[e].phase /\ sess'[e].peer = sess[e].peer /\ sess'[e].queued = sess[e].queued
        /\ sess'[e].sent = sess[e].sent /\ sess'[e].acked = sess[e].acked /\ sess'[e].buf = sess[e].buf
        /\ sess'[e].next = sess[e].next /\ (Has(e)' <=> Has(e))
  BY <1>1 DEF SameButTime, SameStream, Has
<1>3. \A e \in Endpoints : /\ tomb[e] \in -1..TombTicks /\ (tomb'[e] = -1 <=> tomb[e] = -1)
                           /\ tomb'[e] >= tomb[e] - 1 /\ tomb'[e] \in Int
  BY <1>1 DEF IInv, Types
<1>4. "client" \in Endpoints /\ "server" \in Endpoints
  BY DEF Endpoints
<1>5. \A p \in net : p.age \in Int
  BY DEF IInv, Types, PacketRec
<1>6. Base'
  <2>1. Shapes'
    BY <1>1, <1>2 DEF Base, Shapes, Shape
  <2>2. Lives'
    BY <1>1, <1>2 DEF Base, Lives, Later
  <2>3. Tombs'
    BY <1>1, <1>2, <1>3 DEF Base, Tombs
  <2>4. FirstClient'
    BY <1>1, <1>2, <1>4 DEF Base, FirstClient, Later
  <2>5. NoOpen'
    BY <1>1, <1>2, <1>4 DEF Base, NoOpen, Later
  <2>6. Young'
    BY <1>1 DEF Young, Later
  <2>7. Before'
    BY <1>1, <1>2, <1>3 DEF Base, Before, Later
  <2> QED
    BY <1>1, <2>1, <2>2, <2>3, <2>4, <2>5, <2>6, <2>7 DEF Base
<1>7. Unbroken' <=> Unbroken
  BY <1>1 DEF Unbroken
<1>8. ASSUME Agreement PROVE Agreement'
  <2>0. \A x \in Endpoints : End(x)' = End(x) /\ Peer(x)' = Peer(x) /\ Peer(x) \in Endpoints
                             /\ Received(sess[x])' = Received(sess[x]) /\ Received(sess'[x]) = Received(sess[x])
    BY <1>1, <1>2, PeerType DEF End, Received
  <2>1. ASSUME NEW x \in Endpoints
        PROVE  Sends(x)' /\ Carries(x)' /\ Answers(x)' /\ Acked(x)' /\ Follows(x)' /\ Agreed(x)'
    <3>0. /\ Sends(x) /\ Carries(x) /\ Answers(x) /\ Acked(x) /\ Follows(x) /\ Agreed(x)
          /\ (Forgotten' <=> Forgotten)
      BY <1>1, <1>8 DEF Agreement, Halves, Forgotten
    <3>1. Sends(x)'
      <4>1. Has(x) /\ ~ forgot[x] => Streams(Off(x), End(x), sess[x].phase, sess[x])
        BY <3>0 DEF Sends
      <4>2. /\ sess'[x].phase = sess[x].phase /\ sess'[x].sent = sess[x].sent
            /\ sess'[x].queued = sess[x].queued
        BY <1>2
      <4>3. Streams(Off(x), End(x), sess[x].phase, sess[x]) =>
              Streams(Off(x), End(x), sess'[x].phase, sess'[x])
        BY ONLY <4>2 DEF Streams
      <4> QED
        BY <1>1, <1>2, <2>0, <4>1, <4>3 DEF Sends, Off, Streams, Content
    <3>2. Carries(x)'
      <4> SUFFICES ASSUME ~ forgot[x], NEW q \in net', Of(x, q), q.msg \in Messages
                   PROVE  Content(Off(x), End(x), sess[x].phase, q.sn, q.msg)
        BY <1>1, <1>2, <2>0 DEF Carries, Content, Of
      <4>1. PICK p \in net : Later(p, q)
        BY <1>1
      <4>2. Of(x, p) /\ p.msg = q.msg /\ p.sn = q.sn
        BY <4>1 DEF Of, Later
      <4> QED
        BY <3>0, <4>2 DEF Carries
    <3>3. Answers(x)'
      <4> SUFFICES ASSUME Has(x), ~ forgot[x], NEW q \in net', Of(x, q)
                   PROVE  q.una <= sess[x].next /\ (q.msg = "Ack" => q.sn \in Received(sess[x]))
        BY <1>1, <1>2, <2>0 DEF Answers, Of
      <4>1. PICK p \in net : Later(p, q)
        BY <1>1
      <4>2. Of(x, p) /\ p.msg = q.msg /\ p.sn = q.sn /\ p.una = q.una
        BY <4>1 DEF Of, Later
      <4> QED
        BY <3>0, <4>2 DEF Answers
    <3>4. Acked(x)'
      BY <1>1, <1>2, <2>0, <3>0 DEF Acked
    <3>5. Follows(x)'
      BY <1>1, <1>2, <2>0, <3>0 DEF Follows, Reading, At, Content
    <3>6. Agreed(x)'
      BY <1>1, <1>2, <2>0, <3>0 DEF Agreed
    <3> QED
      BY <3>1, <3>2, <3>3, <3>4, <3>5, <3>6
  <2>2. Idle'
    <3> SUFFICES ASSUME ~ Has("client") PROVE Idle'
      BY <1>2, <1>4 DEF Idle
    <3>1. CASE tomb["client"] = -1 /\ ~ Has("server") /\ \A p \in net : p.msg = "KeepAlive"
      <4>1. tomb'["client"] = -1 /\ ~ Has("server")'
        BY <1>2, <1>3, <1>4, <3>1
      <4>2. \A q \in net' : q.msg = "KeepAlive"
        BY <1>1, <3>1 DEF Later
      <4> QED
        BY <4>1, <4>2 DEF Idle
    <3>2. CASE /\ tomb["client"] # -1
               /\ \A p \in net : p.to = "server" /\ p.msg # "KeepAlive" => p.age >= TombTicks - tomb["client"] - Skew
      <4>1. tomb'["client"] # -1
        BY <1>3, <1>4, <3>2
      <4>2. ASSUME NEW q \in net', q.to = "server", q.msg # "KeepAlive"
            PROVE  q.age >= TombTicks - tomb'["client"] - Skew
        <5>1. PICK p \in net : Later(p, q)
          BY <1>1
        <5>2. p.age >= TombTicks - tomb["client"] - Skew /\ q.age = p.age + 1 /\ p.age \in Int
          BY <1>5, <3>2, <4>2, <5>1 DEF Later
        <5>3. tomb["client"] \in Int /\ tomb'["client"] \in Int /\ tomb'["client"] >= tomb["client"] - 1
          BY <1>3, <1>4
        <5> QED
          BY <5>2, <5>3
      <4> QED
        BY <4>1, <4>2 DEF Idle
    <3> QED
      BY <1>8, <3>1, <3>2 DEF Agreement, Idle
  <2>3. Unopened'
    <3>1. \A q \in net' : Of("server", q)' => \E p \in net : Of("server", p)
      BY <1>1 DEF Of, Later
    <3>2. (\A p \in net : p.to = "server" => p.msg = "KeepAlive") =>
            \A q \in net' : q.to = "server" => q.msg = "KeepAlive"
      BY <1>1 DEF Later
    <3> QED
      BY <1>1, <1>2, <1>3, <1>4, <1>8, <3>1, <3>2 DEF Agreement, Unopened
  <2> QED
    BY <1>2, <1>4, <1>8, <2>1, <2>2, <2>3 DEF Agreement, Halves
<1> QED
  BY <1>6, <1>7, <1>8 DEF Kept

\* Restart
LEMMA RestartKept == ASSUME IInv, IInv', Base, NEW e \in Endpoints, Restart(e) PROVE Kept
<1> USE Constants
<1> DEFINE r == Peer(e)
<1>1. /\ r \in Endpoints /\ r # e /\ Peer(r) = e /\ Endpoints = {e, r}
      /\ (e = "client" /\ r = "server") \/ (e = "server" /\ r = "client")
  BY DEF Peer, Endpoints
<1>2. Types /\ Sessions /\ forgot \in [Endpoints -> BOOLEAN]
  BY DEF IInv, Base
<1>3. /\ sess'[e] = NoSession /\ tomb'[e] = -1 /\ shell'[e] = NewShell /\ clean'[e] = 0 /\ wrote'[e] = 0
      /\ forgot'[e] = FALSE /\ inst'[e] = inst[e] + 1
      /\ sess'[r] = sess[r] /\ tomb'[r] = tomb[r] /\ shell'[r] = shell[r] /\ clean'[r] = clean[r]
      /\ wrote'[r] = wrote[r] /\ forgot'[r] = forgot[r] /\ inst'[r] = inst[r]
      /\ forgot' \in [Endpoints -> BOOLEAN]
  BY <1>1, <1>2 DEF Restart, Types, Sessions
<1>4. \A q \in net' : \E p \in net : SamePacket(p, q)
  <2>1. net' = {IF p.to = e THEN [p EXCEPT !.old = FALSE] ELSE p : p \in net}
    BY DEF Restart
  <2>2. \A p \in net : SamePacket(p, p) /\ SamePacket(p, [p EXCEPT !.old = FALSE])
    BY <1>2 DEF SamePacket, Types, PacketRec
  <2> QED
    BY <2>1, <2>2
<1>5. /\ NoSession.phase = "None" /\ NoSession.peer = 0 /\ NoSession.buf = {} /\ NoSession.next = 0
      /\ NoSession.acked = {} /\ NoSession.sent = <<>> /\ NoSession.queued = FALSE /\ Len(NoSession.sent) = 0
  BY NewTypes DEF NoSession, NewSession
<1>6. /\ \A x \in Endpoints : inst[x] \in Nat \ {0} /\ clean[x] \in Nat /\ sess[x].peer \in Nat
      /\ \A p \in net : p.inst \in Nat /\ p.to \in Endpoints
  <2>1. \A u \in SessionRec : u.peer \in Nat
    BY DEF SessionRec
  <2>2. inst \in [Endpoints -> Instances] /\ clean \in [Endpoints -> 0..MaxInst] /\ net \in SUBSET PacketRec
    BY <1>2 DEF Types
  <2>3. Instances \subseteq Nat \ {0}
    BY DEF Instances
  <2>4. \A x \in Endpoints : inst[x] \in Nat \ {0} /\ clean[x] \in Nat
    <3>1. \A x \in Endpoints : inst[x] \in Instances /\ clean[x] \in 0..MaxInst
      BY <2>2
    <3>2. 0..MaxInst \subseteq Nat
      OBVIOUS
    <3> QED
      BY <2>3, <3>1, <3>2
  <2>5. \A p \in net : p.inst \in Nat /\ p.to \in Endpoints
    BY <2>2, <2>3 DEF PacketRec
  <2> QED
    BY <1>2, <2>1, <2>4, <2>5 DEF Sessions
<1>7. /\ ~ Has(e)' /\ (Has(r)' <=> Has(r))
  BY <1>3 DEF Has
<1>8. \A p \in net : p.inst <= inst[Peer(p.to)]
  BY DEF Base, Lives
<1>9. sess[r].peer <= inst[e] /\ clean[r] <= inst[e]
  BY <1>1 DEF Base, Lives
<1> HIDE DEF r
<1>10. \A q \in net' : q.inst <= inst[Peer(q.to)] /\ q.to \in Endpoints /\ q.inst \in Nat
  BY <1>4, <1>6, <1>8 DEF SamePacket
<1>11. \A x \in Endpoints : inst[x] <= inst'[x]
  BY <1>1, <1>3, <1>6
<1>12. Base'
  <2>1. Shapes'
    <3>1. Shape(sess'[e], shell'[e].writes)
      BY <1>3, <1>5 DEF Shape
    <3>2. Shape(sess'[r], shell'[r].writes)
      BY <1>1, <1>3 DEF Base, Shapes
    <3>3. \A x \in Endpoints : Shape(sess'[x], shell'[x].writes)
      BY <1>1, <3>1, <3>2
    <3> QED
      BY <3>3 DEF Shapes, Shape
  <2>2. Lives'
    <3>1. \A q \in net' : q.inst <= inst'[Peer(q.to)]
      <4> SUFFICES ASSUME NEW q \in net' PROVE q.inst <= inst'[Peer(q.to)]
        OBVIOUS
      <4> DEFINE x == Peer(q.to)
      <4>1. x \in Endpoints /\ q.inst <= inst[x] /\ q.inst \in Nat
        BY <1>10, PeerType
      <4>2. inst[x] <= inst'[x] /\ inst[x] \in Int /\ inst'[x] \in Int
        BY <1>1, <1>3, <1>6, <1>11, <4>1
      <4> HIDE DEF x
      <4>3. q.inst <= inst'[x]
        BY <4>1, <4>2
      <4> QED
        BY <4>3 DEF x
    <3>2. sess'[e].peer <= inst'[Peer(e)] /\ clean'[e] <= inst'[Peer(e)]
      BY <1>1, <1>3, <1>5, <1>6 DEF r
    <3>3. sess'[r].peer <= inst'[Peer(r)] /\ clean'[r] <= inst'[Peer(r)]
      BY <1>1, <1>3, <1>6, <1>9
    <3> QED
      BY <1>1, <3>1, <3>2, <3>3 DEF Lives
  <2>3. Tombs'
    <3>1. clean'[r] # 0 => tomb'[r] # -1
      BY <1>1, <1>3 DEF Base, Tombs
    <3>2. Has(r)' => tomb'[r] = -1
      BY <1>1, <1>3, <1>7 DEF Base, Tombs
    <3> QED
      BY <1>1, <1>3, <1>7, <3>1, <3>2 DEF Tombs
  <2>4. FirstClient'
    <3>1. inst'["client"] # 1 => sess'["client"].phase \in {"None", "PendingRemote"} /\ clean'["client"] = 0
      BY <1>1, <1>3, <1>5 DEF Base, FirstClient
    <3>2. \A q \in net' : q.to = "server" /\ q.msg \in Messages => q.inst = 1
      BY <1>4 DEF Base, FirstClient, SamePacket
    <3>3. sess'["server"].buf # {} \/ sess'["server"].phase \in LivePhases => sess'["server"].peer = 1
      BY <1>1, <1>3, <1>5 DEF Base, FirstClient, LivePhases
    <3>4. clean'["server"] \in {0, 1}
      BY <1>1, <1>3 DEF Base, FirstClient
    <3> QED
      BY <3>1, <3>2, <3>3, <3>4 DEF FirstClient
  <2>5. NoOpen'
    <3>1. \A q \in net' : q.to = "client" => q.msg # "Open"
      BY <1>4 DEF Base, NoOpen, SamePacket
    <3>2. \A m \in sess'["client"].buf : m.msg # "Open"
      BY <1>1, <1>3, <1>5 DEF Base, NoOpen
    <3>3. \A i \in 1..Len(sess'["server"].sent) : sess'["server"].sent[i] # "Open"
      <4>1. CASE e = "server"
        <5>1. Len(sess'["server"].sent) = 0
          BY <1>3, <1>5, <4>1
        <5> QED
          BY <5>1
      <4>2. CASE r = "server"
        BY <1>3, <4>2 DEF Base, NoOpen
      <4> QED
        BY <1>1, <4>1, <4>2
    <3> QED
      BY <3>1, <3>2, <3>3 DEF NoOpen
  <2>6. Young'
    BY <1>4 DEF Base, Young, SamePacket
  <2>7. Before'
    <3> SUFFICES ASSUME inst'["client"] = 1, shell'["client"].state = "none"
                 PROVE  /\ \A x \in Endpoints : ~ Has(x)' /\ tomb'[x] = -1 /\ clean'[x] = 0 /\ wrote'[x] = 0 /\ ~ forgot'[x]
                        /\ \A q \in net' : q.msg = "KeepAlive"
      BY DEF Before
    <3>1. e = "server" /\ r = "client"
      BY <1>1, <1>3, <1>6
    <3>2. /\ ~ Has(r) /\ tomb[r] = -1 /\ clean[r] = 0 /\ wrote[r] = 0 /\ ~ forgot[r]
          /\ \A p \in net : p.msg = "KeepAlive"
      BY <1>1, <1>3, <3>1 DEF Base, Before
    <3>3. \A q \in net' : q.msg = "KeepAlive"
      BY <1>4, <3>2 DEF SamePacket
    <3> QED
      BY <1>1, <1>3, <1>7, <3>2, <3>3
  <2> QED
    BY <1>3, <2>1, <2>2, <2>3, <2>4, <2>5, <2>6, <2>7 DEF Base
<1>13. Unbroken' => Unbroken /\ e = "server" /\ r = "client"
  <2> SUFFICES ASSUME inst'["client"] = 1, ~ forgot'["client"] PROVE Unbroken /\ e = "server" /\ r = "client"
    BY DEF Unbroken
  <2>1. e # "client"
    BY <1>3, <1>6
  <2> QED
    BY <1>1, <1>3, <2>1 DEF Unbroken
<1>14. ASSUME Unbroken, Unbroken', Agreement PROVE Agreement'
  <2>1. e = "server" /\ r = "client" /\ Peer(e) = r
    BY <1>13, <1>14 DEF r
  <2>2. inst'[e] \notin {0, sess[r].peer, clean[r]}
    BY <1>1, <1>3, <1>6, <1>9
  <2>3. \A q \in net' : ~ Of(e, q)'
    <3> SUFFICES ASSUME NEW q \in net', q.to = r, q.inst = inst'[e] PROVE FALSE
      BY <2>1 DEF Of, Peer
    <3> QED
      BY <1>1, <1>3, <1>6, <1>10
  <2>4. \A q \in net' : Of(r, q)' => \E p \in net : SamePacket(p, q) /\ Of(r, p)
    BY <1>3, <1>4 DEF Of, SamePacket
  <2>5. Sends(r) /\ Carries(r) /\ Answers(r) /\ Idle
    BY <1>1, <1>14 DEF Agreement, Halves
  <2>6. End(r)' = End(r)
    BY <1>3 DEF End
  <2>7. Sends(r)'
    BY <1>3, <1>7, <2>5, <2>6 DEF Sends, Streams, Content
  <2>8. Carries(r)'
    <3> SUFFICES ASSUME ~ forgot[r], NEW q \in net', Of(r, q)', q.msg \in Messages
                 PROVE  Content(Off(r), End(r), sess[r].phase, q.sn, q.msg)
      BY <1>3, <2>6 DEF Carries, Content
    <3>1. PICK p \in net : SamePacket(p, q) /\ Of(r, p)
      BY <2>4
    <3> QED
      BY <2>5, <3>1 DEF Carries, SamePacket
  <2>9. Answers(r)'
    <3> SUFFICES ASSUME Has(r), ~ forgot[r], NEW q \in net', Of(r, q)'
                 PROVE  q.una <= sess[r].next /\ (q.msg = "Ack" => q.sn \in Received(sess[r]))
      BY <1>3, <1>7 DEF Answers, Received
    <3>1. PICK p \in net : SamePacket(p, q) /\ Of(r, p)
      BY <2>4
    <3> QED
      BY <2>5, <3>1 DEF Answers, SamePacket
  <2>10. Acked(r)' /\ Follows(r)' /\ Agreed(r)'
    <3>1. Peer(r)' = e
      BY <1>1 DEF Peer
    <3>2. Acked(r)'
      BY <1>7, <3>1 DEF Acked
    <3>3. Follows(r)'
      BY <1>3, <2>2, <3>1 DEF Follows
    <3>4. Agreed(r)'
      BY <1>7, <3>1 DEF Agreed
    <3> QED
      BY <3>2, <3>3, <3>4
  <2>11. Sends(e)' /\ Carries(e)' /\ Answers(e)' /\ Acked(e)' /\ Follows(e)' /\ Agreed(e)'
    BY <1>3, <1>7, <2>3 DEF Sends, Carries, Answers, Acked, Follows, Agreed
  <2>12. Halves'
    BY <1>1, <2>7, <2>8, <2>9, <2>10, <2>11 DEF Halves
  <2>13. Idle'
    <3>1. (\A p \in net : p.msg = "KeepAlive") => \A q \in net' : q.msg = "KeepAlive"
      BY <1>4 DEF SamePacket
    <3>2. ASSUME \A p \in net : p.to = "server" /\ p.msg # "KeepAlive" => p.age >= TombTicks - tomb["client"] - Skew
          PROVE  \A q \in net' : q.to = "server" /\ q.msg # "KeepAlive" => q.age >= TombTicks - tomb["client"] - Skew
      BY <1>4, <3>2 DEF SamePacket
    <3> QED
      BY <1>3, <1>7, <2>1, <2>5, <3>1, <3>2 DEF Idle
  <2>14. Unopened'
    BY <1>3, <1>7, <2>1, <2>2, <2>3 DEF Unopened
  <2> QED
    BY <1>3, <1>14, <2>1, <2>12, <2>13, <2>14 DEF Agreement
<1> QED
  BY <1>12, <1>13, <1>14 DEF Kept

\* At first nobody knows of a conversation.
LEMMA InitAgrees == ASSUME Init PROVE Base /\ Agreement
<1> USE Constants
<1>1. \A e \in Endpoints : /\ inst[e] = 1 /\ sess[e] = NoSession /\ tomb[e] = -1 /\ clean[e] = 0 /\ wrote[e] = 0
                           /\ forgot[e] = FALSE /\ ~ Has(e)
  BY DEF Init, Has
<1>2. net = {} /\ forgot \in [Endpoints -> BOOLEAN] /\ "client" \in Endpoints /\ "server" \in Endpoints
  BY DEF Init, Endpoints
<1>3. /\ NoSession.phase = "None" /\ NoSession.peer = 0 /\ NoSession.buf = {} /\ NoSession.next = 0
      /\ NoSession.acked = {} /\ NoSession.sent = <<>> /\ NoSession.queued = FALSE /\ Len(NoSession.sent) = 0
  BY NewTypes DEF NoSession, NewSession
<1>4. \A n : Shape(NoSession, n)
  BY <1>3 DEF Shape
<1>5. \A e \in Endpoints : Peer(e) \in Endpoints
  BY PeerType
<1>6. Shapes
  BY <1>1, <1>4 DEF Shapes
<1>7. Lives /\ Tombs /\ FirstClient /\ Young /\ Before
  BY <1>1, <1>2, <1>3, <1>5 DEF Lives, Tombs, FirstClient, Young, Before, LivePhases
<1>8. NoOpen
  <2>1. 1..Len(sess["server"].sent) = {}
    BY <1>1, <1>2, <1>3
  <2> QED
    BY <1>1, <1>2, <1>3, <2>1 DEF NoOpen
<1>9. Halves
  BY <1>1, <1>2 DEF Halves, Sends, Carries, Answers, Acked, Follows, Agreed
<1>10. Idle /\ Unopened /\ sess["client"].phase # "PendingRemote"
  BY <1>1, <1>2, <1>3 DEF Idle, Unopened
<1> QED
  BY <1>2, <1>6, <1>7, <1>8, <1>9, <1>10 DEF Base, Agreement

\* Every step keeps what is known of the conversation.
LEMMA NextKept ==
  ASSUME MaxPast + Skew < TombTicks PROVE IInv /\ IInv' /\ Base /\ [Next]_vars => Kept
<1> SUFFICES ASSUME IInv, IInv', Base, [Next]_vars PROVE Kept
  OBVIOUS
<1>1. CASE SessionOpen
  BY <1>1, OpenKept
<1>2. ASSUME NEW e \in Endpoints, SessionWrite(e) PROVE Kept
  BY <1>2, WriteKept
<1>3. ASSUME NEW e \in Endpoints, SessionClose(e) PROVE Kept
  BY <1>3, CloseKept
<1>4. ASSUME NEW p \in net, Receive(p) PROVE Kept
  BY <1>4, ReceiveKept
<1>5. ASSUME NEW e \in Endpoints, Poll(e) PROVE Kept
  BY <1>5, PollKept
<1>6. ASSUME NEW e \in Endpoints, Restart(e) PROVE Kept
  BY <1>6, RestartKept
<1>7. CASE Tick
  BY <1>7, TickKept
<1>8. CASE UNCHANGED vars
  <2>1. "client" \in Endpoints /\ \A q \in net' : SamePacket(q, q) /\ q \in net
    BY <1>8 DEF vars, Endpoints, SamePacket
  <2>2. Quiet("client")
    BY <1>8, <2>1 DEF vars, Quiet, Base
  <2> QED
    BY <2>1, <2>2, QuietKept
<1> QED
  BY <1>1, <1>2, <1>3, <1>4, <1>5, <1>6, <1>7, <1>8 DEF Next

\* The two halves agree while the client that opened the conversation runs and
\* has not given it up.
BothHalves == IInv /\ Base /\ (Unbroken => Agreement)

\* The invariant of the conversation: what each half sends is what its shell
\* wrote, what is in flight and what was read is of that stream, and nothing is
\* acknowledged that the peer does not have.
THEOREM HalvesAgree ==
  ASSUME MaxPast + Skew < TombTicks
  PROVE  Spec => []BothHalves
<1>1. Init => BothHalves
  BY InitInv, InitAgrees DEF BothHalves
<1>2. BothHalves /\ [Next]_vars => BothHalves'
  BY NextInv, NextKept DEF BothHalves, Kept
<1> QED
  BY <1>1, <1>2, PTL DEF Spec

\* A session whose messages were acknowledged by the instance its peer still is
\* has them received there, in order or not: parse_una and parse_ack never take
\* the acknowledgement of another life, if tombstones outlive the freshness
\* window and the distance of the clocks.
THEOREM AcknowledgedIsReceived ==
  ASSUME MaxPast + Skew < TombTicks
  PROVE  Spec => []AcksAreBound
<1>1. BothHalves => AcksAreBound
  <2> SUFFICES ASSUME BothHalves, NEW e \in Endpoints, Has(e), sess[e].acked # {}, sess[e].peer = inst[Peer(e)],
                      ~ Forgotten, Has(Peer(e)), NEW n \in sess[e].acked
               PROVE  n < sess[Peer(e)].next \/ \E m \in sess[Peer(e)].buf : m.sn = n
    BY DEF AcksAreBound
  <2>1. IInv /\ Base /\ (Unbroken => Agreement)
    BY DEF BothHalves
  <2>2. sess[e].phase \in LivePhases
    <3>1. sess[e].phase \in AllPhases /\ Shape(sess[e], shell[e].writes)
      BY <2>1 DEF IInv, Sessions, SessionRec, Base, Shapes
    <3> QED
      BY <3>1 DEF AllPhases, Phases, LivePhases, Shape
  <2>3. inst["client"] = 1
    BY <2>1, <2>2 DEF Base, FirstClient, LivePhases, Peer, Endpoints
  <2>4. Agreement /\ ~ forgot[Peer(e)]
    BY <2>1, <2>3, PeerType DEF Unbroken, Forgotten, Endpoints
  <2>5. sess[e].acked \subseteq Received(sess[Peer(e)])
    BY <2>4 DEF Agreement, Halves, Acked
  <2> QED
    BY <2>5 DEF Received
<1> QED
  BY <1>1, HalvesAgree, PTL

\* A local close that ends because everything is acknowledged (wait_snd() == 0)
\* has closed the other half too, after its shell received every Data message.
THEOREM CleanCloseIsSound ==
  ASSUME MaxPast + Skew < TombTicks
  PROVE  Spec => []CleanCloseAgreed
<1>1. BothHalves => CleanCloseAgreed
  <2> SUFFICES ASSUME BothHalves, NEW e \in Endpoints, clean[e] # 0, clean[e] = inst[Peer(e)], SameLife(e), ~ Forgotten
               PROVE  /\ sess[Peer(e)].phase \notin {"Open", "PendingRemote"}
                      /\ sess[Peer(e)].phase = "ClosingRemote" => shell[Peer(e)].writes = wrote[e]
    BY DEF CleanCloseAgreed
  <2> DEFINE r == Peer(e)
             s == sess[r]
  <2>1. IInv /\ Base /\ (Unbroken => Agreement) /\ r \in Endpoints /\ Peer(r) = e
    BY DEF BothHalves, Peer, Endpoints
  <2>2. inst["client"] = 1
    BY <2>1 DEF Base, FirstClient, Peer, Endpoints
  <2>3. Agreement /\ ~ forgot[e]
    BY <2>1, <2>2 DEF Unbroken, Forgotten, Endpoints
  <2>4. CASE ~ Has(r)
    BY <2>4, NewTypes DEF Has
  <2>5. CASE Has(r)
    <3>1. s.peer = inst[e] /\ s.next = End(e) + 1
      <4>1. Agreed(e)
        BY <2>3 DEF Agreement, Halves
      <4> QED
        BY <2>5, <4>1 DEF Agreed, SameLife
    <3>2. At(Off(e), End(e), sess[e].phase, s.next, s.phase, shell[r].writes)
      <4>1. Follows(r)
        BY <2>1, <2>3 DEF Agreement, Halves
      <4> QED
        BY <2>1, <2>3, <2>5, <3>1, <4>1 DEF Follows, Reading
    <3>3. End(e) = Off(e) + wrote[e] /\ Off(e) \in Nat /\ wrote[e] \in Nat
      BY <2>1 DEF End, Off, IInv, Types
    <3> QED
      BY <3>1, <3>2, <3>3 DEF At
  <2> QED
    BY <2>4, <2>5
<1> QED
  BY <1>1, HalvesAgree, PTL

=============================================================================
