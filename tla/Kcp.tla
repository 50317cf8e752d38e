--------------------------------- MODULE Kcp ---------------------------------
(***************************************************************************)
(* The ARQ of crates/raynet-core/src/kcp/kcp.rs as EndpointSession drives  *)
(* it (every input is followed by flush and then by recv until no message  *)
(* is complete): one direction of a session, a sender and a receiver over  *)
(* a network that loses and reorders.                                      *)
(*                                                                         *)
(* Serial numbers live modulo SnMod (2^32).  Each segment carries in       *)
(* `data' the place it has in the stream, which the code does not see:     *)
(* the properties compare it with what is delivered.  A flush chooses      *)
(* which outstanding segments are due (RTO, fast resend) and which of the  *)
(* packets survive.  RayNet never enables congestion control.              *)
(***************************************************************************)
EXTENDS Integers, FiniteSets, Sequences, SequencesExt, FiniteSetsExt

CONSTANTS
  SnMod,       \* 2^32
  FirstSn,     \* serial number of the first segment considered
  SndWnd,      \* send_window
  OwnWnd,      \* receive_window of the sender, its first guess of the other's
  RcvWnd,      \* receive_window of the receiver
  Fragments,   \* numbers of fragments a message may have
  MaxSegments, \* bound: segments written to the stream
  NetCap       \* bound: packets in flight

ASSUME KcpAssumption ==
  /\ {SnMod, SndWnd, OwnWnd, RcvWnd, MaxSegments, NetCap} \subseteq Nat \ {0}
  /\ FirstSn \in 0..(SnMod - 1) /\ Fragments \subseteq 1..255
  \* Both windows are 16-bit numbers, far below half a turn of a serial number.
  /\ 2 * SndWnd < SnMod /\ 2 * RcvWnd < SnMod

VARIABLES
  sndQueue,   \* frg of the segments not yet numbered
  sndBuf,     \* outstanding segments, oldest first
  sndUna, sndNxt, rmtWnd,
  probing,    \* a zero window has been seen: probe_wait # 0
  rcvBuf,     \* segments received out of order
  rcvQueue,   \* segments in order, not yet read
  rcvNxt,
  tell,       \* KCP_ASK_TELL
  net,
  written,    \* history: frg of every segment written
  read        \* history: data of every segment handed to the session

sndVars == <<sndQueue, sndBuf, sndUna, sndNxt, rmtWnd, probing>>
rcvVars == <<rcvBuf, rcvQueue, rcvNxt, tell>>
vars == <<sndVars, rcvVars, net, written, read>>

-----------------------------------------------------------------------------
(* Serial numbers. *)

Add(sn, k) == (sn + k) % SnMod

\* timediff: the signed distance on the circle of serial numbers.
TimeDiff(later, earlier) ==
  LET d == (later - earlier) % SnMod IN IF 2 * d >= SnMod THEN d - SnMod ELSE d

Segment(sn, frg, data) == [sn |-> sn, frg |-> frg, data |-> data]

Push(seg) == [cmd |-> "PUSH", seg |-> seg]
Wask == [cmd |-> "WASK"]

\* Packets to the sender carry the receiver's window and cumulative ack.
Ack(sn, una, wnd) == [cmd |-> "ACK", sn |-> sn, una |-> una, wnd |-> wnd]
Wins(una, wnd) == [cmd |-> "WINS", una |-> una, wnd |-> wnd]

Init ==
  /\ sndQueue = <<>> /\ sndBuf = <<>> /\ sndUna = FirstSn /\ sndNxt = FirstSn
  /\ rmtWnd = OwnWnd /\ probing = FALSE
  /\ rcvBuf = {} /\ rcvQueue = <<>> /\ rcvNxt = FirstSn /\ tell = FALSE
  /\ net = {} /\ written = <<>> /\ read = <<>>

\* Any part of what is sent survives, within the bound on packets in flight; a
\* full network may lose an older packet instead.
Transmit(rest, out, sure) ==
  \E kept \in SUBSET out, lost \in {{}} \cup {{p} : p \in rest} :
    /\ lost # {} => Cardinality(rest) = NetCap
    /\ sure \subseteq kept
    /\ net' = (rest \ lost) \cup kept
    /\ Cardinality(net') <= NetCap

-----------------------------------------------------------------------------
(* The sender. *)

WaitSnd == Len(sndBuf) + Len(sndQueue)

\* Mutant: the windows are not consulted at all.
SendableAll(nxt, una, wnd, queued) == queued

\* How many segments flush moves from snd_queue into the window.
Sendable(nxt, una, wnd, queued) ==
  LET cwnd == Min({SndWnd, wnd})
  IN  CHOOSE k \in 0..queued :
        /\ k = queued \/ TimeDiff(Add(nxt, k), Add(una, cwnd)) >= 0
        /\ \A j \in 0..(k - 1) : TimeDiff(Add(nxt, j), Add(una, cwnd)) < 0

\* Mutant: a zero window is waited for, never asked about.
ProbesNever(wnd, armed) == {}

\* probe_wnd_size: the first flush arms the timer, a later one may ask.
Probes(wnd, armed) == IF wnd = 0 /\ armed THEN {Wask} ELSE {}

\* flush of the sender with the given queue, outstanding segments and window;
\* `sure' are packets of it that are not lost.
FlushSender(queue, buf, una, wnd, rest, sure) ==
  LET k    == Sendable(sndNxt, una, wnd, Len(queue))
      new  == [i \in 1..k |-> Segment(Add(sndNxt, i - 1), queue[i],
                                      Len(written') - Len(queue) + i)]
      full == buf \o new
  IN  /\ sndQueue' = SubSeq(queue, k + 1, Len(queue))
      /\ sndBuf' = full
      /\ sndNxt' = Add(sndNxt, k)
      /\ sndUna' = una
      /\ rmtWnd' = wnd
      /\ probing' = (wnd = 0)
      /\ Transmit(rest, {Push(full[i]) : i \in DOMAIN full} \cup Probes(wnd, probing), sure)

\* send, then flush_now; the endpoint refuses what exceeds the send window and
\* a message of OwnWnd or more fragments is an error (as is one of 256, which
\* KcpAssumption leaves out).
Send(count) ==
  /\ WaitSnd + count <= SndWnd
  /\ count < OwnWnd
  /\ Len(written) + count <= MaxSegments
  /\ LET frgs == [i \in 1..count |-> count - i]
     IN  /\ written' = written \o frgs
         /\ FlushSender(sndQueue \o frgs, sndBuf, sndUna, rmtWnd, net, {})
  /\ UNCHANGED <<rcvVars, read>>

\* The segments at the front of the buffer that lie before una.
Passed(buf, una) ==
  CHOOSE k \in 0..Len(buf) :
    /\ \A i \in 1..k : TimeDiff(una, buf[i].sn) > 0
    /\ k = Len(buf) \/ TimeDiff(una, buf[k + 1].sn) <= 0

\* Mutant: the cumulative ack also removes the segment the peer waits for.
ParseUnaBeyond(buf, una) == SubSeq(buf, Passed(buf, Add(una, 1)) + 1, Len(buf))

ParseUna(buf, una) == SubSeq(buf, Passed(buf, una) + 1, Len(buf))

\* parse_ack walks the buffer comparing plain u32 values, so the entries after
\* a wrap of the serial number are not found behind those before it.
ParseAck(buf, sn) ==
  LET found == {i \in DOMAIN buf : buf[i].sn = sn /\ \A j \in 1..(i - 1) : buf[j].sn < sn}
  IN  IF found = {} THEN buf ELSE RemoveAt(buf, CHOOSE i \in found : TRUE)

ShrinkBuf(buf) == IF buf = <<>> THEN sndNxt ELSE buf[1].sn

\* input of an ACK or WINS segment, then flush_now.
RecvAck(p) ==
  /\ p.cmd \in {"ACK", "WINS"}
  /\ LET afterUna == ParseUna(sndBuf, p.una)
         inRange  == /\ p.cmd = "ACK"
                     /\ TimeDiff(p.sn, ShrinkBuf(afterUna)) >= 0
                     /\ TimeDiff(p.sn, sndNxt) < 0
         after    == IF inRange THEN ParseAck(afterUna, p.sn) ELSE afterUna
     IN  /\ written' = written
         /\ FlushSender(sndQueue, after, ShrinkBuf(after), p.wnd, net \ {p}, {})
  /\ UNCHANGED <<rcvVars, read>>

\* poll: update, which flushes.
PollSender(sure) ==
  /\ written' = written
  /\ FlushSender(sndQueue, sndBuf, sndUna, rmtWnd, net, sure)
  /\ UNCHANGED <<rcvVars, read>>

-----------------------------------------------------------------------------
(* The receiver. *)

WndUnused(queue) == IF Len(queue) < RcvWnd THEN RcvWnd - Len(queue) ELSE 0

\* move_buf: the run of segments in rcv_buf that continues rcv_nxt, as far as
\* the queue has room.
Movable(buf, queue, nxt) ==
  CHOOSE k \in 0..RcvWnd :
    /\ \A j \in 0..(k - 1) : \E s \in buf : s.sn = Add(nxt, j)
    /\ Len(queue) + k <= RcvWnd
    /\ Len(queue) + k = RcvWnd \/ ~ \E s \in buf : s.sn = Add(nxt, k)

\* Mutant: the first segment of rcv_buf is moved whatever its number.
MoveBufGap(st) ==
  LET first == CHOOSE s \in st.buf : \A t \in st.buf : TimeDiff(s.sn, t.sn) <= 0
  IN  IF st.buf = {} \/ Len(st.queue) >= RcvWnd THEN st
      ELSE [st EXCEPT !.buf = @ \ {first}, !.queue = Append(@, first), !.nxt = Add(@, 1)]

MoveBuf(st) ==
  LET k == Movable(st.buf, st.queue, st.nxt)
      moved == [i \in 1..k |-> CHOOSE s \in st.buf : s.sn = Add(st.nxt, i - 1)]
  IN  [st EXCEPT !.buf = @ \ Range(moved), !.queue = @ \o moved, !.nxt = Add(@, k)]

InWindow(sn, nxt) == TimeDiff(sn, Add(nxt, RcvWnd)) < 0

\* Mutant: a segment that was read already is stored again.
ParseDataOld(st, seg) ==
  IF \E s \in st.buf : s.sn = seg.sn THEN MoveBuf(st)
  ELSE MoveBuf([st EXCEPT !.buf = @ \cup {seg}])

ParseData(st, seg) ==
  IF TimeDiff(seg.sn, st.nxt) < 0 THEN st
  ELSE IF \E s \in st.buf : s.sn = seg.sn THEN MoveBuf(st)
  ELSE MoveBuf([st EXCEPT !.buf = @ \cup {seg}])

\* The length of the first message of the queue, 0 while fragments are missing.
PeekSize(queue) ==
  IF queue = <<>> \/ Len(queue) < queue[1].frg + 1 THEN 0 ELSE queue[1].frg + 1

\* recv of one complete message, the identity while there is none.
RecvOne(st) ==
  LET k     == PeekSize(st.queue)
      rest  == MoveBuf([st EXCEPT !.queue = SubSeq(@, k + 1, Len(@)),
                                  !.out = @ \o SubSeq(st.queue, 1, k)])
  IN  IF k = 0 THEN st
      ELSE [rest EXCEPT !.tell = @ \/ (Len(st.queue) >= RcvWnd /\ Len(rest.queue) < RcvWnd)]

\* recv_messages: recv until no message is complete.  Each round reads a
\* segment, so the segments held bound the number of rounds.
RecvMessages(st) ==
  LET rounds == Len(st.queue) + Cardinality(st.buf)
      after[i \in 0..rounds] == IF i = 0 THEN st ELSE RecvOne(after[i - 1])
  IN  after[rounds]

\* Store the receiver's state after its flush, reading what is complete.
FinishInput(st) ==
  LET after == RecvMessages([st EXCEPT !.tell = FALSE])
  IN  /\ rcvBuf' = after.buf /\ rcvQueue' = after.queue /\ rcvNxt' = after.nxt
      /\ tell' = after.tell
      /\ read' = read \o after.out

Receiver == [buf |-> rcvBuf, queue |-> rcvQueue, nxt |-> rcvNxt, tell |-> tell, out |-> <<>>]

\* flush of the receiver: pending acks, then WINS if it was asked or is due.
FlushReceiver(st, acked, rest, sure) ==
  LET wnd  == WndUnused(st.queue)
      acks == {Ack(sn, st.nxt, wnd) : sn \in acked}
      told == IF st.tell THEN {Wins(st.nxt, wnd)} ELSE {}
  IN  Transmit(rest, acks \cup told,
               IF ~ sure THEN {} ELSE IF acks # {} THEN acks ELSE told)

RecvPush(p, sure) ==
  /\ p.cmd = "PUSH"
  /\ LET ok == InWindow(p.seg.sn, rcvNxt)
         st == IF ok THEN ParseData(Receiver, p.seg) ELSE Receiver
     IN  /\ FlushReceiver(st, IF ok THEN {p.seg.sn} ELSE {}, net \ {p}, sure)
         /\ FinishInput(st)
  /\ UNCHANGED <<sndVars, written>>

RecvWask(p, sure) ==
  /\ p.cmd = "WASK"
  /\ LET st == [Receiver EXCEPT !.tell = TRUE]
     IN  /\ FlushReceiver(st, {}, net \ {p}, sure)
         /\ FinishInput(st)
  /\ UNCHANGED <<sndVars, written>>

\* poll of the receiving side: only a pending WINS is sent.
PollReceiver ==
  /\ tell
  /\ FlushReceiver(Receiver, {}, net, FALSE)
  /\ tell' = FALSE
  /\ UNCHANGED <<sndVars, rcvBuf, rcvQueue, rcvNxt, written, read>>

-----------------------------------------------------------------------------
Next ==
  \/ \E count \in Fragments : Send(count)
  \/ PollSender({})
  \/ PollReceiver
  \/ \E p \in net : RecvAck(p)
  \/ \E p \in net : RecvPush(p, FALSE)
  \/ \E p \in net : RecvWask(p, FALSE)

Spec == Init /\ [][Next]_vars

Outstanding == sndBuf # <<>>
Oldest == Push(Head(sndBuf))
AnswersOldest(p) == p.cmd = "ACK" /\ Outstanding /\ p.sn = Head(sndBuf).sn
OpensWindow(p) == p.cmd = "WINS" /\ p.wnd > 0
ProbeDue == Wask \in Probes(rmtWnd, probing) \ net /\ WaitSnd # 0

ResendOldest  == Outstanding /\ PollSender({Oldest})
DeliverOldest == Outstanding /\ \E p \in net : p = Oldest /\ RecvPush(p, TRUE)
DeliverAnswer == \E p \in net : AnswersOldest(p) /\ RecvAck(p)
DeliverProbe  == \E p \in net : RecvWask(p, TRUE)
DeliverWindow == \E p \in net : OpensWindow(p) /\ RecvAck(p)
Deliver == \E p \in net : RecvPush(p, FALSE) \/ RecvWask(p, FALSE) \/ RecvAck(p)

\* The session is polled while it has segments to send, delivery does not stop,
\* and the network does not lose every copy of the oldest segment, of its
\* acknowledgement, of the probe or of the answer to it.  Each line is strong
\* fairness with the condition that enables the action written out, which
\* spares TLC the search for a successor.
Fairness ==
  /\ []<>(Outstanding /\ Oldest \notin net) => []<><<ResendOldest>>_vars
  /\ []<>(Outstanding /\ Oldest \in net) => []<><<DeliverOldest>>_vars
  /\ []<>(\E p \in net : AnswersOldest(p)) => []<><<DeliverAnswer>>_vars
  /\ []<>ProbeDue => []<><<PollSender({Wask})>>_vars
  /\ []<>(Wask \in net) => []<><<DeliverProbe>>_vars
  /\ []<>(\E p \in net : OpensWindow(p)) => []<><<DeliverWindow>>_vars
  /\ []<>(net # {}) => []<><<Deliver>>_vars

FairSpec == Spec /\ Fairness

-----------------------------------------------------------------------------
(* Properties. *)

\* Types of both ends.
TypeOK ==
  /\ {sndUna, sndNxt, rcvNxt} \subseteq 0..(SnMod - 1)
  /\ rmtWnd \in (0..OwnWnd) \cup (0..RcvWnd) /\ {probing, tell} \subseteq BOOLEAN
  /\ Len(rcvQueue) <= RcvWnd /\ Cardinality(rcvBuf) <= RcvWnd
  /\ Len(sndBuf) + Len(sndQueue) <= SndWnd
  /\ Len(written) <= MaxSegments /\ Len(read) <= MaxSegments

\* An acknowledged segment has reached the receiver: what the sender no longer
\* holds was read or waits in the receiver's buffers.
AckedIsHeld ==
  \A d \in 1..(Len(written) - Len(sndQueue)) :
    \/ \E i \in DOMAIN sndBuf : sndBuf[i].data = d
    \/ d <= Len(read)
    \/ \E i \in DOMAIN rcvQueue : rcvQueue[i].data = d
    \/ \E s \in rcvBuf : s.data = d

\* The outstanding segments stay within the two windows' half turn, so no
\* serial number stands for two of them.
WindowsHold ==
  /\ TimeDiff(sndNxt, sndUna) \in 0..SndWnd
  /\ \A i \in DOMAIN sndBuf : TimeDiff(sndBuf[i].sn, sndUna) \in 0..(SndWnd - 1)
  /\ \A s \in rcvBuf : TimeDiff(s.sn, rcvNxt) \in 0..(RcvWnd - 1)

\* Everything written is acknowledged eventually, also when the receiver once
\* announced a zero window and the news of its opening was not sent.
Drains == (WaitSnd > 0) ~> (WaitSnd = 0)

Stream == INSTANCE Stream WITH
  sent <- [i \in DOMAIN written |-> [data |-> i, last |-> written[i] = 0]],
  received <- [i \in DOMAIN read |-> [data |-> read[i].data, last |-> read[i].frg = 0]]

\* What KCP promises a session, across the wrap of serial numbers: messages
\* are read whole, in the order written, without gap, repetition or exchange
\* (module Stream).
ImplementsStream == Stream!Spec
=============================================================================
