------------------------------- MODULE Session -------------------------------
(***************************************************************************)
(* The session life cycle of crates/raynet-core/src/endpoint.rs: two       *)
(* EndpointCores, one conversation opened by the client, and a network     *)
(* that loses, delays and reorders packets while either process may        *)
(* restart.                                                                *)
(*                                                                         *)
(* KCP is abstracted to what the session machine observes: numbered        *)
(* messages, selective and cumulative acknowledgement, delivery in order,  *)
(* retransmission at some time (module Kcp has the windows and timers).    *)
(* Timers hold the ticks that are left and packets and sequence windows    *)
(* their age, so no clock is bounded.  A duplicate is dropped by the       *)
(* sequence filter (theorem AtMostOnce of SequenceFilterProofs), so a      *)
(* packet leaves the network when it is delivered; two windows are kept    *)
(* apart by the sending instance, which is what seq_id identifies.         *)
(***************************************************************************)
EXTENDS Integers, FiniteSets, Sequences

CONSTANTS
  CloseTicks,  \* close_deadline_ms
  TombTicks,   \* SESSION_TOMBSTONE_MS
  MaxPast,     \* MAX_PAST_TICKS
  MaxFuture,   \* MAX_FUTURE_TICKS
  Skew,        \* by how much the client's clock is ahead of the server's
  SendWindow,  \* KcpConfig.send_window of each endpoint
  MaxData,     \* bound: Data messages the two shells write together
  Writers,     \* bound: endpoints whose shells, until a restart, write Data
  MaxInst,     \* bound: starts of each process
  MaxRestarts, \* bound: restarts of the two together
  KeepAlive,   \* endpoints with keepalive_interval_ms # 0
  PromptPoll,  \* the shell polls within the tick in which a deadline passes
  NetCap       \* bound: packets in flight

ASSUME SessionAssumption ==
  /\ {CloseTicks, TombTicks, MaxInst, NetCap} \subseteq Nat \ {0}
  /\ SendWindow \in [{"client", "server"} -> Nat \ {0}]
  /\ {MaxPast, MaxFuture, Skew, MaxData, MaxRestarts} \subseteq Nat
  /\ Writers \subseteq {"client", "server"} /\ KeepAlive \subseteq {"client", "server"}
  /\ PromptPoll \in BOOLEAN

VARIABLES
  inst,     \* instance of each process: its seq_id
  sess,     \* the session of the conversation, NoSession if the map has none
  tomb,     \* ticks left of the conversation's tombstone, -1 without one
  win,      \* age of newest_time in the window of each peer instance, None if absent
  net,      \* packets in flight
  shell,    \* the session as the core's actions show it to the shell
  clean,    \* history: peer instance whose acknowledgements ended a local close,
            \* until the tombstone expires
  wrote,    \* history: Data messages the shell has handed to the core
  forgot    \* history: the core gave up a conversation that lives on elsewhere

vars == <<inst, sess, tomb, win, net, shell, clean, wrote, forgot>>

-----------------------------------------------------------------------------
(* State. *)

Endpoints == {"client", "server"}
Peer(e) == IF e = "client" THEN "server" ELSE "client"
Instances == 1..MaxInst
None == MaxPast + 2  \* no recorded age is that large
Messages == {"Open", "Data", "Close"}
SeqNos == 0..(MaxData + 1)

Phases == {"PendingRemote", "Open", "ClosingLocal", "ClosingRemote"}

\* peer: bound instance or 0; timer: ticks to the close deadline or -1;
\* buf: messages received out of order; next: rcv_nxt.
NewSession(phase) ==
  [phase |-> phase, peer |-> 0, timer |-> -1, queued |-> FALSE,
   sent |-> <<>>, acked |-> {}, buf |-> {}, next |-> 0]

NoSession == NewSession("None")

Has(e) == sess[e] # NoSession

\* writes: WriteSession actions since the last open; late: there was a WriteSession
\* while the shell's session was not open.
NewShell ==
  [state |-> "none", writes |-> 0, late |-> FALSE]

TellOpen(sh) ==
  [sh EXCEPT !.state = "open", !.writes = 0]

TellClose(sh) ==
  [sh EXCEPT !.state = "closed"]

TellWrite(sh) ==
  [sh EXCEPT !.writes = @ + 1, !.late = @ \/ sh.state # "open"]

Init ==
  /\ inst = [e \in Endpoints |-> 1]
  /\ sess = [e \in Endpoints |-> NoSession]
  /\ tomb = [e \in Endpoints |-> -1]
  /\ win = [e \in Endpoints |-> [i \in Instances |-> None]]
  /\ net = {}
  /\ shell = [e \in Endpoints |-> NewShell]
  /\ clean = [e \in Endpoints |-> 0]
  /\ wrote = [e \in Endpoints |-> 0]
  /\ forgot = [e \in Endpoints |-> FALSE]

-----------------------------------------------------------------------------
(* KCP as the session machine sees it. *)

Unacked(s) == {n \in 0..(Len(s.sent) - 1) : n \notin s.acked}

WaitSnd(s) == Cardinality(Unacked(s))

KcpSend(s, msg) == [s EXCEPT !.sent = Append(@, msg)]

\* parse_una and parse_ack
KcpAck(s, p) ==
  [s EXCEPT !.acked = @ \cup {n \in Unacked(s) : n < p.una \/ (p.msg = "Ack" /\ n = p.sn)}]

\* parse_data: an old segment is only acknowledged again.
KcpData(s, p) ==
  IF p.msg \in Messages /\ p.sn >= s.next
  THEN [s EXCEPT !.buf = @ \cup {[sn |-> p.sn, msg |-> p.msg]}]
  ELSE s

\* The length of the run of messages in buf that are now in order.
Ready(s) ==
  CHOOSE k \in 0..(MaxData + 2) :
    /\ \A i \in 0..(k - 1) : \E m \in s.buf : m.sn = s.next + i
    /\ ~ \E m \in s.buf : m.sn = s.next + k

KcpRecv(s) ==
  [s EXCEPT !.next = @ + Ready(s), !.buf = {m \in s.buf : m.sn >= s.next + Ready(s)}]

RecvMessages(s) ==
  [i \in 1..Ready(s) |-> (CHOOSE m \in s.buf : m.sn = s.next + i - 1).msg]

\* A packet of e's current instance; the age starts off by the clocks' distance.
Packet(e, msg, sn, una) ==
  [to |-> Peer(e), inst |-> inst[e], age |-> IF e = "client" THEN -Skew ELSE Skew,
   msg |-> msg, sn |-> sn, una |-> una, old |-> FALSE]

\* What a flush can put on the wire.  Whether a segment is due is a matter of
\* timers, and one that is not due is to the peer the same as one that is lost.
Flush(e, s) == {Packet(e, s.sent[n + 1], n, s.next) : n \in Unacked(s)}

-----------------------------------------------------------------------------
(* The session machine; st = [s, sh, tomb] is one endpoint's part of it. *)

Deadline(s) == s.timer = 0

\* Mutant: the Close is never put into the stream.
QueueLocalCloseNever(e, s) == s

\* Mutant: the Close waits until everything before it is acknowledged.
QueueLocalCloseDrained(e, s) ==
  IF s.phase = "ClosingLocal" /\ ~ s.queued /\ ~ Deadline(s) /\ WaitSnd(s) = 0
  THEN [KcpSend(s, "Close") EXCEPT !.queued = TRUE] ELSE s

\* Mutant: every call queues another Close.
QueueLocalCloseTwice(e, s) ==
  IF s.phase = "ClosingLocal" /\ ~ Deadline(s) /\ WaitSnd(s) < SendWindow[e]
  THEN [KcpSend(s, "Close") EXCEPT !.queued = TRUE] ELSE s

\* queue_local_close
QueueLocalClose(e, s) ==
  IF /\ s.phase = "ClosingLocal" /\ ~ s.queued /\ ~ Deadline(s)
     /\ WaitSnd(s) < SendWindow[e]
  THEN [KcpSend(s, "Close") EXCEPT !.queued = TRUE]
  ELSE s

HandleOpen(s, sh) ==
  IF s.phase = "PendingRemote"
  THEN [s  |-> [s EXCEPT !.phase = "Open", !.timer = -1],
        sh |-> TellOpen(sh)]
  ELSE [s |-> s, sh |-> sh]

\* Mutant: Data that arrives while closing still reaches the shell.
HandleDataAlways(s, sh) == [s |-> s, sh |-> TellWrite(sh)]

HandleData(s, sh) ==
  CASE s.phase = "Open" -> [s |-> s, sh |-> TellWrite(sh)]
    [] s.phase = "PendingRemote" -> [s |-> NoSession, sh |-> sh]
    [] OTHER -> [s |-> s, sh |-> sh]

HandleClose(s, sh) ==
  CASE s.phase = "Open" ->
         [s |-> [s EXCEPT !.phase = "ClosingRemote", !.timer = CloseTicks],
          sh |-> TellClose(sh)]
    [] s.phase = "PendingRemote" -> [s |-> NoSession, sh |-> sh]
    [] OTHER -> [s |-> s, sh |-> sh]

\* handle_session_message; a session removed by an earlier message ignores it.
HandleSessionMessage(st, msg) ==
  CASE st.s = NoSession -> st
    [] msg = "Open"  -> HandleOpen(st.s, st.sh)
    [] msg = "Data"  -> HandleData(st.s, st.sh)
    [] msg = "Close" -> HandleClose(st.s, st.sh)

\* The loop of handle_kcp_packet over the messages kcp.recv returns.
ReadMessages(st, msgs) ==
  LET after[i \in 0..Len(msgs)] ==
        IF i = 0 THEN st ELSE HandleSessionMessage(after[i - 1], msgs[i])
  IN  after[Len(msgs)]

\* The condition of finish_closed_session.
Done(s) ==
  /\ s.phase \notin {"None", "Open"}
  /\ Deadline(s) \/ (s.phase = "ClosingLocal" /\ WaitSnd(s) = 0)

\* Finish e's session if it is done, else store s; sh already holds the events
\* of this call.
Finish(e, s, sh, tombs) ==
  LET done == Done(s)
  IN  /\ sess' = [sess EXCEPT ![e] = IF done THEN NoSession ELSE s]
      /\ shell' = [shell EXCEPT ![e] =
                     IF done /\ s.phase = "ClosingLocal" THEN TellClose(sh) ELSE sh]
      /\ tomb' = [tombs EXCEPT ![e] =
                     IF done /\ s.phase # "PendingRemote" THEN TombTicks ELSE @]
      /\ clean' = [clean EXCEPT ![e] =
                     IF done /\ s.phase = "ClosingLocal" /\ WaitSnd(s) = 0 /\ ~ Deadline(s)
                     THEN s.peer ELSE IF tomb'[e] = -1 THEN 0 ELSE @]

\* This step closes e's session; one still PendingRemote was never open.
Closes(e) == sess[e].phase \notin {"None", "PendingRemote"} /\ sess'[e] = NoSession

\* Packets stamped before e closed its session belong to the old one.
Age(e, packets) ==
  {IF p.to = e /\ Closes(e) THEN [p EXCEPT !.old = TRUE] ELSE p : p \in packets}

\* Any part of what is sent survives, within the bound on packets in flight.
Transmit(e, rest, out) ==
  \E kept \in SUBSET out :
    /\ Cardinality(rest \cup kept) <= NetCap
    /\ net' = Age(e, rest \cup kept)

-----------------------------------------------------------------------------
(* Events from the shell. *)

\* The client opens its one conversation; a restarted client draws other ids.
SessionOpen ==
  /\ inst["client"] = 1 /\ shell["client"].state = "none"
  /\ UNCHANGED <<inst, tomb, win, clean, wrote, forgot>>
  /\ LET s == KcpSend(NewSession("Open"), "Open")
     IN  /\ sess' = [sess EXCEPT !["client"] = s]
         /\ Transmit("client", net, Flush("client", s))
  /\ shell' = [shell EXCEPT !["client"] = TellOpen(@)]

\* One fragment per message: a write that does not fit is refused as blocked.
\* Here and in SessionClose the phase is a debug_assert of the code: the shell's
\* contract, which a release build does not check and the shell does not keep
\* while its writer empties the queue of a session the peer has closed.
SessionWrite(e) ==
  /\ Has(e) /\ sess[e].phase = "Open"
  /\ e \in Writers /\ inst[e] = 1 /\ wrote[e] + wrote[Peer(e)] < MaxData
  /\ WaitSnd(sess[e]) + 1 <= SendWindow[e]
  /\ UNCHANGED <<inst, tomb, win, shell, clean, forgot>>
  /\ LET s == KcpSend(sess[e], "Data")
     IN  /\ sess' = [sess EXCEPT ![e] = s]
         /\ Transmit(e, net, Flush(e, s))
  /\ wrote' = [wrote EXCEPT ![e] = @ + 1]

SessionClose(e) ==
  /\ Has(e) /\ sess[e].phase = "Open"
  /\ UNCHANGED <<inst, tomb, win, shell, clean, wrote, forgot>>
  /\ LET s == QueueLocalClose(e, [sess[e] EXCEPT !.phase = "ClosingLocal", !.timer = CloseTicks])
     IN  /\ sess' = [sess EXCEPT ![e] = s]
         /\ Transmit(e, net, IF s.queued THEN Flush(e, s) ELSE {})

-----------------------------------------------------------------------------
(* A packet arrives. *)

\* Mutant: any instance of the peer may speak for a bound session.
AcceptedFromAny(s, p) == TRUE

\* The peer_seq check of handle_kcp_packet.
AcceptedFrom(s, p) == s.peer \in {0, p.inst}

\* Mutant: no tombstone is looked up.
TombstonedNever(e) == FALSE

Tombstoned(e) == tomb[e] # -1

\* The session the packet goes to: a new PendingRemote one for an unknown id.
SessionFor(e, p) ==
  IF Has(e) THEN [sess[e] EXCEPT !.peer = p.inst]
  ELSE [NewSession("PendingRemote") EXCEPT !.peer = p.inst, !.timer = CloseTicks]

\* note_latest_sequence aside, check_and_insert of a fresh, new packet.
NoteSequence(e, p) ==
  win' = [win EXCEPT ![e][p.inst] = IF p.age < @ THEN p.age ELSE @]

HandleKcpPacket(e, p) ==
  LET input == KcpData(KcpAck(SessionFor(e, p), p), p)
      acks  == IF p.msg \in Messages THEN {Packet(e, "Ack", p.sn, input.next + Ready(input))}
               ELSE {}
      read  == ReadMessages([s |-> KcpRecv(input), sh |-> shell[e]], RecvMessages(input))
      final == QueueLocalClose(e, read.s)
  IN  /\ Finish(e, final, read.sh, tomb)
      /\ Transmit(e, net \ {p}, acks \cup Flush(e, KcpRecv(input)) \cup Flush(e, final))
      /\ forgot' = [forgot EXCEPT ![e] = @ \/ read.s = NoSession \/
                      (Done(final) /\ final.phase = "PendingRemote")]

Receive(p) ==
  LET e == p.to
  IN  /\ p.age \in -MaxFuture..MaxPast
      /\ NoteSequence(e, p)
      /\ IF \/ p.msg = "KeepAlive"
            \/ Tombstoned(e)
            \/ Has(e) /\ ~ AcceptedFrom(sess[e], p)
         THEN net' = net \ {p} /\ UNCHANGED <<sess, shell, tomb, clean, forgot>>
         ELSE HandleKcpPacket(e, p)
      /\ UNCHANGED <<inst, wrote>>

-----------------------------------------------------------------------------
(* Timers. *)

\* remove_expired with SEQUENCE_SOFT_CAP = 1: the oldest expired windows beyond one.
ExpiredSequences(e) ==
  LET open == {i \in Instances : win[e][i] # None}
      old  == {i \in open : win[e][i] > MaxPast}
  IN  IF Cardinality(open) <= 1 THEN {{}}
      ELSE {S \in SUBSET old :
              /\ Cardinality(S) = (IF old = open THEN Cardinality(open) - 1 ELSE Cardinality(old))
              /\ \A i \in S, j \in old \ S : win[e][i] >= win[e][j]}

\* expire_sequences: the session is bound to an instance whose window is gone.
ResetBy(e, gone) == Has(e) /\ sess[e].peer \in gone

\* History: the peer still has the conversation, or packets of it are under way.
LivesOn(e) == Has(Peer(e)) \/ \E p \in net : p.to = e /\ p.msg # "KeepAlive"

\* A keepalive is due when nothing was sent for a while.  Bounds: only a restarted
\* process sends them, its Open has made a first instance known; and of what one
\* poll sends, the network loses either the keepalive or the session's packets.
KeepAlives(e) == IF e \in KeepAlive /\ inst[e] > 1 THEN {{Packet(e, "KeepAlive", 0, 0)}} ELSE {}

\* poll: expire_sequences, tombstones.retain, then the session and a keepalive.
Poll(e) ==
  \E gone \in ExpiredSequences(e) :
    LET reset == ResetBy(e, gone)
        tombs == [tomb EXCEPT ![e] = IF reset THEN TombTicks ELSE IF @ = 0 THEN -1 ELSE @]
        s     == IF reset THEN NoSession ELSE QueueLocalClose(e, sess[e])
        sh    == IF reset /\ sess[e].phase # "PendingRemote" THEN TellClose(shell[e])
                 ELSE shell[e]
    IN  /\ win' = [win EXCEPT ![e] = [i \in Instances |-> IF i \in gone THEN None ELSE @[i]]]
        /\ Finish(e, s, sh, tombs)
        /\ \E out \in {Flush(e, s)} \cup KeepAlives(e) : Transmit(e, net, out)
        /\ forgot' = [forgot EXCEPT ![e] =
                        \/ @
                        \/ Done(s) /\ s.phase = "PendingRemote"
                        \/ tomb[e] = 0 /\ tomb'[e] = -1 /\ LivesOn(e)]
        /\ UNCHANGED <<inst, wrote>>

\* A deadline of next_deadline has passed: session, tombstone or sequence window.
Overdue(e) == (Has(e) /\ Deadline(sess[e])) \/ tomb[e] = 0 \/ ExpiredSequences(e) # {{}}

Older(age) == IF age = None \/ age > MaxPast THEN age ELSE age + 1

\* A tick of every clock.  A packet past its freshness would be refused on arrival.
Tick ==
  /\ PromptPoll => \A e \in Endpoints : ~ Overdue(e)
  /\ net' = {p \in {[q EXCEPT !.age = @ + 1] : q \in net} : p.age <= MaxPast}
  /\ win' = [e \in Endpoints |-> [i \in Instances |-> Older(win[e][i])]]
  /\ sess' = [e \in Endpoints |-> IF sess[e].timer > 0 THEN [sess[e] EXCEPT !.timer = @ - 1]
                                  ELSE sess[e]]
  /\ tomb' = [e \in Endpoints |-> IF tomb[e] > 0 THEN tomb[e] - 1 ELSE tomb[e]]
  /\ UNCHANGED <<inst, shell, clean, wrote, forgot>>

\* A crash and restart: nothing of a core or its shell is persistent, so the
\* new instance has no closed conversation that a packet could revive.
Restart(e) ==
  /\ inst[e] < MaxInst /\ inst[e] + inst[Peer(e)] < 2 + MaxRestarts
  /\ inst' = [inst EXCEPT ![e] = @ + 1]
  /\ sess' = [sess EXCEPT ![e] = NoSession]
  /\ tomb' = [tomb EXCEPT ![e] = -1]
  /\ win' = [win EXCEPT ![e] = [i \in Instances |-> None]]
  /\ shell' = [shell EXCEPT ![e] = NewShell]
  /\ clean' = [clean EXCEPT ![e] = 0]
  /\ wrote' = [wrote EXCEPT ![e] = 0]
  /\ forgot' = [forgot EXCEPT ![e] = FALSE]
  /\ net' = {IF p.to = e THEN [p EXCEPT !.old = FALSE] ELSE p : p \in net}

Next ==
  \/ SessionOpen
  \/ \E e \in Endpoints : SessionWrite(e)
  \/ \E e \in Endpoints : SessionClose(e)
  \/ \E p \in net : Receive(p)
  \/ \E e \in Endpoints : Poll(e)
  \/ \E e \in Endpoints : Restart(e)
  \/ Tick

Spec == Init /\ [][Next]_vars

-----------------------------------------------------------------------------
(* Properties. *)

\* Types of the two cores' session state.
TypeOK ==
  /\ inst \in [Endpoints -> Instances]
  /\ \A e \in Endpoints :
       /\ sess[e].phase \in Phases \cup {"None"}
       /\ sess[e].peer \in 0..MaxInst /\ sess[e].timer \in -1..CloseTicks
       /\ sess[e].acked \subseteq SeqNos /\ sess[e].next \in 0..(MaxData + 2)
       /\ \A m \in sess[e].buf : m.sn \in SeqNos /\ m.msg \in Messages
       /\ tomb[e] \in -1..TombTicks
       /\ \A i \in Instances : win[e][i] \in -MaxFuture..(MaxPast + 1) \cup {None}
       /\ wrote[e] \in 0..MaxData /\ clean[e] \in 0..MaxInst
  /\ \A p \in net : p.age \in -Skew..MaxPast \cup {Skew} /\ p.sn \in SeqNos

\* A tombstone outlives every packet stamped before it (TombTicks against the
\* freshness window): no session of a closed conversation is created again by
\* a packet that was already under way when the conversation was closed.
NoStaleRevival ==
  [][\A e \in Endpoints, p \in net :
       ~ (~ Has(e) /\ Has(e)' /\ p.to = e /\ p.old /\ p \notin net')]_vars

\* A core gave up its half of the conversation while the other half, or packets
\* of it, lived on: a late packet then opens the conversation again.
Forgotten == \E e \in Endpoints : forgot[e]

\* The peer's session, if any, is the other half of the one e's current instance
\* has.  After a restart of e it may be the half of its previous life, whose
\* cumulative acknowledgements e takes for its own.
SameLife(e) == Has(Peer(e)) => sess[Peer(e)].peer \in {0, inst[e]}

\* wait_snd() == 0 is a sound end of a local close: if the peer instance that
\* acknowledged still runs, its session is of the same life and no core forgot
\* the conversation, that session is no longer open, and if the Close is what
\* closed it, its shell has received every Data message first.
CleanCloseAgreed ==
  \A e \in Endpoints :
    clean[e] # 0 /\ clean[e] = inst[Peer(e)] /\ SameLife(e) /\ ~ Forgotten =>
      /\ sess[Peer(e)].phase \notin {"Open", "PendingRemote"}
      /\ sess[Peer(e)].phase = "ClosingRemote" => shell[Peer(e)].writes = wrote[e]

\* The shell receives WriteSession only between OpenSession and CloseSession.
NoLateWrite == \A e \in Endpoints : ~ shell[e].late

\* What a session holds for acknowledged by the instance of the peer it is bound
\* to is with that instance, read or buffered: no acknowledgement of another
\* instance, before or after a restart, is taken for one of this.
AcksAreBound ==
  \A e \in Endpoints :
    Has(e) /\ sess[e].acked # {} /\ sess[e].peer = inst[Peer(e)] /\ SameLife(e) /\ ~ Forgotten =>
      \/ ~ Has(Peer(e))
      \/ \A n \in sess[e].acked :
           n < sess[Peer(e)].next \/ \E m \in sess[Peer(e)].buf : m.sn = n

\* A requested Close waits outside the stream only while the send window is
\* full: whatever frees a slot also queues it, so wait_snd() == 0 is never
\* taken for the end of a close that was not sent.
PendingCloseOnlyWhenFull ==
  \A e \in Endpoints :
    sess[e].phase = "ClosingLocal" /\ ~ sess[e].queued /\ ~ Deadline(sess[e]) =>
      WaitSnd(sess[e]) >= SendWindow[e]
=============================================================================
