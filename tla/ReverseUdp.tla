----------------------------- MODULE ReverseUdp -----------------------------
(***************************************************************************)
(* A reverse UDP channel (ReverseUdp of                                    *)
(* crates/raynet-shell-plugins/src/channel_udp.rs) below forward_out: the  *)
(* sender knows no address, the receiver makes itself known by a probe     *)
(* every PROBE_INTERVAL, and the sender forgets a peer it has not heard of *)
(* for PEER_TIMEOUT.  A packet without a peer fails.  One task of the      *)
(* receiver sends probes and waits for room in the queue of the packets    *)
(* received, so a slow consumer holds the probes up.                       *)
(*                                                                         *)
(* One path, that is one socket on each side.  Delays of the network are   *)
(* below the unit of time.  The challenge in a probe only sorts out the    *)
(* response; it has no effect on the peers.                                *)
(***************************************************************************)
EXTENDS ForwardOut

CONSTANTS
  ProbeInterval,  \* PROBE_INTERVAL
  PeerTimeout,    \* PEER_TIMEOUT
  MaxLate,        \* bound: how long a consumer holds the receiver up
  MaxLost         \* bound: probes counted as lost

ASSUME ReverseAssumption ==
  /\ {ProbeInterval, PeerTimeout} \subseteq Nat \ {0}
  /\ MaxLate \in Nat /\ MaxLost \in Nat
  /\ (MaxLost + 1) * ProbeInterval >= PeerTimeout

VARIABLES
  seen,   \* time since the peer was entered or refreshed; PeerTimeout: no peer
  timer,  \* time until the receiver's next tick; below zero it is overdue
  held,   \* the receiver waits in tx.send
  lost,   \* history: probes lost since the last that arrived
  late    \* history: the longest delay of a probe since the last that arrived

reverseVars == <<seen, timer, held, lost, late>>

ReverseInit ==
  /\ Init
  /\ seen = PeerTimeout
  /\ timer = 0    \* the first tick of an interval is due at once
  /\ held = FALSE
  /\ lost = MaxLost /\ late = 0

AtMost(a, b) == IF a <= b THEN a ELSE b
AtLeast(a, b) == IF a >= b THEN a ELSE b

-----------------------------------------------------------------------------
(* The receiver and the probes. *)

\* Mutant: a peer that is known is not refreshed.
RefreshedOnce == IF seen < PeerTimeout THEN seen ELSE 0

\* peers.insert((socket_index, peer), Instant::now())
Refreshed == 0

\* A tick, an overdue one too: ticks that were missed follow one another at once.
\* The probe arrives and is answered, or is lost on the way.
Probe ==
  /\ timer <= 0 /\ ~ held
  /\ timer' = timer + ProbeInterval
  /\ \/ seen' = Refreshed /\ lost' = 0 /\ late' = 0
     \/ /\ lost' = AtMost(lost + 1, MaxLost) /\ late' = AtLeast(late, - timer)
        /\ UNCHANGED seen
  /\ UNCHANGED held

\* A packet is received and the queue is full, until the consumer takes one.
HoldUp == ~ held /\ held' = TRUE /\ UNCHANGED <<seen, timer, lost, late>>
Release == held /\ held' = FALSE /\ UNCHANGED <<seen, timer, lost, late>>

\* A probe that is due does not wait for longer than the unit of time.
Tick ==
  /\ timer > 0 \/ (held /\ - timer < MaxLate)
  /\ seen' = AtMost(seen + 1, PeerTimeout)
  /\ timer' = timer - 1
  /\ UNCHANGED <<held, lost, late>>

Reverse == Probe \/ HoldUp \/ Release \/ Tick

-----------------------------------------------------------------------------
(* The worker of a reverse channel. *)

HasPeer == seen < PeerTimeout

ReverseSent(c) ==
  /\ worker[c] = "sending"
  /\ \E next \in IF HasPeer THEN {"idle", "report"} ELSE {"report"} :
       worker' = [worker EXCEPT ![c] = next]
  /\ UNCHANGED <<kind, rayq, chq, failq, pc, dest, left, batch>>

ReverseWorker(c) == WorkerTake(c) \/ ReverseSent(c) \/ WorkerReport(c)

ReverseNext ==
  \/ (Produce \/ ForwardOut \/ \E c \in Channels : ReverseWorker(c)) /\ UNCHANGED reverseVars
  \/ Reverse /\ UNCHANGED vars

ReverseSpec ==
  /\ ReverseInit
  /\ [][ReverseNext]_<<vars, reverseVars>>
  /\ WF_vars(ForwardOut /\ UNCHANGED reverseVars)
  /\ \A c \in Channels : WF_vars(ReverseWorker(c) /\ UNCHANGED reverseVars)

-----------------------------------------------------------------------------
(* Properties. *)

\* The sender keeps its peer as long as the probes that were lost in a row and
\* the time the receiver was held up leave one probe within PEER_TIMEOUT: with
\* 15 and 60 seconds, two lost probes, or one and a delay of less than 30
\* seconds, cost no packet.
PeerKept ==
  (lost + 1) * ProbeInterval + AtLeast(late, - timer) < PeerTimeout => HasPeer
=============================================================================
