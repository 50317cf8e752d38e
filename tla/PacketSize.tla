------------------------------ MODULE PacketSize ------------------------------
(***************************************************************************)
(* How an endpoint sizes its packets so that every KCP packet can take any *)
(* route of its graph: scheduled_packet_overhead and the KCP MTU in        *)
(* crates/raynet-core/src/endpoint.rs, the fragments of Kcp::send and the  *)
(* packets Kcp::flush packs (kcp/kcp.rs).  Sizes are in cells of Wire.     *)
(***************************************************************************)
EXTENDS Wire, FiniteSets, FiniteSetsExt

CONSTANTS
  EntryGraph,      \* route.graph: per node its edges [channel, next]
  EntryMtu,        \* route.min_mtu
  PaddingReserve,  \* padding_reserve
  MaxPadding,      \* u8::MAX
  SendWindow,      \* kcp.send_window
  ReceiveWindow,   \* kcp.receive_window
  MessageSizes,    \* sizes of encoded session messages
  MaxAcks          \* bound: acknowledgements flushed at once

KcpHeader == 1  \* KCP_OVERHEAD

EffectiveMtu(mtu) == Min({mtu, MaxPacket})

-----------------------------------------------------------------------------
(* The MTU of KCP. *)

Target == Len(EntryGraph)

\* The hops of the longest way from each node.  The code fills the vector from
\* the last node on; edges lead forward (RelayAssumption).
Longest[n \in 1..Target] ==
  IF n = Target THEN 0
  ELSE Max({0} \cup {Longest[EntryGraph[n][k].next] + 1 : k \in DOMAIN EntryGraph[n]})

\* Mutant: the room for the route plan is left out.
OverheadBare == TransportOverhead + EnvelopeOverhead + PaddingReserve

ScheduledOverhead == TransportOverhead + EnvelopeOverhead + PaddingReserve + (Longest[1] - 1)

KcpMtu == EffectiveMtu(EntryMtu) - ScheduledOverhead - MessageOverhead
Mss == KcpMtu - KcpHeader

-----------------------------------------------------------------------------
(* The sizes of the KCP packets. *)

FragmentCount(len) == Max({(len + Mss - 1) \div Mss, 1})

\* SessionWrite blocks a message the window has no room for, Kcp::send refuses
\* one of too many fragments (256 and more are not modelled).
Sendable(len) == FragmentCount(len) <= SendWindow /\ FragmentCount(len) < ReceiveWindow

\* Kcp::send
Fragments(len) ==
  [i \in 1..FragmentCount(len) |-> Min({Mss, len - (i - 1) * Mss})]

\* flush: a segment goes into the buffer unless it would outgrow the MTU.
Pack(packets, data) ==
  LET need == KcpHeader + data
      last == Last(packets)
  IN  IF last > 0 /\ last + need > KcpMtu THEN Append(packets, need)
      ELSE Front(packets) \o <<last + need>>

\* What one flush puts out: acknowledgements, then the fragments of a message.
Flushed(acks, len) ==
  LET segments == [i \in 1..acks |-> 0] \o Fragments(len)
      packets[i \in 0..Len(segments)] ==
        IF i = 0 THEN <<0>> ELSE Pack(packets[i - 1], segments[i])
  IN  packets[Len(segments)]

KcpSizes ==
  UNION {Range(Flushed(acks, len)) : acks \in 0..MaxAcks, len \in {m \in MessageSizes : Sendable(m)}}

-----------------------------------------------------------------------------
(* The route plans of the graph. *)

GraphEdges == UNION {{<<n, k>> : k \in DOMAIN EntryGraph[n]} : n \in 1..Target}
EdgeOf(e) == EntryGraph[e[1]][e[2]]

Plans ==
  LET paths == {p \in UNION {[1..k -> GraphEdges] : k \in 1..(Target - 1)} :
                  /\ p[1][1] = 1 /\ EdgeOf(p[Len(p)]).next = Target
                  /\ \A i \in 1..(Len(p) - 1) : EdgeOf(p[i]).next = p[i + 1][1]}
  IN  {[i \in DOMAIN p |-> EdgeOf(p[i]).channel] : p \in paths}
=============================================================================
