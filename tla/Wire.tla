-------------------------------- MODULE Wire --------------------------------
(***************************************************************************)
(* The packet formats of crates/raynet-core/src/wire.rs and packet.rs.  A  *)
(* packet is a sequence of cells, one per field: time_and_route, seq_id,   *)
(* seq_no, the payload, a cell per channel of the route plan, the padding, *)
(* every cell of which holds its length.                                   *)
(*                                                                         *)
(* Encryption is not modelled, authentication is: the tag of an endpoint   *)
(* message is the nonce it was sealed with, which is made of the stamp.    *)
(***************************************************************************)
EXTENDS Integers, Sequences, SequencesExt

CONSTANTS
  RouteMod,    \* 1 << ROUTE_BITS
  MaxPacket    \* MAX_TRANSPORT_PACKET_SIZE, in cells

TransportOverhead == 1  \* TRANSPORT_PACKET_OVERHEAD: outer nonce and tag
EnvelopeOverhead == 3   \* ENVELOPE_FIXED_OVERHEAD
NonceSize == 3
MessageOverhead == NonceSize + 1  \* ENDPOINT_MESSAGE_OVERHEAD: tag and flags

-----------------------------------------------------------------------------
(* Endpoint messages. *)

KcpPacket == 1  \* FLAG_KCP
KeepAlive == 2  \* FLAG_KEEP_ALIVE
RouteReply == 4 \* FLAG_ROUTE_REPLY
DepthUnit == 8  \* 1 << REPLY_DEPTH_SHIFT

\* endpoint_nonce: the header without the length of the route plan.
Nonce(stamp) == <<stamp.time * RouteMod, stamp.id, stamp.no>>

\* seal_endpoint_message
Seal(stamp, m) == Nonce(stamp) \o <<m.type + DepthUnit * m.depth>> \o m.body

\* open_endpoint_message, for a payload that opens.
Opens(stamp, payload) ==
  Len(payload) > NonceSize /\ SubSeq(payload, 1, NonceSize) = Nonce(stamp)

Opened(payload) ==
  LET flags == payload[NonceSize + 1]
  IN  [type |-> flags % DepthUnit, depth |-> flags \div DepthUnit,
       body |-> SubSeq(payload, NonceSize + 2, Len(payload))]

-----------------------------------------------------------------------------
(* Envelopes. *)

\* Envelope::encode_with_prefix; plans of RouteMod hops or more do not fit the
\* field (nothing in the code checks this, see RelayAssumption).
Encode(stamp, plan, payload, padding) ==
  <<stamp.time * RouteMod + Len(plan), stamp.id, stamp.no>>
    \o payload \o plan \o [i \in 1..padding |-> padding]

Malformed == [malformed |-> TRUE]

\* The part of decode that separates the fields, n cells of padding.
Split(bytes, n) ==
  LET routeEnd   == Len(bytes) - n
      payloadEnd == routeEnd - (bytes[1] % RouteMod)
  IN  [stamp |-> [time |-> bytes[1] \div RouteMod, id |-> bytes[2], no |-> bytes[3]],
       payload |-> SubSeq(bytes, EnvelopeOverhead + 1, payloadEnd),
       plan |-> SubSeq(bytes, payloadEnd + 1, routeEnd),
       padding |-> n]

\* Mutant: all trailing cells with the value of the last one are padding.
DecodeTrim(bytes) ==
  LET n == Last(bytes)
      run == {k \in 1..Len(bytes) : \A i \in k..Len(bytes) : bytes[i] = n}
      first == CHOOSE k \in run : \A j \in run : k <= j
  IN  Split(bytes, Len(bytes) - first + 1)

\* Envelope::decode behind decode_transport_packet.
Decode(bytes) ==
  LET n == Last(bytes)
  IN  IF \/ Len(bytes) + TransportOverhead > MaxPacket
         \/ Len(bytes) < EnvelopeOverhead
         \/ n = 0
         \/ Len(bytes) < EnvelopeOverhead + n + (bytes[1] % RouteMod)
         \/ \E i \in (Len(bytes) - n + 1)..Len(bytes) : bytes[i] # n
      THEN Malformed
      ELSE Split(bytes, n)
=============================================================================
