-------------------------------- MODULE Relay --------------------------------
(***************************************************************************)
(* A packet's way through the mesh: an endpoint seals a message and sends  *)
(* it with a route plan (send_envelope in crates/raynet-core/src/          *)
(* endpoint.rs), over another plan if its channel fails; each relay        *)
(* filters, consumes one hop and encodes the packet anew (relay.rs); the   *)
(* exit endpoint opens it and filters once more.  The network loses,       *)
(* delays, reorders and repeats.                                           *)
(*                                                                         *)
(* A stamp's age is counted on one clock.  A filter keeps the stamps of    *)
(* the windows it holds: within the freshness limit that is what           *)
(* SequenceFilter computes (theorems AtMostOnce and NoFalseReplay there).  *)
(***************************************************************************)
EXTENDS PacketSize

CONSTANTS
  Relays, Exit,  \* nodes
  To,            \* the node each channel leads to
  Local,         \* local_channels of each relay
  Mtus,          \* choices of the local_min_mtu of each relay
  Stamps,        \* stamps: time, sequence id and number
  Idle,          \* sequence ids of endpoints that only keep their routes alive
  MaxPast,       \* MAX_PAST_TICKS
  NetCap         \* bound: packets in flight

Nodes == Relays \cup {Exit}

\* build_route numbers the nodes so that edges lead forward, and first hops are
\* local channels.  The rest the code relies on and does not check: the shell is
\* to keep padding_reserve in 1..255, the graph below RouteMod hops and the MTU
\* large enough for a KCP packet and a route reply.
ASSUME RelayAssumption ==
  /\ Exit \notin Relays /\ IsFiniteSet(Stamps)
  /\ Local \in [Relays -> SUBSET DOMAIN To] /\ \A c \in DOMAIN To : To[c] \in Nodes
  /\ Mtus \subseteq [Relays -> Nat] /\ Stamps \subseteq [time : Nat, id : Nat, no : Nat]
  /\ {RouteMod, MaxPacket, EntryMtu, MaxPadding, MaxAcks} \cup MessageSizes \subseteq Nat
  /\ EntryGraph \in Seq(Seq([channel : Nat, next : Nat])) /\ EntryGraph # <<>>
  /\ \A n \in 1..Target : \A k \in DOMAIN EntryGraph[n] : EntryGraph[n][k].next \in (n + 1)..Target
  /\ \A k \in DOMAIN EntryGraph[1] : EntryGraph[1][k].channel \in DOMAIN To
  /\ PaddingReserve \in 1..MaxPadding
  /\ Longest[1] \in 1..RouteMod
  /\ Mss > 0 /\ KcpMtu >= 2
  /\ MaxPast \in Nat /\ NetCap \in Nat

VARIABLES
  reliable, \* the network delivers each packet once, in time
  mtu,      \* local_min_mtu
  age,      \* ticks since each stamp was made, -1 before
  outbox,   \* packets queued at the channels of the sending endpoint
  net,      \* packets in flight
  seen,     \* the stamps each node's filter holds
  handled   \* history: how often each node let each stamp pass its filter

vars == <<reliable, mtu, age, outbox, net, seen, handled>>

Init ==
  /\ reliable \in BOOLEAN
  /\ mtu \in Mtus
  /\ age = [s \in Stamps |-> -1]
  /\ outbox = {}
  /\ net = {}
  /\ seen = [n \in Nodes |-> {}]
  /\ handled = [n \in Nodes |-> [s \in Stamps |-> 0]]

-----------------------------------------------------------------------------
(* The sending endpoint. *)

\* stamp, route, message: what the packet was sent with; hop: how many channels
\* it has taken, this one included.
Packet(s, m, route, hop, bytes) ==
  [stamp |-> s, message |-> m, route |-> route, hop |-> hop, bytes |-> bytes]

On(p) == p.route[p.hop]

\* The least and the most padding the random stream can draw.
Paddings(available) == {1, Min({available, MaxPadding})}

\* send_envelope with the plan the planner has chosen.
SendEnvelope(s, m, payload, plan) ==
  LET unpadded == TransportOverhead + EnvelopeOverhead + (Len(plan) - 1) + Len(payload)
  IN  {Packet(s, m, plan, 1, Encode(s, Tail(plan), payload, padding)) :
         padding \in Paddings(EffectiveMtu(EntryMtu) - unpadded)}

Data == 1  \* what KCP packets consist of; looks like padding

\* The messages an endpoint sends with this stamp.
Messages(s) ==
  IF s.id \in Idle THEN {[type |-> KeepAlive, depth |-> 0, body |-> <<>>]}
  ELSE {[type |-> RouteReply, depth |-> 2, body |-> <<1, 1>>]}
         \cup {[type |-> KcpPacket, depth |-> 1, body |-> [i \in 1..n |-> Data]] : n \in KcpSizes}

\* send_endpoint_message
SendEndpointMessage(s, m, plan) ==
  /\ age[s] = -1
  /\ age' = [age EXCEPT ![s] = 0]
  /\ \E p \in SendEnvelope(s, m, Seal(s, m), plan) : outbox' = outbox \cup {p}
  /\ UNCHANGED <<reliable, mtu, net, seen, handled>>

ChannelSend(p) ==
  /\ Cardinality(net) < NetCap
  /\ outbox' = outbox \ {p}
  /\ net' = net \cup {p}
  /\ UNCHANGED <<reliable, mtu, age, seen, handled>>

\* TransportPacketSendFailed: a KCP packet is sent again, over any plan, the
\* planner is free to choose a longer one.
SendFailed(p, plan) ==
  LET e == Decode(p.bytes)
  IN  /\ ~ reliable
      /\ \E again \in IF Opened(e.payload).type = KcpPacket
                      THEN {{q} : q \in SendEnvelope(e.stamp, p.message, e.payload, plan)}
                      ELSE {{}} :
           outbox' = (outbox \ {p}) \cup again
      /\ UNCHANGED <<reliable, mtu, age, net, seen, handled>>

-----------------------------------------------------------------------------
(* A node receives a packet. *)

\* Mutant: a packet is not checked for its age.
AcceptsStale(n, s) == s \notin seen[n]

\* check_sequence
Accepts(n, s) == age[s] <= MaxPast /\ s \notin seen[n]

\* check_and_insert, then remove_expired with no window to spare: those whose
\* newest stamp is past the limit go.  (An endpoint does this in poll and spares
\* one, which only remembers more.)
Remember(n, s) ==
  LET all   == seen[n] \cup {s}
      alive == {t.id : t \in {u \in all : age[u] <= MaxPast}}
  IN  {t \in all : t.id \in alive}

\* Mutant: the consumed hop stays in the plan.
RestKept(plan) == plan

\* route_plan.remove(0)
Rest(plan) == Tail(plan)

Unpadded(e) == TransportOverhead + EnvelopeOverhead + Len(Rest(e.plan)) + Len(e.payload)

\* Mutant: the length as received is compared.
FitsReceived(r, e) == Unpadded(e) + 1 + e.padding <= EffectiveMtu(mtu[r])

Fits(r, e) == Unpadded(e) + 1 <= EffectiveMtu(mtu[r])

\* The early returns of forward_packet after the filter.
Forwards(r, e) ==
  /\ e.plan # <<>>
  /\ Head(e.plan) \in Local[r]
  /\ Fits(r, e)

\* The packets forward_packet may encode.
Forwarded(r, p, e) ==
  {Packet(p.stamp, p.message, p.route, p.hop + 1, Encode(e.stamp, Rest(e.plan), e.payload, padding)) :
     padding \in Paddings(EffectiveMtu(mtu[r]) - Unpadded(e))}

\* The early returns of an endpoint before the filter.
ForThisEndpoint(e) == e.plan = <<>> /\ Opens(e.stamp, e.payload)

\* forward_packet of a relay, or handle_transport_packet of the exit; the
\* network may keep a copy of the packet.
Receive(p) ==
  LET n == To[On(p)]
      e == Decode(p.bytes)
  IN  \E rest \in IF reliable THEN {net \ {p}} ELSE {net, net \ {p}} :
        /\ IF /\ e # Malformed
              /\ n = Exit => ForThisEndpoint(e)
              /\ Accepts(n, e.stamp)
           THEN /\ seen' = [seen EXCEPT ![n] = Remember(n, e.stamp)]
                /\ handled' = [handled EXCEPT ![n][e.stamp] = @ + 1]
                /\ IF n # Exit /\ Forwards(n, e)
                   THEN \E q \in Forwarded(n, p, e) :
                          Cardinality(rest) < NetCap /\ net' = rest \cup {q}
                   ELSE net' = rest
           ELSE net' = rest /\ UNCHANGED <<seen, handled>>
        /\ UNCHANGED <<reliable, mtu, age, outbox>>

\* Loss, or a local send failure at a relay, which ends the packet.
Lose(p) ==
  /\ ~ reliable
  /\ net' = net \ {p}
  /\ UNCHANGED <<reliable, mtu, age, outbox, seen, handled>>

Tick ==
  /\ ~ reliable \/ (net = {} /\ outbox = {})
  /\ age' = [s \in Stamps |-> IF age[s] \in 0..MaxPast THEN age[s] + 1 ELSE age[s]]
  /\ UNCHANGED <<reliable, mtu, outbox, net, seen, handled>>

Next ==
  \/ \E s \in Stamps, plan \in Plans : \E m \in Messages(s) : SendEndpointMessage(s, m, plan)
  \/ \E p \in outbox : ChannelSend(p)
  \/ \E p \in outbox, plan \in Plans : SendFailed(p, plan)
  \/ \E p \in net : Receive(p)
  \/ \E p \in net : Lose(p)
  \/ Tick

Spec == Init /\ [][Next]_vars

\* Channel workers send and packets in flight are delivered in the end, unless
\* they are lost.
FairSpec ==
  /\ Spec
  /\ WF_vars(\E p \in outbox : ChannelSend(p))
  /\ WF_vars(\E p \in net : Receive(p))

-----------------------------------------------------------------------------
(* Properties. *)

\* Each node lets each stamp pass once, although the network repeats packets,
\* plans may lead through a relay twice, and a relay forgets the windows it
\* takes for expired: so the traffic of one packet is bounded by the nodes.
HandledOnce == \A n \in Nodes, s \in Stamps : handled[n][s] <= 1

\* Wherever a packet is on its way, it decodes to the stamp it was made with,
\* the hops that are left of the endpoint's plan, and a payload that opens to
\* the message that was sealed, whatever padding was drawn on each hop and
\* although data and channel numbers look like padding.
DecodesToPlan ==
  \A p \in net \cup outbox :
    LET e == Decode(p.bytes)
    IN  /\ e # Malformed
        /\ e.stamp = p.stamp /\ e.plan = SubSeq(p.route, p.hop + 1, Len(p.route))
        /\ Opens(e.stamp, e.payload) /\ Opened(e.payload) = p.message

\* The node that encoded the packet that is on its n-th hop.
SenderMtu(p) == EffectiveMtu(IF p.hop = 1 THEN EntryMtu ELSE mtu[To[p.route[p.hop - 1]]])

\* A packet never exceeds the MTU of the node that encoded it, and an endpoint
\* has at least padding_reserve lengths to choose from, also when it sends a
\* full KCP packet again over the longest plan of its graph (the modulus of
\* the padding is never zero).
ReserveIsKept ==
  /\ \A p \in net \cup outbox : Len(p.bytes) + TransportOverhead <= SenderMtu(p)
  /\ \A p \in outbox :
       EffectiveMtu(EntryMtu) - (Len(p.bytes) + TransportOverhead - Decode(p.bytes).padding)
         >= PaddingReserve

\* Can this plan bring a packet to the exit?  Every relay on it has an MTU that
\* keeps the promise of route.min_mtu.
Passable(plan) ==
  /\ To[plan[Len(plan)]] = Exit
  /\ \A i, j \in 1..Len(plan) : i # j => To[plan[i]] # To[plan[j]]
  /\ \A i \in 2..Len(plan) :
       LET r == To[plan[i - 1]]
       IN  r \in Relays /\ plan[i] \in Local[r] /\ EffectiveMtu(mtu[r]) >= EffectiveMtu(EntryMtu)

\* Nothing else is lost: with a reliable network every packet, a full one too,
\* arrives if its plan leads to the exit over relays that keep the promised
\* MTU, none of them twice.
Arrives ==
  reliable => \A s \in Stamps :
    (\E p \in net : p.stamp = s /\ Passable(p.route)) ~> handled[Exit][s] = 1
=============================================================================
