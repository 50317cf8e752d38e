----------------------------- MODULE RelayProofs -----------------------------
(***************************************************************************)
(* What Relay guarantees for every graph, plan, MTU, set of stamps and     *)
(* network: no node handles a packet twice; every packet decodes to the    *)
(* rest of its plan and the sealed message; no packet outgrows its MTU and *)
(* every plan leaves room for the padding reserve.                         *)
(***************************************************************************)
EXTENDS Relay, WellFoundedInduction, TLAPS

-----------------------------------------------------------------------------
(* Each node handles each stamp once. *)

\* What a node let pass, its filter still holds, unless the stamp is past the
\* freshness limit: then nothing lets it pass again.
Once ==
  /\ age \in [Stamps -> -1..(MaxPast + 1)]
  /\ DOMAIN seen = Nodes /\ handled \in [Nodes -> [Stamps -> 0..1]]
  /\ \A n \in Nodes, s \in Stamps : handled[n][s] = 1 => s \in seen[n] \/ age[s] > MaxPast

\* remove_expired forgets no stamp that could still pass.
LEMMA RemembersFresh ==
  ASSUME Once, NEW n \in Nodes, NEW s, NEW t \in Stamps, t \in seen[n] \cup {s}
  PROVE  t \in Remember(n, s) \/ age[t] > MaxPast
<1>1. MaxPast \in Nat /\ age[t] \in Int
  BY RelayAssumption DEF Once
<1> SUFFICES ASSUME age[t] <= MaxPast PROVE t \in Remember(n, s)
  BY <1>1
<1> QED
  BY DEF Remember

\* A step of the network, of a sender or of a node.
LEMMA OnceStep == Once /\ [Next]_vars => Once'
<1> SUFFICES ASSUME Once, [Next]_vars PROVE Once'
  OBVIOUS
<1>0. MaxPast \in Nat
  BY RelayAssumption
<1>1. CASE UNCHANGED <<age, seen, handled>>
  BY <1>1 DEF Once
<1>2. ASSUME NEW s \in Stamps, age[s] = -1, age' = [age EXCEPT ![s] = 0], UNCHANGED <<seen, handled>>
      PROVE  Once'
  <2>1. age' \in [Stamps -> -1..(MaxPast + 1)]
    BY <1>0, <1>2 DEF Once
  <2>2. \A t \in Stamps : age[t] > MaxPast => age'[t] = age[t]
    BY <1>0, <1>2 DEF Once
  <2> QED
    BY <1>2, <2>1, <2>2 DEF Once
<1>3. CASE Tick
  <2>1. age' = [s \in Stamps |-> IF age[s] \in 0..MaxPast THEN age[s] + 1 ELSE age[s]]
    BY <1>3 DEF Tick
  <2>2. age' \in [Stamps -> -1..(MaxPast + 1)] /\ \A t \in Stamps : age[t] > MaxPast => age'[t] = age[t]
    BY <1>0, <2>1 DEF Once
  <2> QED
    BY <1>3, <2>2 DEF Once, Tick
<1>4. ASSUME NEW n, NEW s, Accepts(n, s), seen' = [seen EXCEPT ![n] = Remember(n, s)],
             handled' = [handled EXCEPT ![n][s] = @ + 1], age' = age
      PROVE  Once'
  <2>1. DOMAIN seen' = Nodes /\ age' \in [Stamps -> -1..(MaxPast + 1)]
    BY <1>4 DEF Once
  <2>2. \A m \in Nodes, t \in Stamps :
          handled'[m][t] = IF m = n /\ t = s THEN handled[m][t] + 1 ELSE handled[m][t]
    BY <1>4 DEF Once
  <2>3. n \in Nodes /\ s \in Stamps => handled[n][s] = 0
    <3>1. s \in Stamps => age[s] \in Int /\ ~ (age[s] > MaxPast)
      BY <1>0, <1>4 DEF Accepts, Once
    <3> QED
      BY <1>4, <3>1 DEF Accepts, Once
  <2>4. \A m \in Nodes, t \in Stamps : handled'[m][t] \in 0..1
    BY <2>2, <2>3 DEF Once
  <2>5. handled' \in [Nodes -> [Stamps -> 0..1]]
    <3>1. DOMAIN handled' = Nodes /\ \A m \in Nodes : handled'[m] = [t \in Stamps |-> handled'[m][t]]
      BY <1>4 DEF Once
    <3>2. \A m \in Nodes : handled'[m] \in [Stamps -> 0..1]
      BY <2>4, <3>1
    <3>3. handled' = [m \in Nodes |-> handled'[m]]
      BY <1>4 DEF Once
    <3> QED
      BY <3>2, <3>3
  <2>6. \A m \in Nodes : seen'[m] = IF m = n THEN Remember(n, s) ELSE seen[m]
    BY <1>4 DEF Once
  <2>7. ASSUME NEW m \in Nodes, NEW t \in Stamps, handled'[m][t] = 1
        PROVE  t \in seen'[m] \/ age[t] > MaxPast
    <3>1. CASE m # n
      BY <2>2, <2>6, <2>7, <3>1 DEF Once
    <3>2. CASE m = n /\ (t = s \/ t \in seen[m])
      BY <2>6, <3>2, RemembersFresh
    <3>3. CASE m = n /\ t # s /\ t \notin seen[m]
      BY <2>2, <2>7, <3>3 DEF Once
    <3> QED
      BY <3>1, <3>2, <3>3
  <2> QED
    BY <1>4, <2>1, <2>5, <2>7 DEF Once
<1>5. ASSUME NEW p, Receive(p) PROVE Once'
  BY <1>1, <1>4, <1>5 DEF Receive
<1>6. ASSUME NEW s \in Stamps, NEW m, NEW plan, SendEndpointMessage(s, m, plan) PROVE Once'
  BY <1>2, <1>6 DEF SendEndpointMessage
<1>7. ASSUME NEW p, ChannelSend(p) \/ Lose(p) \/ (\E plan \in Plans : SendFailed(p, plan)) PROVE Once'
  BY <1>1, <1>7 DEF ChannelSend, Lose, SendFailed
<1>8. CASE UNCHANGED vars
  BY <1>1, <1>8 DEF vars
<1> QED
  BY <1>3, <1>5, <1>6, <1>7, <1>8 DEF Next

\* No node lets a stamp pass twice, for every set of stamps and nodes, whatever
\* the network repeats and the relays forget.
THEOREM NodesHandleOnce == Spec => []HandledOnce
<1>1. Init => Once
  BY RelayAssumption DEF Init, Once
<1>2. Once => HandledOnce
  BY DEF Once, HandledOnce
<1> QED
  BY <1>1, <1>2, OnceStep, PTL DEF Spec

-----------------------------------------------------------------------------
(* The codec of envelopes. *)

\* The header cell time_and_route: its quotient and its remainder.
LEMMA HeaderFields ==
  ASSUME NEW q \in Nat, NEW m \in Nat \ {0}, NEW r \in 0..(m - 1)
  PROVE  (q * m + r) % m = r /\ (q * m + r) \div m = q
OBVIOUS

\* s stands in b behind the first n cells.
Holds(b, n, s) == \A i \in 1..Len(s) : b[n + i] = s[i]

\* c is s and then t.
IsJoin(c, s, t) ==
  /\ c \in Seq(Int) /\ Len(c) = Len(s) + Len(t)
  /\ (\A i \in 1..Len(s) : c[i] = s[i]) /\ Holds(c, Len(s), t)

\* That is what joining two sequences gives.
LEMMA Joined ==
  ASSUME NEW s \in Seq(Int), NEW t \in Seq(Int)
  PROVE  IsJoin(s \o t, s, t)
<1>1. PICK c : c = s \o t
  OBVIOUS
<1>2. c \in Seq(Int) /\ Len(c) = Len(s) + Len(t)
  BY <1>1
<1>3. \A i \in 1..Len(s) : c[i] = s[i]
  BY <1>1
<1>4. ASSUME NEW i \in 1..Len(t) PROVE c[Len(s) + i] = t[i]
  <2>1. Len(s) + i \in 1..(Len(s) + Len(t)) /\ Len(s) + i > Len(s) /\ (Len(s) + i) - Len(s) = i
    OBVIOUS
  <2> QED
    BY <1>1, <2>1
<1> QED
  BY <1>1, <1>2, <1>3, <1>4 DEF IsJoin, Holds

\* A sequence stays where it is when another one is put behind.
LEMMA HoldsOn ==
  ASSUME NEW s \in Seq(Int), NEW c \in Seq(Int), NEW t \in Seq(Int), NEW b, IsJoin(b, c, t),
         NEW n \in Nat, n + Len(s) <= Len(c), Holds(c, n, s)
  PROVE  Holds(b, n, s)
<1>1. Len(c) \in Nat /\ Len(s) \in Nat
  OBVIOUS
<1>2. \A i \in 1..Len(s) : n + i \in 1..Len(c)
  BY <1>1
<1> QED
  BY <1>2 DEF IsJoin, Holds

\* The cells of an encoded envelope.
Laid(b, s, plan, payload, padding) ==
  /\ b \in Seq(Int) /\ Len(b) = 3 + Len(payload) + Len(plan) + padding
  /\ b[1] = s.time * RouteMod + Len(plan) /\ b[2] = s.id /\ b[3] = s.no
  /\ Holds(b, 3, payload) /\ Holds(b, 3 + Len(payload), plan)
  /\ \A i \in 1..padding : b[3 + Len(payload) + Len(plan) + i] = padding

\* What encode writes.
LEMMA EncodeCells ==
  ASSUME NEW s \in Stamps, NEW plan \in Seq(Int), NEW payload \in Seq(Int), NEW padding \in Nat \ {0}
  PROVE  Laid(Encode(s, plan, payload, padding), s, plan, payload, padding)
<1>b. PICK b : b = Encode(s, plan, payload, padding)
  OBVIOUS
<1>0. PICK m \in Nat, n \in Nat : m = Len(payload) /\ n = Len(plan)
  OBVIOUS
<1>1. PICK h : h = s.time * RouteMod + Len(plan)
  OBVIOUS
<1>2. s.time \in Nat /\ s.id \in Nat /\ s.no \in Nat /\ RouteMod \in Nat /\ Len(plan) \in Nat
  BY RelayAssumption
<1>3. h \in Nat
  BY ONLY <1>1, <1>2
<1>4. PICK id \in Nat, no \in Nat : id = s.id /\ no = s.no
  BY <1>2
<1>5. PICK head : head = <<h, id, no>>
  OBVIOUS
<1>6. PICK pad : pad = [i \in 1..padding |-> padding]
  OBVIOUS
<1>7. pad \in Seq(Int) /\ Len(pad) = padding /\ \A i \in 1..padding : pad[i] = padding
  BY ONLY <1>6, padding \in Nat \ {0}
<1>8. head \in Seq(Int) /\ Len(head) = 3 /\ head[1] = h /\ head[2] = id /\ head[3] = no
  BY ONLY <1>3, <1>4, <1>5
<1>9. b = ((head \o payload) \o plan) \o pad
  BY <1>b, <1>1, <1>4, <1>5, <1>6 DEF Encode
<1>10. PICK c : c = head \o payload
  OBVIOUS
<1>11. PICK d : d = c \o plan
  OBVIOUS
<1>12. IsJoin(c, head, payload)
  BY ONLY <1>8, <1>10, payload \in Seq(Int), Joined
<1>13. c \in Seq(Int) /\ Len(c) = 3 + m
  BY ONLY <1>0, <1>8, <1>12 DEF IsJoin
<1>14. IsJoin(d, c, plan)
  BY ONLY <1>11, <1>13, plan \in Seq(Int), Joined
<1>15. d \in Seq(Int) /\ Len(d) = 3 + m + n
  BY ONLY <1>0, <1>13, <1>14 DEF IsJoin
<1>16. b = d \o pad
  BY ONLY <1>9, <1>10, <1>11
<1>17. IsJoin(b, d, pad)
  BY ONLY <1>7, <1>15, <1>16, Joined
<1>18. b \in Seq(Int) /\ Len(b) = 3 + m + n + padding
  BY ONLY <1>0, <1>7, <1>15, <1>17 DEF IsJoin
<1>19. Holds(c, 3, payload) /\ Holds(d, 3 + m, plan) /\ Holds(b, 3 + m + n, pad)
  BY ONLY <1>8, <1>12, <1>13, <1>14, <1>15, <1>17 DEF IsJoin
<1>20. Holds(d, 3, payload)
  BY ONLY <1>0, <1>13, <1>14, <1>19, payload \in Seq(Int), plan \in Seq(Int), HoldsOn
<1>21. Holds(b, 3, payload) /\ Holds(b, 3 + m, plan)
  <2>1. 3 + m \in Nat /\ 3 + Len(payload) <= Len(d) /\ 3 + m + Len(plan) <= Len(d)
    BY ONLY <1>0, <1>15
  <2> QED
    BY ONLY <1>7, <1>15, <1>17, <1>19, <1>20, <2>1, payload \in Seq(Int), plan \in Seq(Int), HoldsOn
<1>22. b[1] = h /\ b[2] = id /\ b[3] = no
  <2>1. \A i \in 1..3 : c[i] = head[i]
    BY ONLY <1>8, <1>12 DEF IsJoin
  <2>2. \A i \in 1..(3 + m) : d[i] = c[i]
    BY ONLY <1>13, <1>14 DEF IsJoin
  <2>3. \A i \in 1..(3 + m + n) : b[i] = d[i]
    BY ONLY <1>15, <1>17 DEF IsJoin
  <2>4. \A i \in 1..3 : i \in 1..(3 + m) /\ i \in 1..(3 + m + n)
    BY ONLY m \in Nat, n \in Nat
  <2>5. \A i \in 1..3 : b[i] = head[i]
    BY ONLY <2>1, <2>2, <2>3, <2>4
  <2>6. 1 \in 1..3 /\ 2 \in 1..3 /\ 3 \in 1..3
    OBVIOUS
  <2> QED
    BY ONLY <1>8, <2>5, <2>6
<1>23. \A i \in 1..padding : b[3 + m + n + i] = padding
  BY ONLY <1>7, <1>19 DEF Holds
<1> QED
  BY ONLY <1>b, <1>0, <1>1, <1>4, <1>18, <1>21, <1>22, <1>23 DEF Laid

\* s is the part of b from cell k to cell n.
Cut(b, k, n, s) == SubSeq(b, k, n) = s

\* A part of a sequence that another one holds is that other one.
LEMMA CutOut ==
  ASSUME NEW s \in Seq(Int), NEW b \in Seq(Int), NEW m \in Nat, NEW n \in Nat, NEW k \in Nat,
         Holds(b, m, s), m + Len(s) <= Len(b), k = m + 1, n = m + Len(s)
  PROVE  Cut(b, k, n, s)
<1>1. PICK t : t = SubSeq(b, k, n)
  OBVIOUS
<1>2. Len(s) \in Nat /\ Len(b) \in Nat
  OBVIOUS
<1>3. t \in Seq(Int) /\ Len(t) = Len(s)
  BY <1>1, <1>2
<1>4. ASSUME NEW i \in 1..Len(s) PROVE t[i] = s[i]
  <2>1. t[i] = b[k + i - 1]
    BY <1>1, <1>2, <1>3
  <2>2. k + i - 1 = m + i
    BY <1>2
  <2> QED
    BY <2>1, <2>2 DEF Holds
<1> QED
  <2>1. t = [i \in 1..Len(t) |-> t[i]] /\ s = [i \in 1..Len(s) |-> s[i]]
    BY ONLY <1>3, s \in Seq(Int)
  <2> QED
    BY ONLY <1>1, <1>3, <1>4, <2>1 DEF Cut

\* Envelope::decode is the inverse of Envelope::encode_with_prefix, whatever
\* the payload, the plan and the padding hold.
THEOREM EnvelopeRoundTrip ==
  ASSUME NEW s \in Stamps, NEW plan \in Seq(Int), NEW payload \in Seq(Int), NEW padding \in Nat \ {0},
         Len(plan) < RouteMod,
         TransportOverhead + EnvelopeOverhead + Len(payload) + Len(plan) + padding <= MaxPacket
  PROVE  Decode(Encode(s, plan, payload, padding)) =
           [stamp |-> s, payload |-> payload, plan |-> plan, padding |-> padding]
<1>0. PICK m \in Nat, n \in Nat : m = Len(payload) /\ n = Len(plan)
  OBVIOUS
<1>1. PICK b : b = Encode(s, plan, payload, padding)
  OBVIOUS
<1>2. /\ b \in Seq(Int) /\ Len(b) = 3 + m + n + padding
      /\ b[1] = s.time * RouteMod + n /\ b[2] = s.id /\ b[3] = s.no
      /\ Holds(b, 3, payload) /\ Holds(b, 3 + m, plan)
      /\ \A i \in 1..padding : b[3 + m + n + i] = padding
  <2>1. Laid(b, s, plan, payload, padding)
    BY ONLY <1>1, s \in Stamps, plan \in Seq(Int), payload \in Seq(Int), padding \in Nat \ {0}, EncodeCells
  <2> QED
    BY ONLY <1>0, <2>1 DEF Laid
<1>3. s.time \in Nat /\ RouteMod \in Nat \ {0} /\ n \in 0..(RouteMod - 1)
      /\ s = [time |-> s.time, id |-> s.id, no |-> s.no]
  <2>1. s \in [time : Nat, id : Nat, no : Nat] /\ RouteMod \in Nat
    BY RelayAssumption
  <2>2. s.time \in Nat /\ s = [time |-> s.time, id |-> s.id, no |-> s.no]
    BY ONLY <2>1
  <2> QED
    BY ONLY <1>0, <2>1, <2>2, Len(plan) < RouteMod
<1>4. b[1] % RouteMod = n /\ b[1] \div RouteMod = s.time
  BY ONLY <1>2, <1>3, HeaderFields
<1>5. Last(b) = padding
  <2>1. padding \in 1..padding
    OBVIOUS
  <2>2. b[3 + m + n + padding] = padding
    BY ONLY <1>2, <2>1
  <2> QED
    BY ONLY <1>2, <2>2 DEF Last
<1>6. \A i \in (Len(b) - padding + 1)..Len(b) : b[i] = padding
  <2> SUFFICES ASSUME NEW i \in (Len(b) - padding + 1)..Len(b) PROVE b[i] = padding
    OBVIOUS
  <2>1. PICK j : j = i - (3 + m + n)
    OBVIOUS
  <2>2. j \in 1..padding /\ i = 3 + m + n + j
    BY ONLY <1>2, <2>1, m \in Nat, n \in Nat, padding \in Nat \ {0}, i \in (Len(b) - padding + 1)..Len(b)
  <2> QED
    BY ONLY <1>2, <2>2
<1>7. /\ ~ (Len(b) + TransportOverhead > MaxPacket) /\ ~ (Len(b) < EnvelopeOverhead) /\ padding # 0
      /\ ~ (Len(b) < EnvelopeOverhead + padding + n)
  <2>1. MaxPacket \in Nat
    BY RelayAssumption
  <2> QED
    BY <1>0, <1>2, <2>1 DEF TransportOverhead, EnvelopeOverhead
<1>8. Decode(b) = Split(b, padding)
  BY ONLY <1>4, <1>5, <1>6, <1>7 DEF Decode
<1>9. SubSeq(b, EnvelopeOverhead + 1, Len(b) - padding - n) = payload
  <2>1. EnvelopeOverhead + 1 = 4 /\ Len(b) - padding - n = 3 + m /\ 3 + m <= Len(b) /\ 3 + m \in Nat
    BY ONLY <1>2, m \in Nat, n \in Nat, padding \in Nat \ {0} DEF EnvelopeOverhead
  <2>2. SubSeq(b, 4, 3 + m) = payload
    <3>1. 4 \in Nat /\ 3 \in Nat /\ 4 = 3 + 1 /\ 3 + m = 3 + Len(payload)
      BY ONLY <1>0
    <3>2. Cut(b, 4, 3 + m, payload)
      BY ONLY <1>0, <1>2, <2>1, <3>1, payload \in Seq(Int), CutOut
    <3> QED
      BY ONLY <3>2 DEF Cut
  <2> QED
    BY ONLY <2>1, <2>2
<1>10. SubSeq(b, Len(b) - padding - n + 1, Len(b) - padding) = plan
  <2>1. /\ Len(b) - padding - n + 1 = 3 + m + 1 /\ Len(b) - padding = 3 + m + n
        /\ 3 + m + n <= Len(b) /\ 3 + m + n \in Nat /\ 3 + m \in Nat /\ 3 + m + 1 \in Nat
    BY ONLY <1>2, m \in Nat, n \in Nat, padding \in Nat \ {0}
  <2>2. SubSeq(b, 3 + m + 1, 3 + m + n) = plan
    <3>1. Cut(b, 3 + m + 1, 3 + m + n, plan)
      BY ONLY <1>0, <1>2, <2>1, plan \in Seq(Int), CutOut
    <3> QED
      BY ONLY <3>1 DEF Cut
  <2> QED
    BY ONLY <2>1, <2>2
<1>11. Split(b, padding) = [stamp |-> s, payload |-> payload, plan |-> plan, padding |-> padding]
  <2>1. [time |-> b[1] \div RouteMod, id |-> b[2], no |-> b[3]] = s
    BY ONLY <1>2, <1>3, <1>4
  <2> QED
    BY ONLY <1>4, <1>9, <1>10, <2>1 DEF Split
<1> QED
  BY ONLY <1>1, <1>8, <1>11

-----------------------------------------------------------------------------
(* Least and greatest numbers. *)

\* A set of numbers has a least one.
LEMMA LeastNumber ==
  ASSUME NEW S \in SUBSET Nat, S # {}
  PROVE  \E n \in S : \A m \in S : n <= m
<1> DEFINE R == OpToRel(<, Nat)
<1>1. IsWellFoundedOn(R, Nat)
  BY NatLessThanWellFounded
<1>2. \A m, n \in Nat : <<m, n>> \in R <=> m < n
  BY DEF OpToRel
<1> HIDE DEF R
<1>3. PICK n \in S : \A m \in S : ~ (<<m, n>> \in R)
  BY <1>1, WFMin
<1>4. \A m \in S : m \in Nat /\ n \in Nat
  OBVIOUS
<1>5. \A m \in S : ~ (m < n)
  BY <1>2, <1>3, <1>4
<1> QED
  BY <1>4, <1>5

\* A set of bounded numbers has a greatest one.
LEMMA MaxIsGreatest ==
  ASSUME NEW top \in Nat, NEW S \in SUBSET (0..top), S # {}
  PROVE  Max(S) \in S /\ \A m \in S : Max(S) >= m
<1> DEFINE T == {top - m : m \in S}
<1>1. T \in SUBSET Nat /\ T # {}
  <2>1. \A m \in S : m \in 0..top
    OBVIOUS
  <2>2. \A m \in S : top - m \in Nat
    BY <2>1
  <2> QED
    BY <2>2
<1>2. PICK t \in T : \A u \in T : t <= u
  <2> HIDE DEF T
  <2> QED
    BY <1>1, LeastNumber
<1>3. PICK n \in S : t = top - n
  BY <1>2
<1>4. \A m \in S : top - n <= top - m
  BY <1>2, <1>3
<1>5. \A m \in S : n >= m
  BY <1>4
<1>6. \E x \in S : \A y \in S : x >= y
  BY <1>5
<1> QED
  BY ONLY <1>6, Zenon DEF Max

\* The lesser of two.
LEMMA MinOfTwo ==
  ASSUME NEW a \in Int, NEW b \in Int
  PROVE  Min({a, b}) = IF a <= b THEN a ELSE b
<1>1. CASE a <= b
  <2>1. \A x \in {a, b} : (\A y \in {a, b} : x =< y) <=> x = a
    BY <1>1
  <2> QED
    BY <1>1, <2>1 DEF Min
<1>2. CASE ~ (a <= b)
  <2>1. \A x \in {a, b} : (\A y \in {a, b} : x =< y) <=> x = b
    BY <1>2
  <2> QED
    BY <1>2, <2>1 DEF Min
<1> QED
  BY <1>1, <1>2

\* The types of the constants, in the form the provers need.
LEMMA Constants ==
  /\ RouteMod \in Nat \ {0} /\ MaxPacket \in Nat /\ EntryMtu \in Nat /\ MaxPadding \in Nat \ {0}
  /\ MaxAcks \in Nat /\ MessageSizes \subseteq Nat
  /\ PaddingReserve \in Nat \ {0} /\ PaddingReserve <= MaxPadding
<1>1. /\ {RouteMod, MaxPacket, EntryMtu, MaxPadding, MaxAcks} \cup MessageSizes \subseteq Nat
      /\ PaddingReserve \in 1..MaxPadding /\ Longest[1] \in 1..RouteMod
  BY RelayAssumption
<1> QED
  BY ONLY <1>1

\* effective_transport_mtu is a number no larger than the largest packet.
LEMMA EffectiveMtuType ==
  ASSUME NEW m \in Nat
  PROVE  EffectiveMtu(m) \in Nat /\ EffectiveMtu(m) <= MaxPacket
<1>1. MaxPacket \in Nat
  BY RelayAssumption
<1> QED
  BY <1>1, MinOfTwo DEF EffectiveMtu

\* The padding drawn from a positive room fits it.
LEMMA PaddingFits ==
  ASSUME NEW room \in Nat \ {0}, NEW padding \in Paddings(room)
  PROVE  padding \in 1..MaxPadding /\ padding \in Nat \ {0} /\ padding <= room
<1>1. MaxPadding \in Nat /\ MaxPadding >= 1
  BY Constants
<1>2. padding = 1 \/ padding = Min({room, MaxPadding})
  BY DEF Paddings
<1>3. CASE padding = 1
  BY <1>1, <1>3
<1>4. CASE padding = Min({room, MaxPadding})
  <2>1. padding = IF room <= MaxPadding THEN room ELSE MaxPadding
    BY <1>1, <1>4, MinOfTwo
  <2> QED
    BY ONLY <1>1, <2>1, room \in Nat \ {0}
<1> QED
  BY <1>2, <1>3, <1>4

-----------------------------------------------------------------------------
(* The longest way through the graph. *)

\* One round of scheduled_packet_overhead: the entry of node n.
LongestAt(g, n) ==
  IF n = Target THEN 0
  ELSE Max({0} \cup {g[EntryGraph[n][k].next] + 1 : k \in DOMAIN EntryGraph[n]})

\* Edges lead forward.
LEMMA GraphFacts ==
  /\ Target \in Nat \ {0}
  /\ \A n \in 1..Target : \A k \in DOMAIN EntryGraph[n] :
       /\ EntryGraph[n][k].next \in (n + 1)..Target
       /\ EntryGraph[n][k].channel \in Nat
<1>1. EntryGraph \in Seq(Seq([channel : Nat, next : Nat])) /\ EntryGraph # <<>>
  BY RelayAssumption
<1>2. Target \in Nat \ {0}
  BY <1>1 DEF Target
<1>3. ASSUME NEW n \in 1..Target, NEW k \in DOMAIN EntryGraph[n] PROVE EntryGraph[n][k].channel \in Nat
  <2>1. EntryGraph[n] \in Seq([channel : Nat, next : Nat])
    BY ONLY <1>1, n \in 1..Target DEF Target
  <2>2. EntryGraph[n][k] \in [channel : Nat, next : Nat]
    <3>1. PICK row, T : row = EntryGraph[n] /\ T = [channel : Nat, next : Nat]
      OBVIOUS
    <3>2. row \in Seq(T) /\ k \in DOMAIN row
      BY <2>1, <3>1
    <3>3. row[k] \in T
      BY ONLY <3>2
    <3> QED
      BY ONLY <3>1, <3>3
  <2> QED
    BY ONLY <2>2
<1> QED
  BY <1>2, <1>3, RelayAssumption

\* The vector filled for the last m + 1 nodes.
IsFilled(g, m) == g = [n \in (Target - m)..Target |-> LongestAt(g, n)]

\* The recursion has a solution.
LEMMA FilledExists ==
  ASSUME NEW len \in 0..(Target - 1)
  PROVE  \E g : IsFilled(g, len)
<1> DEFINE None0 == {m \in 0..(Target - 1) : ~ \E g : IsFilled(g, m)}
<1> SUFFICES ASSUME None0 # {} PROVE FALSE
  OBVIOUS
<1>0. Target \in Nat \ {0}
  BY GraphFacts
<1>1. PICK m \in None0 : \A l \in None0 : m <= l
  <2>1. None0 \in SUBSET Nat
    BY <1>0
  <2> HIDE DEF None0
  <2> QED
    BY <2>1, LeastNumber
<1>2. m \in 0..(Target - 1) /\ ~ \E g : IsFilled(g, m)
  BY <1>1
<1>3. CASE m = 0
  <2> DEFINE g == [n \in (Target - 0)..Target |-> 0]
  <2>1. \A n \in (Target - 0)..Target : LongestAt(g, n) = 0
    BY <1>0 DEF LongestAt
  <2>2. IsFilled(g, 0)
    <3>1. [n \in (Target - 0)..Target |-> LongestAt(g, n)] = g
      BY <2>1
    <3> QED
      BY <3>1 DEF IsFilled
  <2> QED
    BY <1>2, <1>3, <2>2
<1>4. CASE m # 0
  <2>1. m - 1 \in 0..(Target - 1) /\ m - 1 \notin None0
    <3> HIDE DEF None0
    <3> QED
      BY <1>0, <1>1, <1>2, <1>4
  <2>2. PICK g : IsFilled(g, m - 1)
    BY <2>1
  <2> DEFINE h == [n \in (Target - m)..Target |-> IF n = Target - m THEN LongestAt(g, n) ELSE g[n]]
  <2>3. \A n \in (Target - m)..Target : n # Target - m => n \in (Target - (m - 1))..Target /\ h[n] = g[n]
    BY <1>0, <1>2
  <2>4. ASSUME NEW n \in (Target - m)..Target PROVE LongestAt(h, n) = LongestAt(g, n)
    <3>1. CASE n = Target
      BY <3>1 DEF LongestAt
    <3>2. CASE n # Target
      <4>1. n \in 1..Target
        BY <1>0, <1>2
      <4>2. \A k \in DOMAIN EntryGraph[n] :
              /\ EntryGraph[n][k].next \in (Target - m)..Target
              /\ EntryGraph[n][k].next # Target - m
        BY <1>0, <1>2, <4>1, GraphFacts
      <4>3. \A k \in DOMAIN EntryGraph[n] : h[EntryGraph[n][k].next] = g[EntryGraph[n][k].next]
        BY <2>3, <4>2
      <4> HIDE DEF h
      <4>4. {h[EntryGraph[n][k].next] + 1 : k \in DOMAIN EntryGraph[n]}
              = {g[EntryGraph[n][k].next] + 1 : k \in DOMAIN EntryGraph[n]}
        BY ONLY <4>3
      <4> QED
        BY ONLY <4>4 DEF LongestAt
    <3> QED
      BY <3>1, <3>2
  <2>5. \A n \in (Target - m)..Target : h[n] = LongestAt(h, n)
    <3> SUFFICES ASSUME NEW n \in (Target - m)..Target PROVE h[n] = LongestAt(g, n)
      BY <2>4
    <3>1. CASE n = Target - m
      BY <3>1
    <3>2. CASE n # Target - m
      BY <2>2, <2>3, <3>2 DEF IsFilled
    <3> QED
      BY <3>1, <3>2
  <2>6. IsFilled(h, m)
    <3>1. h = [n \in (Target - m)..Target |-> h[n]]
      OBVIOUS
    <3> HIDE DEF h
    <3> QED
      BY <2>5, <3>1 DEF IsFilled
  <2> QED
    BY <1>2, <2>6
<1> QED
  BY <1>3, <1>4

\* The vector has the longest way of each node, which is no longer than the
\* number of nodes behind it.
LEMMA LongestFacts ==
  /\ \A n \in 1..Target : Longest[n] \in 0..(Target - n)
  /\ \A n \in 1..Target : \A k \in DOMAIN EntryGraph[n] :
       Longest[n] >= Longest[EntryGraph[n][k].next] + 1
<1>0. Target \in Nat \ {0}
  BY GraphFacts
<1> DEFINE Is(g) == g = [n \in 1..Target |-> LongestAt(g, n)]
<1>1. \E g : Is(g)
  <2>1. Target - 1 \in 0..(Target - 1) /\ Target - (Target - 1) = 1
    BY <1>0
  <2>2. PICK g : IsFilled(g, Target - 1)
    BY <2>1, FilledExists
  <2> QED
    BY <2>1, <2>2 DEF IsFilled
<1>2. Longest = CHOOSE g : Is(g)
  BY DEF Longest, LongestAt
<1>3. Is(Longest)
  <2> HIDE DEF Is
  <2> QED
    BY ONLY <1>1, <1>2, Zenon
<1>4. \A n \in 1..Target : Longest[n] = LongestAt(Longest, n)
  <2>1. PICK g : g = Longest
    OBVIOUS
  <2>2. g = [n \in 1..Target |-> LongestAt(g, n)]
    BY <1>3, <2>1
  <2>3. \A n \in 1..Target : g[n] = LongestAt(g, n)
    BY ONLY <2>2
  <2> QED
    BY ONLY <2>1, <2>3
<1> DEFINE Values(n) == {0} \cup {Longest[EntryGraph[n][k].next] + 1 : k \in DOMAIN EntryGraph[n]}
           Bad == {d \in 0..(Target - 1) : Longest[Target - d] \notin 0..d}
<1>5. ASSUME NEW n \in 1..Target, n # Target,
             \A j \in (n + 1)..Target : Longest[j] \in 0..(Target - j)
      PROVE  /\ Longest[n] \in 0..(Target - n)
             /\ \A k \in DOMAIN EntryGraph[n] : Longest[n] >= Longest[EntryGraph[n][k].next] + 1
  <2>1. Longest[n] = Max(Values(n))
    BY <1>4, <1>5 DEF LongestAt
  <2>2. Values(n) \in SUBSET (0..(Target - n)) /\ Target - n \in Nat
    <3>1. ASSUME NEW k \in DOMAIN EntryGraph[n]
          PROVE  Longest[EntryGraph[n][k].next] + 1 \in 0..(Target - n)
      <4>1. PICK j \in (n + 1)..Target : j = EntryGraph[n][k].next
        BY GraphFacts
      <4>2. Longest[j] \in 0..(Target - j)
        BY <1>5
      <4>3. Longest[j] + 1 \in 0..(Target - n)
        BY ONLY <1>0, <4>2, n \in 1..Target, j \in (n + 1)..Target
      <4> QED
        BY <4>1, <4>3
    <3>2. 0 \in 0..(Target - n) /\ Target - n \in Nat
      BY <1>0
    <3> QED
      BY <3>1, <3>2
  <2>3. Values(n) # {} /\ \A k \in DOMAIN EntryGraph[n] : Longest[EntryGraph[n][k].next] + 1 \in Values(n)
    OBVIOUS
  <2> HIDE DEF Values
  <2>4. Max(Values(n)) \in Values(n) /\ \A v \in Values(n) : Max(Values(n)) >= v
    BY <2>2, <2>3, MaxIsGreatest
  <2> QED
    BY <2>1, <2>2, <2>3, <2>4
<1>6. Bad = {}
  <2> SUFFICES ASSUME Bad # {} PROVE FALSE
    OBVIOUS
  <2>1. PICK d \in Bad : \A l \in Bad : d <= l
    <3>1. Bad \in SUBSET Nat
      BY <1>0
    <3> HIDE DEF Bad
    <3> QED
      BY <3>1, LeastNumber
  <2>2. PICK n : n = Target - d
    OBVIOUS
  <2>3. d \in 0..(Target - 1) /\ Longest[n] \notin 0..d
    BY <2>1, <2>2
  <2>4. n \in 1..Target /\ Target - n = d
    BY <1>0, <2>2, <2>3
  <2>5. \A j \in (n + 1)..Target : Longest[j] \in 0..(Target - j)
    <3> SUFFICES ASSUME NEW j \in (n + 1)..Target PROVE Longest[j] \in 0..(Target - j)
      OBVIOUS
    <3>1. PICK l : l = Target - j
      OBVIOUS
    <3>2. l \in 0..(Target - 1) /\ ~ (d <= l) /\ Target - l = j
      BY <1>0, <2>2, <2>3, <3>1
    <3>3. l \notin Bad
      <4> HIDE DEF Bad
      <4> QED
        BY <2>1, <3>2
    <3> QED
      BY <3>1, <3>2, <3>3
  <2>6. n # Target
    <3> SUFFICES ASSUME n = Target PROVE FALSE
      OBVIOUS
    <3>1. Longest[n] = 0
      BY <1>4, <2>4 DEF LongestAt
    <3> QED
      BY <1>0, <2>3, <3>1
  <2> QED
    BY <1>5, <2>3, <2>4, <2>5, <2>6
<1>7. \A n \in 1..Target : Longest[n] \in 0..(Target - n)
  <2> SUFFICES ASSUME NEW n \in 1..Target PROVE Longest[n] \in 0..(Target - n)
    OBVIOUS
  <2>1. PICK d : d = Target - n
    OBVIOUS
  <2>2. d \in 0..(Target - 1) /\ Target - d = n
    BY <1>0, <2>1
  <2> QED
    BY <1>6, <2>1, <2>2
<1>8. \A k \in DOMAIN EntryGraph[Target] : FALSE
  BY <1>0, GraphFacts
<1> QED
  <2>1. \A n \in 1..Target : n # Target => \A j \in (n + 1)..Target : Longest[j] \in 0..(Target - j)
    BY <1>0, <1>7
  <2> HIDE DEF Is, Values, Bad
  <2> QED
    BY <1>5, <1>7, <1>8, <2>1

\* No plan of the graph is longer than its longest way, and none is empty.
LEMMA PlansFit ==
  ASSUME NEW plan \in Plans
  PROVE  /\ plan \in Seq(Int) /\ Len(plan) \in 1..Longest[1] /\ plan[1] \in DOMAIN To
         /\ Longest[1] \in Nat
<1>0. Target \in Nat \ {0}
  BY GraphFacts
<1>a. PICK p \in UNION {[1..k -> GraphEdges] : k \in 1..(Target - 1)} :
        /\ p[1][1] = 1 /\ EdgeOf(p[Len(p)]).next = Target
        /\ \A i \in 1..(Len(p) - 1) : EdgeOf(p[i]).next = p[i + 1][1]
        /\ plan = [i \in DOMAIN p |-> EdgeOf(p[i]).channel]
  BY DEF Plans
<1>b. PICK k \in 1..(Target - 1) : p \in [1..k -> GraphEdges]
  OBVIOUS
<1>1. /\ p \in [1..k -> GraphEdges] /\ p[1][1] = 1 /\ EdgeOf(p[Len(p)]).next = Target
      /\ \A i \in 1..(Len(p) - 1) : EdgeOf(p[i]).next = p[i + 1][1]
      /\ plan = [i \in DOMAIN p |-> EdgeOf(p[i]).channel]
  BY <1>a, <1>b
<1>2. k \in Nat /\ k >= 1 /\ Len(p) = k /\ DOMAIN p = 1..k
  <2>1. k \in Nat /\ k >= 1 /\ DOMAIN p = 1..k
    BY <1>0, <1>b
  <2> QED
    BY ONLY <2>1, <1>b
<1>3. ASSUME NEW i \in 1..k
      PROVE  /\ p[i][1] \in 1..Target /\ EdgeOf(p[i]).next \in 1..Target
             /\ Longest[p[i][1]] >= Longest[EdgeOf(p[i]).next] + 1
             /\ EdgeOf(p[i]).channel \in Nat
             /\ p[i][1] = 1 => EdgeOf(p[i]).channel \in DOMAIN To
  <2>1. p[i] \in GraphEdges
    BY <1>1
  <2>a. PICK n \in 1..Target : p[i] \in {<<n, e>> : e \in DOMAIN EntryGraph[n]}
    BY <2>1 DEF GraphEdges
  <2>2. PICK e \in DOMAIN EntryGraph[n] : p[i] = <<n, e>>
    BY <2>a
  <2>3. p[i][1] = n /\ EdgeOf(p[i]) = EntryGraph[n][e]
    BY <2>2 DEF EdgeOf
  <2>4. EntryGraph[n][e].next \in (n + 1)..Target /\ EntryGraph[n][e].channel \in Nat
        /\ Longest[n] >= Longest[EntryGraph[n][e].next] + 1
    BY GraphFacts, LongestFacts
  <2>5. n = 1 => EntryGraph[n][e].channel \in DOMAIN To
    BY RelayAssumption
  <2>6. EntryGraph[n][e].next \in 1..Target
    BY <1>0, <2>4
  <2> QED
    BY ONLY <2>2, <2>3, <2>4, <2>5, <2>6
<1> DEFINE Far(d) == Longest[p[k - d][1]] >= d + 1
           Bad == {d \in 0..(k - 1) : ~ Far(d)}
<1>4. \A n \in 1..Target : Longest[n] \in Nat
  BY <1>0, LongestFacts
<1>5. Bad = {}
  <2> SUFFICES ASSUME Bad # {} PROVE FALSE
    OBVIOUS
  <2>1. PICK d \in Bad : \A l \in Bad : d <= l
    <3>1. Bad \in SUBSET Nat
      BY <1>2
    <3> HIDE DEF Bad
    <3> QED
      BY <3>1, LeastNumber
  <2>2. d \in 0..(k - 1) /\ ~ Far(d)
    BY <2>1
  <2>3. PICK i : i = k - d
    OBVIOUS
  <2>4. i \in 1..k
    BY <1>2, <2>2, <2>3
  <2>5. CASE d = 0
    <3>1. EdgeOf(p[i]).next = Target
      BY <1>1, <1>2, <2>3, <2>5
    <3>2. Longest[p[i][1]] >= Longest[Target] + 1 /\ Longest[Target] \in Nat /\ Longest[p[i][1]] \in Nat
      BY <1>0, <1>3, <1>4, <2>4, <3>1
    <3> QED
      BY <2>2, <2>3, <2>5, <3>2
  <2>6. CASE d # 0
    <3>1. d - 1 \in 0..(k - 1) /\ d - 1 \notin Bad
      <4> HIDE DEF Bad
      <4> QED
        BY <1>2, <2>1, <2>2, <2>6
    <3>2. Far(d - 1)
      BY <3>1
    <3>3. i + 1 \in 1..k /\ i \in 1..(k - 1) /\ k - (d - 1) = i + 1
      BY <1>2, <2>2, <2>3, <2>6
    <3>4. EdgeOf(p[i]).next = p[i + 1][1]
      BY <1>1, <1>2, <3>3
    <3>5. Longest[p[i + 1][1]] >= d
      BY <2>2, <3>2, <3>3
    <3>6. Longest[p[i][1]] >= Longest[p[i + 1][1]] + 1 /\ Longest[p[i + 1][1]] \in Nat /\ Longest[p[i][1]] \in Nat
      BY <1>3, <1>4, <2>4, <3>3, <3>4
    <3>7. PICK x \in Nat, y \in Nat : x = Longest[p[i][1]] /\ y = Longest[p[i + 1][1]]
      BY <3>6
    <3>8. x >= y + 1 /\ y >= d /\ ~ (x >= d + 1)
      BY <2>2, <2>3, <3>5, <3>6, <3>7
    <3> QED
      BY ONLY <1>2, <2>2, <3>8, x \in Nat, y \in Nat
  <2> QED
    BY <2>5, <2>6
<1>6. Longest[1] >= k
  <2>1. k - 1 \in 0..(k - 1) /\ k - (k - 1) = 1 /\ (k - 1) + 1 = k
    BY <1>2
  <2>2. Far(k - 1)
    BY <1>5, <2>1
  <2> QED
    BY <1>1, <2>1, <2>2
<1>7. plan \in Seq(Int) /\ Len(plan) = k /\ plan[1] = EdgeOf(p[1]).channel
  <2>1. plan = [i \in 1..k |-> EdgeOf(p[i]).channel]
    BY <1>1, <1>2
  <2>2. plan \in [1..k -> Nat]
    BY <1>3, <2>1
  <2>3. 1 \in 1..k
    BY <1>2
  <2> QED
    BY <1>2, <2>1, <2>2, <2>3
<1>8. EdgeOf(p[1]).channel \in DOMAIN To /\ 1 \in 1..Target
  BY <1>0, <1>1, <1>2, <1>3
<1> QED
  BY <1>2, <1>4, <1>6, <1>7, <1>8

-----------------------------------------------------------------------------
(* The packets of one flush. *)

\* Quotient.
LEMMA DivNat ==
  ASSUME NEW m \in Nat \ {0}, NEW a \in Nat
  PROVE  a \div m \in Nat
OBVIOUS

\* KCP's MTU holds a header and a fragment.
LEMMA MssFacts ==
  /\ KcpMtu \in Int /\ Mss \in Nat \ {0} /\ KcpHeader + Mss = KcpMtu /\ KcpMtu >= 2
  /\ KcpMtu = EffectiveMtu(EntryMtu) - (8 + PaddingReserve + (Longest[1] - 1))
  /\ EffectiveMtu(EntryMtu) \in Nat /\ Longest[1] \in 1..RouteMod
<1>1. EffectiveMtu(EntryMtu) \in Nat /\ PaddingReserve \in Nat
  BY Constants, EffectiveMtuType
<1>2. Longest[1] \in 1..RouteMod /\ RouteMod \in Nat /\ Mss > 0 /\ KcpMtu >= 2
  BY Constants, RelayAssumption
<1>3. KcpMtu = EffectiveMtu(EntryMtu) - (8 + PaddingReserve + (Longest[1] - 1))
  BY <1>1, <1>2 DEF KcpMtu, ScheduledOverhead, MessageOverhead, NonceSize, TransportOverhead, EnvelopeOverhead
<1>4. KcpMtu \in Int
  BY ONLY <1>1, <1>2, <1>3
<1> QED
  BY ONLY <1>1, <1>2, <1>3, <1>4 DEF Mss, KcpHeader

\* Packets no larger than the MTU of KCP.
Small == {packets \in Seq(Int) : packets # <<>> /\ \A i \in 1..Len(packets) : packets[i] <= KcpMtu}

\* flush keeps them small.
LEMMA PackKeeps ==
  ASSUME NEW packets \in Small, NEW data \in Int, data <= Mss
  PROVE  Pack(packets, data) \in Small
<1> DEFINE need == KcpHeader + data
           last == Last(packets)
           n == Len(packets)
<1>0. KcpMtu \in Int /\ Mss \in Int /\ KcpHeader + Mss = KcpMtu /\ KcpHeader = 1
  BY MssFacts DEF KcpHeader
<1>1. packets \in Seq(Int) /\ n \in Nat \ {0} /\ (\A i \in 1..n : packets[i] \in Int /\ packets[i] <= KcpMtu)
  BY DEF Small
<1>2. last \in Int /\ last <= KcpMtu
  BY <1>1 DEF Last
<1>3. need \in Int /\ need <= KcpMtu
  BY <1>0
<1> HIDE DEF need, last
<1>4. CASE last > 0 /\ last + need > KcpMtu
  <2>1. PICK new : new = Append(packets, need)
    OBVIOUS
  <2>2. new \in Seq(Int) /\ Len(new) = n + 1 /\ new[n + 1] = need /\ \A i \in 1..n : new[i] = packets[i]
    BY ONLY <1>1, <1>3, <2>1
  <2>3. new \in Small
    <3>1. \A i \in 1..(n + 1) : i = n + 1 \/ i \in 1..n
      BY <1>1
    <3>2. new # <<>>
      BY <1>1, <2>2
    <3> HIDE DEF n
    <3> QED
      BY <1>1, <1>3, <2>2, <3>1, <3>2 DEF Small
  <2> QED
    BY <1>4, <2>1, <2>3 DEF Pack, need, last
<1>5. CASE ~ (last > 0 /\ last + need > KcpMtu)
  <2>1. PICK sum : sum = last + need
    OBVIOUS
  <2>2. sum \in Int /\ sum <= KcpMtu
    BY <1>0, <1>2, <1>3, <1>5, <2>1
  <2>3. PICK front : front = SubSeq(packets, 1, n - 1)
    OBVIOUS
  <2>4. front \in Seq(Int) /\ Len(front) = n - 1 /\ \A i \in 1..(n - 1) : front[i] = packets[i]
    <3>0. PICK k \in Nat : k = n - 1 /\ k <= Len(packets) /\ front = SubSeq(packets, 1, k)
      BY <1>1, <2>3
    <3>1. front \in Seq(Int) /\ Len(front) = n - 1
      <4>1. front \in Seq(Int)
        BY ONLY <1>1, <3>0
      <4>2. Len(front) = k
        BY ONLY <1>1, <3>0
      <4> QED
        BY <3>0, <4>1, <4>2
    <3>2. \A i \in 1..(n - 1) : front[i] = packets[1 + i - 1] /\ 1 + i - 1 = i
      BY ONLY <1>1, <2>3, <3>1
    <3> QED
      BY ONLY <3>1, <3>2
  <2>5. PICK new : new = front \o <<sum>>
    OBVIOUS
  <2>6. new \in Seq(Int) /\ Len(new) = n /\ new[n] = sum /\ \A i \in 1..(n - 1) : new[i] = front[i]
    BY ONLY <1>1, <2>2, <2>4, <2>5
  <2>7. new \in Small
    <3>1. \A i \in 1..n : i = n \/ i \in 1..(n - 1)
      BY <1>1
    <3>2. new # <<>>
      BY <1>1, <2>6
    <3> HIDE DEF n
    <3> QED
      BY <1>1, <2>2, <2>4, <2>6, <3>1, <3>2 DEF Small
  <2> QED
    BY <1>5, <2>1, <2>3, <2>5, <2>7 DEF Pack, need, last, Front
<1> QED
  BY <1>4, <1>5

\* g has the packets after each of the first segments.
IsFlush(g, segments, len) ==
  g = [i \in 0..len |-> IF i = 0 THEN <<0>> ELSE Pack(g[i - 1], segments[i])]

\* The recursion has a solution.
LEMMA FlushExists ==
  ASSUME NEW segments, NEW len \in Nat
  PROVE  \E g : IsFlush(g, segments, len)
<1> USE DEF IsFlush
<1> DEFINE None0 == {n \in Nat : ~ \E g : IsFlush(g, segments, n)}
<1> SUFFICES ASSUME None0 # {} PROVE FALSE
  OBVIOUS
<1>1. PICK n \in None0 : \A m \in None0 : n <= m
  BY LeastNumber
<1>2. CASE n = 0
  <2> DEFINE g == [i \in 0..0 |-> <<0>>]
  <2>1. IsFlush(g, segments, 0)
    OBVIOUS
  <2> QED
    BY <1>1, <1>2, <2>1
<1>3. CASE n # 0
  <2>1. n \in Nat /\ n - 1 \in Nat /\ n - 1 \notin None0
    <3>1. None0 \in SUBSET Nat
      OBVIOUS
    <3> HIDE DEF None0
    <3> QED
      BY <1>1, <1>3, <3>1
  <2>2. PICK g : IsFlush(g, segments, n - 1)
    BY <2>1
  <2> DEFINE h == [i \in 0..n |-> IF i = n THEN Pack(g[n - 1], segments[n]) ELSE g[i]]
  <2>3. \A i \in 0..n : h[i] = IF i = 0 THEN <<0>> ELSE Pack(h[i - 1], segments[i])
    <3> SUFFICES ASSUME NEW i \in 0..n
                 PROVE  h[i] = IF i = 0 THEN <<0>> ELSE Pack(h[i - 1], segments[i])
      OBVIOUS
    <3>1. CASE i = n
      <4>1. h[i - 1] = g[i - 1] /\ h[i] = Pack(g[i - 1], segments[i])
        BY <1>3, <2>1, <3>1
      <4> QED
        BY <1>3, <3>1, <4>1
    <3>2. CASE i # n /\ i # 0
      <4>1. i \in 0..(n - 1) /\ i - 1 \in 0..n /\ i - 1 # n
        BY <2>1, <3>2
      <4>2. h[i] = g[i] /\ h[i - 1] = g[i - 1]
        BY <3>2, <4>1
      <4>3. g[i] = Pack(g[i - 1], segments[i])
        BY <2>2, <3>2, <4>1
      <4> QED
        BY <3>2, <4>2, <4>3
    <3>3. CASE i # n /\ i = 0
      <4>1. h[0] = g[0] /\ g[0] = <<0>>
        BY <2>1, <2>2, <3>3
      <4> QED
        BY <3>3, <4>1
    <3> QED
      BY <3>1, <3>2, <3>3
  <2>4. IsFlush(h, segments, n)
    BY <2>3
  <2> QED
    BY <1>1, <2>4
<1> QED
  BY <1>2, <1>3

\* Every fragment of a message is a number no larger than the MSS.
LEMMA FragmentsFit ==
  ASSUME NEW len \in MessageSizes
  PROVE  /\ Fragments(len) \in Seq(Int)
         /\ \A i \in 1..Len(Fragments(len)) : Fragments(len)[i] <= Mss
<1>1. len \in Nat /\ Mss \in Nat \ {0}
  BY Constants, MssFacts
<1>2. PICK count : count = FragmentCount(len)
  OBVIOUS
<1>3. count \in Nat
  <2>1. PICK q : q = (len + Mss - 1) \div Mss
    OBVIOUS
  <2>2. PICK a \in Nat : a = len + Mss - 1
    BY <1>1
  <2>3. q \in Nat
    BY ONLY <1>1, <2>1, <2>2, DivNat
  <2>4. PICK top \in Nat : q <= top /\ 1 <= top
    <3>1. q + 1 \in Nat /\ q <= q + 1 /\ 1 <= q + 1
      BY ONLY <2>3
    <3> QED
      BY <3>1
  <2>5. {q, 1} \in SUBSET (0..top) /\ {q, 1} # {}
    BY ONLY <2>3, <2>4
  <2>6. Max({q, 1}) \in {q, 1}
    BY ONLY <2>5, MaxIsGreatest, top \in Nat
  <2>7. count = Max({q, 1})
    BY <1>2, <2>1 DEF FragmentCount
  <2> QED
    BY ONLY <2>3, <2>6, <2>7
<1>4. PICK f : f = Fragments(len)
  OBVIOUS
<1>5. f = [i \in 1..count |-> Min({Mss, len - (i - 1) * Mss})]
  BY <1>2, <1>4 DEF Fragments
<1>6. ASSUME NEW i \in 1..count
      PROVE  Min({Mss, len - (i - 1) * Mss}) \in Int /\ Min({Mss, len - (i - 1) * Mss}) <= Mss
  <2>1. PICK a : a = len - (i - 1) * Mss
    OBVIOUS
  <2>2. a \in Int
    BY <1>1, <1>3, <2>1
  <2>3. Min({Mss, a}) = IF Mss <= a THEN Mss ELSE a
    BY <1>1, <2>2, MinOfTwo
  <2> QED
    BY <1>1, <2>1, <2>2, <2>3
<1>7. f \in [1..count -> Int]
  BY <1>5, <1>6
<1>8. f \in Seq(Int) /\ Len(f) = count
  BY <1>3, <1>7
<1> QED
  BY <1>4, <1>5, <1>6, <1>8

\* Everything KCP puts out is no larger than its MTU.
LEMMA KcpSizesFit ==
  ASSUME NEW n \in KcpSizes
  PROVE  n \in Int /\ n <= KcpMtu
<1>1. PICK acks \in 0..MaxAcks, len \in MessageSizes : n \in Range(Flushed(acks, len))
  BY DEF KcpSizes
<1>2. PICK segments : segments = [i \in 1..acks |-> 0] \o Fragments(len)
  OBVIOUS
<1>3. segments \in Seq(Int) /\ \A i \in 1..Len(segments) : segments[i] <= Mss
  <2>1. PICK f : f = Fragments(len)
    OBVIOUS
  <2>2. f \in Seq(Int) /\ (\A i \in 1..Len(f) : f[i] <= Mss) /\ Mss \in Nat
    BY <2>1, FragmentsFit, MssFacts
  <2>3. PICK z : z = [i \in 1..acks |-> 0]
    OBVIOUS
  <2>4. acks \in Nat
    BY Constants
  <2>5. z \in Seq(Int) /\ Len(z) = acks /\ \A i \in 1..acks : z[i] = 0
    BY ONLY <2>3, <2>4
  <2>6. segments = z \o f
    BY <1>2, <2>1, <2>3
  <2>a. IsJoin(segments, z, f)
    BY ONLY <2>2, <2>5, <2>6, Joined
  <2>7. /\ segments \in Seq(Int) /\ Len(segments) = acks + Len(f)
        /\ \A i \in 1..acks : segments[i] = z[i]
        /\ \A i \in 1..Len(f) : segments[acks + i] = f[i]
    BY ONLY <2>5, <2>a DEF IsJoin, Holds
  <2>8. ASSUME NEW i \in 1..Len(segments) PROVE segments[i] <= Mss
    <3>1. CASE i <= acks
      BY <2>2, <2>4, <2>5, <2>7, <3>1
    <3>2. CASE ~ (i <= acks)
      <4>0. PICK j \in 1..Len(f) : i = acks + j
        <5>1. Len(f) \in Nat
          BY <2>2
        <5>2. i - acks \in 1..Len(f) /\ i = acks + (i - acks)
          BY <2>4, <2>7, <3>2, <5>1
        <5> QED
          BY <5>2
      <4>1. segments[i] = f[j] /\ j \in 1..Len(f)
        BY <2>7, <4>0
      <4> QED
        BY ONLY <2>2, <4>1
    <3> QED
      BY <3>1, <3>2
  <2> QED
    BY <2>7, <2>8
<1> DEFINE run == CHOOSE g : IsFlush(g, segments, Len(segments))
<1>4. Len(segments) \in Nat /\ \A i \in 1..Len(segments) : segments[i] \in Int
  BY <1>3
<1>5. IsFlush(run, segments, Len(segments))
  <2>1. \E g : IsFlush(g, segments, Len(segments))
    BY <1>4, FlushExists
  <2> QED
    BY ONLY <2>1, Zenon
<1>6. Flushed(acks, len) = run[Len(segments)]
  BY <1>2 DEF Flushed, IsFlush
<1>7. run[0] = <<0>> /\ \A i \in 1..Len(segments) : run[i] = Pack(run[i - 1], segments[i])
  <2> HIDE DEF run
  <2> QED
    BY <1>4, <1>5 DEF IsFlush
<1> HIDE DEF run
<1> DEFINE Bad == {i \in 0..Len(segments) : run[i] \notin Small}
<1>8. Bad = {}
  <2> SUFFICES ASSUME Bad # {} PROVE FALSE
    OBVIOUS
  <2>1. PICK k \in Bad : \A m \in Bad : k <= m
    <3>1. Bad \in SUBSET Nat
      BY <1>4
    <3> HIDE DEF Bad
    <3> QED
      BY <3>1, LeastNumber
  <2>2. run[0] \in Small
    <3>1. <<0>> \in Seq(Int) /\ <<0>> # <<>> /\ Len(<<0>>) = 1 /\ <<0>>[1] = 0
      OBVIOUS
    <3>2. 0 <= KcpMtu
      BY MssFacts
    <3>3. \A i \in 1..1 : i = 1
      OBVIOUS
    <3> QED
      BY <1>7, <3>1, <3>2, <3>3 DEF Small
  <2>3. k # 0 /\ k - 1 \in 0..Len(segments) /\ k \in 1..Len(segments)
    BY <1>4, <2>1, <2>2
  <2>4. run[k - 1] \in Small
    BY <2>1, <2>3
  <2>5. run[k] \in Small
    BY <1>3, <1>4, <1>7, <2>3, <2>4, PackKeeps
  <2> QED
    BY <2>1, <2>5
<1>9. Flushed(acks, len) \in Small
  BY <1>4, <1>6, <1>8
<1>10. PICK s \in Small : n \in Range(s)
  BY <1>1, <1>9
<1>11. s \in Seq(Int) /\ \A i \in 1..Len(s) : s[i] <= KcpMtu
  BY DEF Small
<1>12. PICK i \in DOMAIN s : n = s[i]
  BY <1>10 DEF Range
<1> QED
  BY <1>11, <1>12

-----------------------------------------------------------------------------
(* The messages. *)

\* A message an endpoint sends: its body is cells and no longer than the MTU of
\* KCP, and its flags can be told apart.
LEMMA MessageFacts ==
  ASSUME NEW s, NEW m \in Messages(s)
  PROVE  /\ m = [type |-> m.type, depth |-> m.depth, body |-> m.body]
         /\ m.body \in Seq(Int) /\ Len(m.body) <= KcpMtu
         /\ m.type + DepthUnit * m.depth \in Nat
         /\ (m.type + DepthUnit * m.depth) % DepthUnit = m.type
         /\ (m.type + DepthUnit * m.depth) \div DepthUnit = m.depth
<1>0. KcpMtu \in Int /\ KcpMtu >= 2
  BY MssFacts
<1>1. CASE m = [type |-> KeepAlive, depth |-> 0, body |-> <<>>]
  BY <1>0, <1>1 DEF KeepAlive, DepthUnit
<1>2. CASE m = [type |-> RouteReply, depth |-> 2, body |-> <<1, 1>>]
  BY <1>0, <1>2 DEF RouteReply, DepthUnit
<1>3. ASSUME NEW n \in KcpSizes, m = [type |-> KcpPacket, depth |-> 1, body |-> [i \in 1..n |-> Data]]
      PROVE  /\ m = [type |-> m.type, depth |-> m.depth, body |-> m.body]
             /\ m.body \in Seq(Int) /\ Len(m.body) <= KcpMtu
             /\ m.type + DepthUnit * m.depth \in Nat
             /\ (m.type + DepthUnit * m.depth) % DepthUnit = m.type
             /\ (m.type + DepthUnit * m.depth) \div DepthUnit = m.depth
  <2>1. n \in Int /\ n <= KcpMtu
    BY KcpSizesFit
  <2>2. PICK body : body = [i \in 1..n |-> Data]
    OBVIOUS
  <2>3. body \in Seq(Int) /\ Len(body) <= KcpMtu
    <3>1. PICK k \in Nat : 1..n = 1..k /\ k <= KcpMtu
      <4>1. CASE n >= 0
        BY <2>1, <4>1
      <4>2. CASE n < 0
        <5>1. 1..n = 1..0
          BY <2>1, <4>2
        <5>2. 0 \in Nat /\ 0 <= KcpMtu
          BY <1>0
        <5> QED
          BY ONLY <5>1, <5>2
      <4> QED
        BY <2>1, <4>1, <4>2
    <3>2. body = [i \in 1..k |-> 1]
      BY <2>2, <3>1 DEF Data
    <3>3. body \in Seq(Int) /\ Len(body) = k
      BY ONLY <3>2, k \in Nat
    <3> QED
      BY <3>1, <3>3
  <2>4. m.type = 1 /\ m.depth = 1 /\ m.body = body /\ m = [type |-> m.type, depth |-> m.depth, body |-> m.body]
    BY <1>3, <2>2 DEF KcpPacket
  <2> QED
    BY <2>3, <2>4 DEF DepthUnit
<1> QED
  BY <1>1, <1>2, <1>3 DEF Messages

\* open_endpoint_message gives back what seal_endpoint_message sealed, under
\* the nonce of the stamp.
LEMMA SealRoundTrip ==
  ASSUME NEW s \in Stamps, NEW m \in Messages(s)
  PROVE  /\ Seal(s, m) \in Seq(Int) /\ Len(Seal(s, m)) = MessageOverhead + Len(m.body)
         /\ Opens(s, Seal(s, m)) /\ Opened(Seal(s, m)) = m
<1>1. PICK n : n = Nonce(s)
  OBVIOUS
<1>2. n \in Seq(Int) /\ Len(n) = 3
  <2>1. s \in [time : Nat, id : Nat, no : Nat] /\ RouteMod \in Nat
    BY Constants, RelayAssumption
  <2>2. s.time \in Nat /\ s.id \in Nat /\ s.no \in Nat
    BY ONLY <2>1
  <2>3. PICK a, b, c : a = s.time * RouteMod /\ b = s.id /\ c = s.no
    OBVIOUS
  <2>4. a \in Nat /\ b \in Nat /\ c \in Nat
    BY ONLY <2>1, <2>2, <2>3
  <2>5. n = <<a, b, c>>
    BY <1>1, <2>3 DEF Nonce
  <2> QED
    BY ONLY <2>4, <2>5
<1>3. PICK f : f = m.type + DepthUnit * m.depth
  OBVIOUS
<1>4. PICK body : body = m.body
  OBVIOUS
<1>5. /\ m = [type |-> m.type, depth |-> m.depth, body |-> body] /\ body \in Seq(Int)
      /\ f \in Nat /\ f % DepthUnit = m.type /\ f \div DepthUnit = m.depth
  BY <1>3, <1>4, MessageFacts
<1>6. PICK g : g = <<f>>
  OBVIOUS
<1>7. g \in Seq(Int) /\ Len(g) = 1 /\ g[1] = f
  BY ONLY <1>5, <1>6
<1>8. PICK c : c = n \o g
  OBVIOUS
<1>9. IsJoin(c, n, g)
  BY ONLY <1>2, <1>7, <1>8, Joined
<1>10. c \in Seq(Int) /\ Len(c) = 4
  BY ONLY <1>2, <1>7, <1>9 DEF IsJoin
<1>11. PICK p : p = c \o body
  OBVIOUS
<1>12. IsJoin(p, c, body)
  BY ONLY <1>5, <1>10, <1>11, Joined
<1>13. p \in Seq(Int) /\ Len(p) = 4 + Len(body) /\ Holds(p, 4, body)
  BY ONLY <1>10, <1>12 DEF IsJoin
<1>14. p = Seal(s, m)
  BY <1>1, <1>3, <1>4, <1>6, <1>8, <1>11 DEF Seal
<1>15. Len(body) \in Nat /\ 4 + Len(body) <= Len(p)
  BY ONLY <1>5, <1>13
<1>16. Holds(c, 0, n) /\ Holds(c, 3, g)
  <2>1. \A i \in 1..Len(n) : c[i] = n[i]
    BY ONLY <1>9 DEF IsJoin
  <2>2. Holds(c, 3, g)
    BY ONLY <1>2, <1>9 DEF IsJoin
  <2> QED
    BY ONLY <1>2, <2>1, <2>2 DEF Holds
<1>17. Holds(p, 0, n) /\ Holds(p, 3, g)
  <2>1. 0 \in Nat /\ 3 \in Nat /\ 0 + Len(n) <= Len(c) /\ 3 + Len(g) <= Len(c)
    BY ONLY <1>2, <1>7, <1>10
  <2> QED
    <3>1. Holds(p, 0, n)
      BY ONLY <1>2, <1>5, <1>10, <1>12, <1>16, <2>1, HoldsOn
    <3>2. Holds(p, 3, g)
      BY ONLY <1>5, <1>7, <1>10, <1>12, <1>16, <2>1, HoldsOn
    <3> QED
      BY ONLY <3>1, <3>2
<1>18. p[4] = f
  <2>1. 1 \in 1..Len(g) /\ 3 + 1 = 4
    BY ONLY <1>7
  <2> QED
    BY ONLY <1>7, <1>17, <2>1 DEF Holds
<1>19. SubSeq(p, 1, 3) = n /\ SubSeq(p, 5, Len(p)) = body
  <2>1. /\ 0 \in Nat /\ 1 \in Nat /\ 3 \in Nat /\ 4 \in Nat /\ 5 \in Nat /\ Len(p) \in Nat
        /\ 1 = 0 + 1 /\ 3 = 0 + Len(n) /\ 0 + Len(n) <= Len(p)
        /\ 5 = 4 + 1 /\ Len(p) = 4 + Len(body) /\ 4 + Len(body) <= Len(p)
    BY ONLY <1>2, <1>13, <1>15
  <2>2. Cut(p, 1, 3, n)
    BY ONLY <1>2, <1>13, <1>17, <2>1, CutOut
  <2>3. Cut(p, 5, Len(p), body)
    BY ONLY <1>5, <1>13, <2>1, CutOut
  <2> QED
    BY ONLY <2>2, <2>3 DEF Cut
<1>20. Opens(s, p)
  BY ONLY <1>1, <1>13, <1>15, <1>19 DEF Opens, NonceSize
<1>21. Opened(p) = m
  BY ONLY <1>5, <1>18, <1>19 DEF Opened, NonceSize
<1> QED
  BY ONLY <1>4, <1>13, <1>14, <1>20, <1>21 DEF MessageOverhead, NonceSize

-----------------------------------------------------------------------------
(* Packets on their way. *)

\* The hops that are left.
Left(p) == SubSeq(p.route, p.hop + 1, Len(p.route))

\* A packet is what an endpoint or a relay has encoded for the rest of a plan,
\* within the MTU of that node, and stands at a channel that exists.
Sound(p) ==
  /\ p.stamp \in Stamps /\ p.message \in Messages(p.stamp) /\ p.route \in Plans
  /\ p.hop \in 1..Len(p.route) /\ On(p) \in DOMAIN To
  /\ \E padding \in 1..MaxPadding : p.bytes = Encode(p.stamp, Left(p), Seal(p.stamp, p.message), padding)
  /\ SenderMtu(p) \in Nat /\ SenderMtu(p) <= MaxPacket
  /\ Len(p.bytes) + TransportOverhead <= SenderMtu(p)

Carried ==
  /\ mtu \in Mtus
  /\ \A p \in net \cup outbox : Sound(p)
  /\ \A p \in outbox : p.hop = 1

\* The length of an encoded envelope.
LEMMA EncodedLength ==
  ASSUME NEW s \in Stamps, NEW plan \in Seq(Int), NEW payload \in Seq(Int), NEW padding \in Nat \ {0}
  PROVE  Len(Encode(s, plan, payload, padding)) = EnvelopeOverhead + Len(payload) + Len(plan) + padding
<1>1. Laid(Encode(s, plan, payload, padding), s, plan, payload, padding)
  BY EncodeCells
<1> QED
  BY ONLY <1>1 DEF Laid, EnvelopeOverhead

\* The rest of a plan.
LEMMA LeftFacts ==
  ASSUME NEW p, p.route \in Plans, p.hop \in 1..Len(p.route)
  PROVE  /\ Left(p) \in Seq(Int) /\ Len(Left(p)) = Len(p.route) - p.hop
         /\ Len(Left(p)) < RouteMod /\ Len(p.route) \in 1..Longest[1] /\ p.hop \in Nat \ {0}
<1>1. PICK r, h : r = p.route /\ h = p.hop
  OBVIOUS
<1>2. r \in Seq(Int) /\ Len(r) \in 1..Longest[1] /\ Longest[1] \in 1..RouteMod /\ RouteMod \in Nat
  BY <1>1, PlansFit, MssFacts, Constants
<1>3. Len(r) \in Nat /\ h \in 1..Len(r) /\ h \in Nat \ {0} /\ Longest[1] <= RouteMod /\ Longest[1] \in Int
  BY <1>1, <1>2
<1>a. PICK k \in Nat : k = h + 1
  BY <1>3
<1>4. PICK t : t = SubSeq(r, k, Len(r))
  OBVIOUS
<1>5. t \in Seq(Int) /\ Len(t) = Len(r) - h
  BY ONLY <1>2, <1>3, <1>a, <1>4
<1>6. t = Left(p)
  BY <1>1, <1>a, <1>4 DEF Left
<1>7. Len(r) - h < RouteMod
  BY ONLY <1>2, <1>3
<1> QED
  BY ONLY <1>1, <1>2, <1>3, <1>5, <1>6, <1>7

\* The rest of l stands in r one cell further on.
TailCut(l, h, r) ==
  /\ Tail(l) \in Seq(Int) /\ Len(Tail(l)) = Len(l) - 1
  /\ Tail(l) = SubSeq(r, h + 2, Len(r))

\* What is left when the first hop is taken off.
LEMMA TailIsCut ==
  ASSUME NEW r \in Seq(Int), NEW l \in Seq(Int), l # <<>>, NEW h \in Nat, Holds(r, h, l), h + Len(l) = Len(r)
  PROVE  TailCut(l, h, r)
<1>1. PICK t : t = Tail(l)
  OBVIOUS
<1>2. t \in Seq(Int) /\ Len(t) = Len(l) - 1 /\ Len(l) \in Nat \ {0} /\ \A i \in 1..Len(t) : t[i] = l[i + 1]
  BY ONLY <1>1, l \in Seq(Int), l # <<>>
<1>3. PICK g \in Nat : g = h + 1
  OBVIOUS
<1>4. Holds(r, g, t)
  <2> SUFFICES ASSUME NEW i \in 1..Len(t) PROVE r[g + i] = t[i]
    BY DEF Holds
  <2>1. i + 1 \in 1..Len(l) /\ g + i = h + (i + 1)
    BY <1>2, <1>3
  <2>2. r[h + (i + 1)] = l[i + 1]
    BY <2>1 DEF Holds
  <2> QED
    BY <1>2, <2>1, <2>2
<1>5. /\ h + 2 \in Nat /\ Len(r) \in Nat /\ g + Len(t) <= Len(r) /\ h + 2 = g + 1 /\ Len(r) = g + Len(t)
  BY <1>2, <1>3
<1>6. Cut(r, h + 2, Len(r), t)
  BY ONLY <1>2, <1>4, <1>5, r \in Seq(Int), g \in Nat, CutOut
<1> QED
  BY ONLY <1>1, <1>2, <1>6 DEF Cut, TailCut

\* What a node finds in a packet.
Found(p, padding) ==
  [stamp |-> p.stamp, payload |-> Seal(p.stamp, p.message), plan |-> Left(p), padding |-> padding]

\* A packet decodes to what it was made of, and its length is known.
LEMMA SoundDecodes ==
  ASSUME NEW p, Sound(p)
  PROVE  \E padding \in 1..MaxPadding :
           /\ Decode(p.bytes) = Found(p, padding)
           /\ Len(p.bytes) = EnvelopeOverhead + MessageOverhead + Len(p.message.body)
                             + (Len(p.route) - p.hop) + padding
<1>1. PICK padding \in 1..MaxPadding : p.bytes = Encode(p.stamp, Left(p), Seal(p.stamp, p.message), padding)
  BY DEF Sound
<1>2. PICK s, m, b : s = p.stamp /\ m = Seal(p.stamp, p.message) /\ b = p.bytes
  OBVIOUS
<1>3. PICK l : l = Left(p)
  OBVIOUS
<1>4. s \in Stamps /\ m \in Seq(Int) /\ Len(m) = MessageOverhead + Len(p.message.body)
  BY <1>2, SealRoundTrip DEF Sound
<1>5. l \in Seq(Int) /\ Len(l) = Len(p.route) - p.hop /\ Len(l) < RouteMod
  BY <1>3, LeftFacts DEF Sound
<1>6. padding \in Nat \ {0}
  BY Constants
<1>7. b = Encode(s, l, m, padding)
  BY <1>1, <1>2, <1>3
<1>8. Len(b) = EnvelopeOverhead + Len(m) + Len(l) + padding
  BY ONLY <1>4, <1>5, <1>6, <1>7, EncodedLength
<1>9. Len(b) + TransportOverhead <= MaxPacket
  <2>1. PICK n : n = SenderMtu(p)
    OBVIOUS
  <2>2. n \in Nat /\ n <= MaxPacket /\ Len(b) + TransportOverhead <= n /\ MaxPacket \in Nat
    BY <1>2, <2>1, Constants DEF Sound
  <2>3. Len(b) \in Nat
    BY ONLY <1>4, <1>5, <1>6, <1>8 DEF EnvelopeOverhead
  <2> QED
    BY ONLY <2>2, <2>3 DEF TransportOverhead
<1>10. TransportOverhead + EnvelopeOverhead + Len(m) + Len(l) + padding <= MaxPacket
  <2>1. PICK x, y : x = Len(m) /\ y = Len(l)
    OBVIOUS
  <2>2. x \in Nat /\ y \in Nat
    BY ONLY <1>4, <1>5, <2>1
  <2>3. Len(b) = 3 + x + y + padding /\ Len(b) + 1 <= MaxPacket /\ MaxPacket \in Nat
    BY <1>8, <1>9, <2>1, Constants DEF TransportOverhead, EnvelopeOverhead
  <2>4. 1 + 3 + x + y + padding <= MaxPacket
    BY ONLY <1>6, <2>2, <2>3
  <2> QED
    BY ONLY <2>1, <2>4 DEF TransportOverhead, EnvelopeOverhead
<1>11. Decode(b) = [stamp |-> s, payload |-> m, plan |-> l, padding |-> padding]
  BY ONLY <1>4, <1>5, <1>6, <1>7, <1>10, EnvelopeRoundTrip
<1>12. Decode(p.bytes) = Found(p, padding)
  BY ONLY <1>2, <1>3, <1>11 DEF Found
<1>13. Len(p.bytes) = EnvelopeOverhead + MessageOverhead + Len(p.message.body)
                      + (Len(p.route) - p.hop) + padding
  <2>1. Len(m) \in Nat /\ Len(l) \in Nat
    BY ONLY <1>4, <1>5
  <2>2. PICK x : x = Len(p.message.body)
    OBVIOUS
  <2>3. x \in Nat
    BY <2>2, MessageFacts DEF Sound
  <2> QED
    BY ONLY <1>2, <1>4, <1>5, <1>6, <1>8, <2>1, <2>2, <2>3 DEF EnvelopeOverhead, MessageOverhead, NonceSize
<1> QED
  BY <1>12, <1>13

\* The room an endpoint has for padding, over every plan of its graph.
LEMMA Room ==
  ASSUME NEW s, NEW m \in Messages(s), NEW plan \in Plans
  PROVE  /\ EffectiveMtu(EntryMtu)
              - (TransportOverhead + EnvelopeOverhead + (Len(plan) - 1) + (MessageOverhead + Len(m.body)))
                >= PaddingReserve
         /\ Len(m.body) \in Nat /\ Len(plan) \in Nat
<1>1. PICK x, y : x = Len(m.body) /\ y = Len(plan)
  OBVIOUS
<1>2. m.body \in Seq(Int) /\ x <= KcpMtu
  BY <1>1, MessageFacts
<1>3. x \in Nat
  BY ONLY <1>1, <1>2
<1>4. y \in 1..Longest[1] /\ Longest[1] \in Nat
  BY <1>1, PlansFit
<1>5. /\ KcpMtu = EffectiveMtu(EntryMtu) - (8 + PaddingReserve + (Longest[1] - 1)) /\ KcpMtu \in Int
      /\ EffectiveMtu(EntryMtu) \in Nat /\ PaddingReserve \in Nat
  BY MssFacts, Constants
<1>6. EffectiveMtu(EntryMtu) - (1 + 3 + (y - 1) + (4 + x)) >= PaddingReserve
  BY ONLY <1>2, <1>3, <1>4, <1>5
<1>7. TransportOverhead = 1 /\ EnvelopeOverhead = 3 /\ MessageOverhead = 4 /\ y \in Nat
  BY ONLY <1>4 DEF TransportOverhead, EnvelopeOverhead, MessageOverhead, NonceSize
<1> QED
  BY ONLY <1>1, <1>3, <1>6, <1>7

\* A packet send_envelope makes is sound, also when it sends a sealed message
\* again over another plan.
LEMMA SentIsSound ==
  ASSUME NEW s \in Stamps, NEW m \in Messages(s), NEW plan \in Plans,
         NEW q \in SendEnvelope(s, m, Seal(s, m), plan)
  PROVE  Sound(q) /\ q.hop = 1
<1>1. PICK u : u = TransportOverhead + EnvelopeOverhead + (Len(plan) - 1) + Len(Seal(s, m))
  OBVIOUS
<1>2. PICK mtu0 \in Nat : mtu0 = EffectiveMtu(EntryMtu) /\ mtu0 <= MaxPacket
  BY Constants, EffectiveMtuType
<1>3. PICK padding \in Paddings(mtu0 - u) : q = Packet(s, m, plan, 1, Encode(s, Tail(plan), Seal(s, m), padding))
  BY <1>1, <1>2 DEF SendEnvelope
<1>4. Len(Seal(s, m)) = MessageOverhead + Len(m.body) /\ Seal(s, m) \in Seq(Int)
  BY SealRoundTrip
<1>5. mtu0 - u >= PaddingReserve /\ Len(m.body) \in Nat /\ Len(plan) \in Nat
  BY <1>1, <1>2, <1>4, Room
<1>6. mtu0 - u \in Nat \ {0} /\ u \in Nat
  <2>1. u \in Int
    BY ONLY <1>1, <1>4, <1>5 DEF TransportOverhead, EnvelopeOverhead, MessageOverhead, NonceSize
  <2>2. PaddingReserve \in Nat \ {0}
    BY Constants
  <2>3. Len(plan) >= 1
    BY PlansFit
  <2>4. u \in Nat
    <3>1. PICK x \in Nat, y \in Nat : x = Len(m.body) /\ y = Len(plan)
      BY <1>5
    <3>2. TransportOverhead = 1 /\ EnvelopeOverhead = 3 /\ MessageOverhead = 4
      BY DEF TransportOverhead, EnvelopeOverhead, MessageOverhead, NonceSize
    <3>3. u = 1 + 3 + (y - 1) + (4 + x) /\ y >= 1
      BY ONLY <1>1, <1>4, <2>3, <3>1, <3>2
    <3> QED
      BY ONLY <3>3, x \in Nat, y \in Nat
  <2> QED
    BY ONLY <1>5, <2>1, <2>2, <2>4, mtu0 \in Nat
<1>7. padding \in 1..MaxPadding /\ padding \in Nat \ {0} /\ padding <= mtu0 - u
  BY <1>6, PaddingFits
<1>8. /\ q.stamp = s /\ q.message = m /\ q.route = plan /\ q.hop = 1
      /\ q.bytes = Encode(s, Tail(plan), Seal(s, m), padding)
  BY <1>3 DEF Packet
<1>9. plan \in Seq(Int) /\ Len(plan) \in 1..Longest[1] /\ plan[1] \in DOMAIN To /\ Longest[1] \in Nat
  BY PlansFit
<1>10. Tail(plan) = Left(q) /\ Tail(plan) \in Seq(Int) /\ Len(Tail(plan)) = Len(plan) - 1
  <2>0. plan # <<>> /\ Holds(plan, 0, plan) /\ 0 + Len(plan) = Len(plan) /\ 0 \in Nat /\ 0 + 2 = 2
    BY ONLY <1>9 DEF Holds
  <2>1. TailCut(plan, 0, plan)
    BY ONLY <1>9, <2>0, TailIsCut
  <2>2. Tail(plan) = SubSeq(plan, 2, Len(plan)) /\ Tail(plan) \in Seq(Int) /\ Len(Tail(plan)) = Len(plan) - 1
    BY ONLY <2>0, <2>1 DEF TailCut
  <2>3. Left(q) = SubSeq(plan, 1 + 1, Len(plan)) /\ 1 + 1 = 2
    BY ONLY <1>8 DEF Left
  <2> QED
    BY ONLY <2>2, <2>3
<1>11. SenderMtu(q) = mtu0
  BY <1>2, <1>8 DEF SenderMtu
<1>12. Len(q.bytes) = EnvelopeOverhead + Len(Seal(s, m)) + (Len(plan) - 1) + padding
  <2>1. PICK t, l : t = Tail(plan) /\ l = Seal(s, m)
    OBVIOUS
  <2>2. Len(Encode(s, t, l, padding)) = EnvelopeOverhead + Len(l) + Len(t) + padding
    BY ONLY <1>4, <1>7, <1>10, <2>1, s \in Stamps, EncodedLength
  <2> QED
    BY ONLY <1>8, <1>10, <2>1, <2>2
<1>13. Len(q.bytes) + TransportOverhead <= mtu0
  <2>1. PICK x \in Nat, y \in Nat : x = Len(Seal(s, m)) /\ y = Len(plan)
    BY <1>4, <1>5
  <2> QED
    BY ONLY <1>1, <1>6, <1>7, <1>12, <2>1, mtu0 \in Nat DEF TransportOverhead, EnvelopeOverhead
<1>14. On(q) \in DOMAIN To /\ q.hop \in 1..Len(q.route)
  BY <1>8, <1>9 DEF On
<1> QED
  BY <1>2, <1>7, <1>8, <1>10, <1>11, <1>13, <1>14 DEF Sound

\* A packet a relay encodes anew is sound.
LEMMA ForwardedIsSound ==
  ASSUME NEW p, Sound(p), mtu \in Mtus, NEW n, n = To[On(p)], n # Exit,
         NEW e, e = Decode(p.bytes), Forwards(n, e), NEW q \in Forwarded(n, p, e)
  PROVE  Sound(q)
<1>1. PICK found \in 1..MaxPadding : e = Found(p, found)
  BY SoundDecodes
<1>2. e.stamp = p.stamp /\ e.payload = Seal(p.stamp, p.message) /\ e.plan = Left(p)
  BY <1>1 DEF Found
<1>3. n \in Relays /\ mtu[n] \in Nat
  <2>1. On(p) \in DOMAIN To
    BY DEF Sound
  <2>2. mtu \in [Relays -> Nat] /\ To[On(p)] \in Nodes
    BY <2>1, RelayAssumption
  <2> QED
    BY <2>2 DEF Nodes
<1>4. PICK mtu0 \in Nat : mtu0 = EffectiveMtu(mtu[n]) /\ mtu0 <= MaxPacket
  BY <1>3, EffectiveMtuType
<1>5. PICK u : u = Unpadded(e)
  OBVIOUS
<1>6. PICK padding \in Paddings(mtu0 - u) :
        q = Packet(p.stamp, p.message, p.route, p.hop + 1, Encode(e.stamp, Rest(e.plan), e.payload, padding))
  BY <1>4, <1>5 DEF Forwarded
<1>7. PICK l : l = Left(p)
  OBVIOUS
<1>8. PICK s, m, r, h : s = p.stamp /\ m = p.message /\ r = p.route /\ h = p.hop
  OBVIOUS
<1>9. s \in Stamps /\ m \in Messages(s) /\ r \in Plans /\ h \in 1..Len(r)
  BY <1>8 DEF Sound
<1>10. PICK w : w = Seal(s, m)
  OBVIOUS
<1>11. w \in Seq(Int)
  BY <1>9, <1>10, SealRoundTrip
<1>12. l \in Seq(Int) /\ Len(l) = Len(r) - h /\ h \in Nat \ {0} /\ r \in Seq(Int) /\ Len(r) \in Nat
  <2>1. r \in Seq(Int) /\ Len(r) \in Nat
    BY <1>9, PlansFit
  <2> QED
    BY <1>7, <1>8, <1>9, <2>1, LeftFacts
<1>13. l # <<>> /\ l[1] \in Local[n]
  BY <1>2, <1>7 DEF Forwards
<1>14. Len(l) \in Nat \ {0} /\ h + Len(l) = Len(r) /\ h + 1 \in 1..Len(r)
  BY ONLY <1>12, <1>13
<1>15. Holds(r, h, l) /\ l[1] = r[h + 1]
  <2>1. PICK k \in Nat : k = h + 1
    BY ONLY <1>12
  <2>2. l = SubSeq(r, k, Len(r))
    BY <1>7, <1>8, <2>1 DEF Left
  <2>3. \A i \in 1..Len(l) : l[i] = r[k + i - 1] /\ k + i - 1 = h + i
    <3>1. PICK len \in Nat : len = Len(r) /\ k <= len /\ Len(l) = len - h
      BY ONLY <1>12, <1>14, <2>1
    <3>2. \A i \in 1..(len - h) : k + i - 1 = h + i /\ i \in 1..(1 + len - k)
      BY ONLY <1>12, <2>1, len \in Nat
    <3>3. \A i \in 1..(1 + len - k) : SubSeq(r, k, len)[i] = r[k + i - 1]
      BY ONLY <1>12, <3>1, k \in Nat
    <3> QED
      BY ONLY <2>2, <3>1, <3>2, <3>3
  <2>4. \A i \in 1..Len(l) : r[h + i] = l[i]
    BY ONLY <2>3
  <2>5. 1 \in 1..Len(l)
    BY ONLY <1>14
  <2> QED
    BY ONLY <2>4, <2>5 DEF Holds
<1>16. TailCut(l, h, r)
  BY ONLY <1>12, <1>13, <1>14, <1>15, TailIsCut
<1>17. PICK t : t = Tail(l)
  OBVIOUS
<1>18. t \in Seq(Int) /\ Len(t) = Len(l) - 1 /\ t = SubSeq(r, h + 2, Len(r))
  BY ONLY <1>16, <1>17 DEF TailCut
<1>19. u = TransportOverhead + EnvelopeOverhead + Len(t) + Len(w)
  BY <1>2, <1>5, <1>7, <1>8, <1>10, <1>17 DEF Unpadded, Rest
<1>20. u \in Nat /\ Len(t) \in Nat /\ Len(w) \in Nat
  <2>1. PICK x, y : x = Len(t) /\ y = Len(w)
    OBVIOUS
  <2>2. x \in Nat /\ y \in Nat
    BY ONLY <1>11, <1>18, <2>1
  <2>3. u = 1 + 3 + x + y
    BY ONLY <1>19, <2>1 DEF TransportOverhead, EnvelopeOverhead
  <2> QED
    BY ONLY <2>1, <2>2, <2>3
<1>21. mtu0 - u \in Nat \ {0}
  <2>1. u + 1 <= mtu0
    BY <1>4, <1>5 DEF Forwards, Fits
  <2> QED
    BY ONLY <1>20, <2>1, mtu0 \in Nat
<1>22. padding \in 1..MaxPadding /\ padding \in Nat \ {0} /\ padding <= mtu0 - u
  BY <1>21, PaddingFits
<1>23. /\ q.stamp = s /\ q.message = m /\ q.route = r /\ q.hop = h + 1
       /\ q.bytes = Encode(s, t, w, padding)
  BY <1>2, <1>6, <1>7, <1>8, <1>10, <1>17 DEF Packet, Rest
<1>24. t = Left(q)
  <2>1. (h + 1) + 1 = h + 2
    BY ONLY <1>12
  <2> QED
    BY ONLY <1>18, <1>23, <2>1 DEF Left
<1>25. SenderMtu(q) = mtu0
  <2>1. q.hop # 1 /\ q.hop - 1 = h
    BY ONLY <1>12, <1>23
  <2>2. n = To[r[h]]
    BY <1>8 DEF On
  <2> QED
    BY <1>4, <1>23, <2>1, <2>2 DEF SenderMtu
<1>26. Len(q.bytes) = EnvelopeOverhead + Len(w) + Len(t) + padding
  <2>1. Len(Encode(s, t, w, padding)) = EnvelopeOverhead + Len(w) + Len(t) + padding
    BY ONLY <1>9, <1>11, <1>18, <1>22, EncodedLength
  <2> QED
    BY ONLY <1>23, <2>1
<1>27. Len(q.bytes) + TransportOverhead <= mtu0
  <2>1. PICK x \in Nat, y \in Nat : x = Len(w) /\ y = Len(t)
    BY <1>20
  <2> QED
    BY ONLY <1>19, <1>20, <1>22, <1>26, <2>1, mtu0 \in Nat DEF TransportOverhead, EnvelopeOverhead
<1>28. On(q) \in DOMAIN To /\ q.hop \in 1..Len(q.route)
  <2>1. On(q) \in Local[n]
    BY ONLY <1>13, <1>15, <1>23 DEF On
  <2> QED
    BY <1>3, <1>14, <1>23, <2>1, RelayAssumption
<1> QED
  BY <1>4, <1>8, <1>9, <1>10, <1>22, <1>23, <1>24, <1>25, <1>27, <1>28 DEF Sound

\* Every step keeps the packets sound.
LEMMA CarriedStep == Carried /\ [Next]_vars => Carried'
<1> SUFFICES ASSUME Carried, [Next]_vars PROVE Carried'
  OBVIOUS
<1>0. mtu' = mtu
  BY DEF Next, vars, SendEndpointMessage, ChannelSend, SendFailed, Receive, Lose, Tick
<1>1. \A p : Sound(p)' <=> Sound(p)
  BY <1>0 DEF Sound, SenderMtu, Left, On
<1>2. ASSUME \A p \in net' \cup outbox' : p \in net \cup outbox \/ Sound(p),
             \A p \in outbox' : p \in outbox \/ p.hop = 1
      PROVE  Carried'
  <2>1. mtu' \in Mtus
    BY <1>0 DEF Carried
  <2>2. \A p \in net' \cup outbox' : Sound(p)'
    BY <1>1, <1>2 DEF Carried
  <2>3. \A p \in outbox' : p.hop = 1
    BY <1>2 DEF Carried
  <2> QED
    BY ONLY <2>1, <2>2, <2>3 DEF Carried
<1>3. ASSUME NEW s \in Stamps, NEW plan \in Plans, NEW m \in Messages(s), SendEndpointMessage(s, m, plan)
      PROVE  Carried'
  <2>1. PICK q \in SendEnvelope(s, m, Seal(s, m), plan) : outbox' = outbox \cup {q} /\ net' = net
    BY <1>3 DEF SendEndpointMessage
  <2>2. Sound(q) /\ q.hop = 1
    BY SentIsSound
  <2> QED
    BY <1>2, <2>1, <2>2
<1>4. ASSUME NEW p \in outbox, ChannelSend(p) PROVE Carried'
  BY <1>2, <1>4 DEF ChannelSend
<1>5. ASSUME NEW p \in outbox, NEW plan \in Plans, SendFailed(p, plan) PROVE Carried'
  <2>1. Sound(p)
    BY DEF Carried
  <2>2. PICK e : e = Decode(p.bytes)
    OBVIOUS
  <2>3. e.stamp = p.stamp /\ e.payload = Seal(p.stamp, p.message)
    <3>1. PICK padding \in 1..MaxPadding : e = Found(p, padding)
      BY <2>1, <2>2, SoundDecodes
    <3> QED
      BY ONLY <3>1 DEF Found
  <2>4. PICK again : /\ outbox' = (outbox \ {p}) \cup again /\ net' = net
                     /\ \A q \in again : q \in SendEnvelope(e.stamp, p.message, e.payload, plan)
    BY <1>5, <2>2 DEF SendFailed
  <2>5. p.stamp \in Stamps /\ p.message \in Messages(p.stamp)
    BY <2>1 DEF Sound
  <2>6. \A q \in again : Sound(q) /\ q.hop = 1
    <3> SUFFICES ASSUME NEW q \in again PROVE Sound(q) /\ q.hop = 1
      OBVIOUS
    <3>1. q \in SendEnvelope(p.stamp, p.message, Seal(p.stamp, p.message), plan)
      BY <2>3, <2>4
    <3> QED
      BY <2>5, <3>1, SentIsSound
  <2> QED
    BY <1>2, <2>4, <2>6
<1>6. ASSUME NEW p \in net, Receive(p) PROVE Carried'
  <2>1. PICK n, e : n = To[On(p)] /\ e = Decode(p.bytes)
    OBVIOUS
  <2>2. /\ outbox' = outbox
        /\ \A q \in net' : q \in net \/ (n # Exit /\ Forwards(n, e) /\ q \in Forwarded(n, p, e))
    BY <1>6, <2>1 DEF Receive
  <2>3. Sound(p) /\ mtu \in Mtus
    BY DEF Carried
  <2>4. \A q \in net' : q \in net \/ Sound(q)
    BY <2>1, <2>2, <2>3, ForwardedIsSound
  <2> QED
    BY <1>2, <2>2, <2>4
<1>7. ASSUME NEW p \in net, Lose(p) PROVE Carried'
  BY <1>2, <1>7 DEF Lose
<1>8. CASE Tick \/ UNCHANGED vars
  BY <1>2, <1>8 DEF Tick, vars
<1> QED
  BY <1>3, <1>4, <1>5, <1>6, <1>7, <1>8 DEF Next

\* A sound packet decodes to its plan and opens to its message.
LEMMA SoundOpens ==
  ASSUME NEW p, Sound(p), NEW e, e = Decode(p.bytes)
  PROVE  /\ e # Malformed
         /\ e.stamp = p.stamp /\ e.plan = SubSeq(p.route, p.hop + 1, Len(p.route))
         /\ Opens(e.stamp, e.payload) /\ Opened(e.payload) = p.message
<1>1. PICK padding \in 1..MaxPadding : e = Found(p, padding)
  BY SoundDecodes
<1>2. e.stamp = p.stamp /\ e.payload = Seal(p.stamp, p.message) /\ e.plan = Left(p)
  BY ONLY <1>1 DEF Found
<1>3. e # Malformed
  <2>1. DOMAIN e = {"stamp", "payload", "plan", "padding"}
    BY ONLY <1>1 DEF Found
  <2>2. DOMAIN Malformed = {"malformed"}
    BY DEF Malformed
  <2> QED
    BY ONLY <2>1, <2>2
<1>4. Opens(p.stamp, Seal(p.stamp, p.message)) /\ Opened(Seal(p.stamp, p.message)) = p.message
  BY SealRoundTrip DEF Sound
<1> QED
  BY ONLY <1>2, <1>3, <1>4 DEF Left

\* A sound packet of the sending endpoint leaves room for the reserve.
LEMMA SoundReserve ==
  ASSUME NEW p, Sound(p), p.hop = 1
  PROVE  EffectiveMtu(EntryMtu) - (Len(p.bytes) + TransportOverhead - Decode(p.bytes).padding) >= PaddingReserve
<1>1. PICK padding \in 1..MaxPadding :
        /\ Decode(p.bytes) = Found(p, padding)
        /\ Len(p.bytes) = EnvelopeOverhead + MessageOverhead + Len(p.message.body)
                          + (Len(p.route) - p.hop) + padding
  BY SoundDecodes
<1>2. PICK x, y : x = Len(p.message.body) /\ y = Len(p.route)
  OBVIOUS
<1>3. /\ EffectiveMtu(EntryMtu)
           - (TransportOverhead + EnvelopeOverhead + (y - 1) + (MessageOverhead + x)) >= PaddingReserve
      /\ x \in Nat /\ y \in Nat
  BY <1>2, Room DEF Sound
<1>4. TransportOverhead = 1 /\ EnvelopeOverhead = 3 /\ MessageOverhead = 4
  BY DEF TransportOverhead, EnvelopeOverhead, MessageOverhead, NonceSize
<1>5. EffectiveMtu(EntryMtu) \in Nat /\ PaddingReserve \in Nat /\ padding \in Nat
  BY MssFacts, Constants
<1>6. Decode(p.bytes).padding = padding
  BY ONLY <1>1 DEF Found
<1>7. Len(p.bytes) = 3 + 4 + x + (y - 1) + padding
  BY ONLY <1>1, <1>2, <1>4, p.hop = 1
<1>8. Len(p.bytes) + 1 - padding = 1 + 3 + (y - 1) + (4 + x)
  BY ONLY <1>3, <1>5, <1>7
<1> QED
  BY ONLY <1>3, <1>4, <1>6, <1>8

\* Initially there is no packet.
LEMMA CarriedInit == Init => Carried
BY DEF Init, Carried

\* Wherever a packet is, whatever padding was drawn on its hops and whatever the
\* payload and the channel numbers are, the node it reaches finds the stamp, the
\* rest of the plan and the message the endpoint sealed.
THEOREM PacketsDecodeToPlan == Spec => []DecodesToPlan
<1>1. Carried => DecodesToPlan
  BY SoundOpens DEF Carried, DecodesToPlan
<1> QED
  BY <1>1, CarriedInit, CarriedStep, PTL DEF Spec

\* No packet exceeds the MTU of the node that encoded it, and over every plan of
\* every graph the endpoint has padding_reserve lengths to choose from.
THEOREM EveryPlanLeavesReserve == Spec => []ReserveIsKept
<1>1. Carried => ReserveIsKept
  BY SoundReserve DEF Carried, ReserveIsKept, Sound
<1> QED
  BY <1>1, CarriedInit, CarriedStep, PTL DEF Spec
=============================================================================
