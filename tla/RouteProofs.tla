----------------------------- MODULE RouteProofs -----------------------------
(***************************************************************************)
(* Theorems about RoutePlanner, for every route graph, and about Feedback, *)
(* for every interval, timeout and keepalive.                              *)
(*                                                                         *)
(* The planner: calculate_path finds the earliest plan whatever was        *)
(* reserved, lost or is cooling, every packet finds one while a first edge *)
(* is allowed, and old answers lift no cooldown.  Its loops are recursive  *)
(* functions: LoopExists gives them, and EveryRound what they keep.        *)
(*                                                                         *)
(* Feedback: one observation per sample, chains of at most three replies,  *)
(* and the limit on the samples outstanding at once.                       *)
(***************************************************************************)
EXTENDS RoutePlanner, Feedback, FiniteSetTheorems, WellFoundedInduction, TLAPS

-----------------------------------------------------------------------------
(* Loops. *)

\* The least-number principle.
LEMMA LeastNumber ==
  ASSUME NEW S \in SUBSET Nat, S # {}
  PROVE  \E n \in S : \A m \in S : n <= m
<1> DEFINE R == OpToRel(<, Nat)
<1>1. IsWellFoundedOn(R, Nat)
  BY NatLessThanWellFounded
<1>2. \A m, n \in Nat : <<m, n>> \in R <=> m < n
  BY DEF OpToRel
<1> HIDE DEF R
<1>3. PICK n \in S : \A m \in S : ~ (<<m, n>> \in R)
  BY <1>1, WFMin
<1>4. \A m \in S : m \in Nat /\ n \in Nat
  OBVIOUS
<1>5. \A m \in S : ~ (m < n)
  BY <1>2, <1>3, <1>4
<1> QED
  BY <1>4, <1>5

\* What holds before a loop and is kept by each round holds after every round: S
\* is the set of rounds after which it does.
LEMMA EveryRound ==
  ASSUME NEW n \in Nat, NEW S, 0 \in S, \A i \in 1..n : i - 1 \in S => i \in S
  PROVE  \A i \in 0..n : i \in S
<1> DEFINE Bad == {i \in 0..n : i \notin S}
<1> SUFFICES ASSUME Bad # {} PROVE FALSE
  OBVIOUS
<1>1. PICK b \in Bad : \A m \in Bad : b <= m
  <2>1. Bad \in SUBSET Nat
    OBVIOUS
  <2> HIDE DEF Bad
  <2> QED
    BY <2>1, LeastNumber
<1>2. b \in 1..n /\ b - 1 \in 0..n /\ ~ (b <= b - 1)
  BY <1>1
<1>3. b - 1 \in S
  BY <1>1, <1>2
<1> QED
  BY <1>1, <1>2, <1>3

\* The i-th round leads from s to f[<<s, i>>], without leaving S.
Rounds(S, n, f) == \A s \in S : \A i \in 1..n : f[<<s, i>>] \in S

\* g has what a loop of these rounds leads to after each of them.
Loop(g, S, s0, n, f) ==
  g \in [0..n -> S] /\ g[0] = s0 /\ \A i \in 1..n : g[i] = f[<<g[i - 1], i>>]

\* A loop can be run.
LEMMA LoopExists ==
  ASSUME NEW S, NEW s0 \in S, NEW n \in Nat, NEW f, Rounds(S, n, f)
  PROVE  \E g : Loop(g, S, s0, n, f)
<1> USE DEF Rounds, Loop
<1> DEFINE Runs == {m \in 0..n : \E g : Loop(g, S, s0, m, f)}
<1>1. 0 \in Runs
  <2> DEFINE g == [i \in 0..0 |-> s0]
  <2>1. Loop(g, S, s0, 0, f)
    OBVIOUS
  <2>2. 0 \in 0..n
    OBVIOUS
  <2> HIDE DEF g
  <2> QED
    BY <2>1, <2>2
<1>2. ASSUME NEW m \in 1..n, m - 1 \in Runs PROVE m \in Runs
  <2>1. PICK g : Loop(g, S, s0, m - 1, f)
    BY <1>2
  <2> DEFINE h == [i \in 0..m |-> IF i = m THEN f[<<g[m - 1], m>>] ELSE g[i]]
  <2>2. \A i \in 0..(m - 1) : h[i] = g[i] /\ h[i] \in S
    BY <2>1
  <2>3. m - 1 \in 0..(m - 1) /\ h[m] = f[<<g[m - 1], m>>] /\ h[m - 1] = g[m - 1]
    BY <2>2
  <2>4. h[m] \in S
    BY <2>1, <2>3
  <2>5. h \in [0..m -> S]
    <3>1. \A i \in 0..m : i = m \/ i \in 0..(m - 1)
      OBVIOUS
    <3>2. \A i \in 0..m : h[i] \in S
      <4> HIDE DEF h
      <4> QED
        BY <2>2, <2>4, <3>1
    <3> QED
      BY <3>2
  <2>6. h[0] = s0
    BY <2>1, <2>2
  <2>7. ASSUME NEW i \in 1..m PROVE h[i] = f[<<h[i - 1], i>>]
    <3>1. CASE i = m
      BY <2>3, <3>1
    <3>2. CASE i # m
      <4>1. i \in 1..(m - 1) /\ i \in 0..(m - 1) /\ i - 1 \in 0..(m - 1)
        BY <3>2
      <4> HIDE DEF h
      <4> QED
        BY <2>1, <2>2, <4>1
    <3> QED
      BY <3>1, <3>2
  <2> HIDE DEF h
  <2>8. Loop(h, S, s0, m, f)
    BY <2>5, <2>6, <2>7
  <2> QED
    BY <2>8
<1> HIDE DEF Runs
<1>3. n \in Runs
  <2>1. \A i \in 0..n : i \in Runs
    BY <1>1, <1>2, EveryRound
  <2> QED
    BY <2>1
<1> QED
  BY <1>3 DEF Runs

\* Quotients and products of natural numbers.
LEMMA DivNat == ASSUME NEW m \in Nat \ {0}, NEW a \in Nat PROVE a \div m \in Nat
OBVIOUS

LEMMA MulNat == ASSUME NEW a \in Nat, NEW b \in Nat PROVE a * b \in Nat
OBVIOUS

-----------------------------------------------------------------------------
(* The graph and what an edge costs. *)

EdgeState ==
  [freeAt : Nat, loss : 0..LossOne, cooldown : 0..(MaxTime + CooldownMax),
   retry : CooldownInitial..CooldownMax, sampled : Never..MaxTime, observed : Never..MaxTime]

\* The clock and the runtime state of the edges.
RouteTypes == now \in 0..MaxTime /\ edges \in [Edges -> EdgeState]

\* The constants, in the form the provers need.
LEMMA PlannerConstants ==
  /\ FixedOne \in Nat \ {0} /\ LossOne \in Nat \ {0} /\ CooldownInitial \in Nat \ {0}
  /\ CooldownMax \in Nat /\ CooldownInitial <= CooldownMax /\ MaxTime \in Nat /\ MaxPlans \in Nat
  /\ Destination \in Nat \ {0} /\ \A bits \in Sizes : bits \in Nat \ {0}
<1>1. Graph \in Seq(Seq([channel : Nat, next : Nat, capacity : Nat, latency : Nat])) /\ Graph # <<>>
  BY PlannerAssumption, GraphAssumption DEF IsRouteGraph
<1>2. Destination \in Nat \ {0}
  BY <1>1 DEF Destination
<1> QED
  BY <1>2, PlannerAssumption

\* An edge is one of a node, and leads forward.
LEMMA EdgeFacts ==
  ASSUME NEW e \in Edges
  PROVE  /\ e[1] \in 1..Destination /\ e[2] \in 1..Len(Graph[e[1]]) /\ e = <<e[1], e[2]>> /\ e # NoEdge
         /\ EdgeAt(e).next \in (e[1] + 1)..Destination
         /\ EdgeAt(e).next \in 2..Destination /\ e[1] < EdgeAt(e).next
         /\ EdgeAt(e).capacity \in Nat \ {0} /\ EdgeAt(e).latency \in Nat \ {0}
<1>0. Destination \in Nat \ {0}
  BY PlannerConstants
<1>1. PICK n \in 1..Destination : \E i \in 1..Len(Graph[n]) : e = <<n, i>>
  BY DEF Edges
<1>7. PICK i \in 1..Len(Graph[n]) : e = <<n, i>>
  BY <1>1
<1>2. e[1] = n /\ e[2] = i
  BY <1>7
<1>3. EdgeAt(e).next \in (e[1] + 1)..Destination
  BY GraphAssumption DEF IsRouteGraph
<1>4. EdgeAt(e).capacity \in Nat \ {0} /\ EdgeAt(e).latency \in Nat \ {0}
  <2>1. Graph \in Seq(Seq([channel : Nat, next : Nat, capacity : Nat, latency : Nat]))
    BY PlannerAssumption
  <2>2. n \in 1..Len(Graph)
    BY <1>1 DEF Destination
  <2>3. Graph[n] \in Seq([channel : Nat, next : Nat, capacity : Nat, latency : Nat])
    BY <2>1, <2>2
  <2>4. Graph[n][i] \in [channel : Nat, next : Nat, capacity : Nat, latency : Nat]
    <3>1. \A R : \A g \in Seq(R) : \A j \in 1..Len(g) : g[j] \in R
      OBVIOUS
    <3> QED
      BY <2>3, <3>1
  <2>5. EdgeAt(e).capacity > 0 /\ EdgeAt(e).latency > 0
    BY PlannerAssumption
  <2> QED
    BY <1>2, <2>4, <2>5 DEF EdgeAt
<1>5. e # NoEdge
  BY <1>0, <1>1, <1>7 DEF NoEdge
<1>6. EdgeAt(e).next \in 2..Destination /\ e[1] < EdgeAt(e).next
  BY ONLY <1>0, <1>1, <1>2, <1>3
<1> QED
  BY <1>1, <1>2, <1>3, <1>4, <1>5, <1>6, <1>7

\* Every node but the last has an edge, and every index of a node's list is one.
LEMMA NodeEdges ==
  /\ \A n \in 1..Destination : \A i \in 1..Len(Graph[n]) : <<n, i>> \in Edges
  /\ \A n \in 1..Destination : Len(Graph[n]) \in Nat
  /\ \A n \in 1..Destination : n # Destination => \E e \in Edges : e[1] = n
<1>1. \A n \in 1..Destination : \A i \in 1..Len(Graph[n]) : <<n, i>> \in Edges
  BY DEF Edges
<1>2. ASSUME NEW n \in 1..Destination
      PROVE  /\ Len(Graph[n]) \in Nat
             /\ n # Destination => \E e \in Edges : e[1] = n
  <2>0. Destination \in Nat \ {0}
    BY PlannerConstants
  <2>1. Graph \in Seq(Seq([channel : Nat, next : Nat, capacity : Nat, latency : Nat]))
    BY PlannerAssumption
  <2>2. n \in 1..Len(Graph)
    BY DEF Destination
  <2>3. Graph[n] \in Seq([channel : Nat, next : Nat, capacity : Nat, latency : Nat])
    BY <2>1, <2>2
  <2>4. Len(Graph[n]) \in Nat
    BY <2>3
  <2>5. ASSUME n # Destination PROVE \E e \in Edges : e[1] = n
    <3>1. n \in 1..(Destination - 1)
      BY <2>0, <2>5
    <3>2. Graph[n] # <<>>
      BY <3>1, GraphAssumption DEF IsRouteGraph
    <3>3. 1 \in 1..Len(Graph[n])
      BY <2>3, <3>2
    <3>4. <<n, 1>> \in Edges /\ <<n, 1>>[1] = n
      BY <1>1, <3>3
    <3> QED
      BY <3>4
  <2> QED
    BY <2>4, <2>5
<1> QED
  BY <1>1, <1>2

\* When a packet that reaches e's node at t reaches the next one.
Cost(e, t, bits) == Finish(e, t, bits) + Latency(e)

\* Times are natural numbers, and who comes earlier does not arrive later.
LEMMA CostFacts ==
  ASSUME RouteTypes, NEW e \in Edges, NEW bits \in Sizes
  PROVE  /\ SerializationTime(e, bits) \in Nat /\ Latency(e) \in Nat /\ edges[e].freeAt \in Nat
         /\ \A t \in Nat : Finish(e, t, bits) \in Nat /\ Cost(e, t, bits) \in Nat
         /\ \A t, u \in Nat : t <= u => Cost(e, t, bits) <= Cost(e, u, bits)
<1>1. edges[e] \in EdgeState
  BY DEF RouteTypes
<1>2. PICK loss \in Nat, freeAt \in Nat : loss = edges[e].loss /\ freeAt = edges[e].freeAt
  BY <1>1, PlannerConstants DEF EdgeState
<1>3. EdgeAt(e).capacity \in Nat /\ EdgeAt(e).latency \in Nat
  BY EdgeFacts
<1>4. FixedOne \in Nat \ {0} /\ LossOne \in Nat \ {0} /\ bits \in Nat
  BY PlannerConstants
<1>5. PICK penalty \in Nat \ {0} :
        penalty = FixedOne + (15 * loss * loss * FixedOne) \div (LossOne * LossOne)
  <2>1. PICK a \in Nat : a = 15 * loss * loss * FixedOne
    BY <1>2, <1>4, MulNat
  <2>2. PICK b \in Nat \ {0} : b = LossOne * LossOne
    BY <1>4
  <2>3. PICK q \in Nat : q = a \div b
    BY <2>1, <2>2, DivNat
  <2>4. FixedOne + q \in Nat \ {0}
    BY ONLY <1>4, <2>3
  <2> QED
    BY <2>1, <2>2, <2>3, <2>4
<1>6. PICK effective \in Nat \ {0} :
        effective = Larger(1, (EdgeAt(e).capacity * FixedOne) \div penalty)
  <2>1. PICK a \in Nat : a = EdgeAt(e).capacity * FixedOne
    BY <1>3, <1>4, MulNat
  <2>2. PICK q \in Nat : q = a \div penalty
    BY <1>5, <2>1, DivNat
  <2>3. Larger(1, q) \in Nat \ {0}
    BY ONLY <2>2 DEF Larger
  <2> QED
    BY <2>1, <2>2, <2>3
<1>7. PICK time \in Nat : time = SerializationTime(e, bits)
  <2>1. PICK a \in Nat : a = bits * FixedOne
    BY <1>4, MulNat
  <2>2. a + effective - 1 \in Nat
    BY ONLY <1>6, <2>1
  <2>3. CeilDiv(a, effective) \in Nat
    BY ONLY <1>6, <2>2, DivNat DEF CeilDiv
  <2>4. SerializationTime(e, bits) = CeilDiv(a, effective)
    BY <1>2, <1>5, <1>6, <2>1 DEF SerializationTime
  <2> QED
    BY <2>3, <2>4
<1>8. PICK latency \in Nat : latency = Latency(e)
  BY <1>3, <1>4, MulNat DEF Latency
<1>9. \A t \in Nat : Finish(e, t, bits) = Larger(t, freeAt) + time
  BY <1>2, <1>7 DEF Finish
<1>10. \A t \in Nat : Cost(e, t, bits) = Larger(t, freeAt) + time + latency
  BY <1>8, <1>9 DEF Cost
<1>11. /\ \A t \in Nat : Larger(t, freeAt) + time \in Nat /\ Larger(t, freeAt) + time + latency \in Nat
       /\ \A t, u \in Nat : t <= u => Larger(t, freeAt) + time + latency <= Larger(u, freeAt) + time + latency
  BY ONLY time \in Nat, latency \in Nat, freeAt \in Nat DEF Larger
<1>12. /\ \A t \in Nat : Finish(e, t, bits) \in Nat /\ Cost(e, t, bits) \in Nat
       /\ \A t, u \in Nat : t <= u => Cost(e, t, bits) <= Cost(e, u, bits)
  BY ONLY <1>9, <1>10, <1>11
<1> QED
  BY <1>2, <1>7, <1>8, <1>12

-----------------------------------------------------------------------------
(* The search: what the loops of calculate_path keep. *)

Entry == [at : Nat \cup {Never}, layer : {0, 1}, via : Edges \cup {NoEdge}]

Table == [1..Destination -> [{0, 1} -> Entry]]

\* The layer behind edge e.
Into(e, layer, forced) == IF e = forced THEN 1 ELSE layer

\* The entry of node m in this layer has come over an edge of one of the first n
\* nodes from the entry that is there now.
From(best, m, layer, n, forced, bits) ==
  LET b == best[m][layer]
  IN  /\ b.via \in Edges /\ EdgeAt(b.via).next = m /\ EdgeAllowed(b.via) /\ b.via[1] <= n
      /\ layer = Into(b.via, b.layer, forced)
      /\ best[b.via[1]][b.layer].at # Never
      /\ b.at = Cost(b.via, best[b.via[1]][b.layer].at, bits)

\* Edge e, from this layer, does not lead anywhere earlier.
Relaxed(best, e, layer, forced, bits) ==
  EdgeAllowed(e) /\ best[e[1]][layer].at # Never =>
    /\ best[EdgeAt(e).next][Into(e, layer, forced)].at # Never
    /\ best[EdgeAt(e).next][Into(e, layer, forced)].at <= Cost(e, best[e[1]][layer].at, bits)

\* The table while node n is processed, after the edges and layers in `done'.
Settled(best, n, done, forced, bits) ==
  /\ best \in Table
  /\ best[1][0].at = now * FixedOne /\ best[1][1].at = Never
  /\ \A m \in 2..Destination : \A layer \in {0, 1} :
       best[m][layer].at # Never => From(best, m, layer, n, forced, bits)
  /\ \A x \in done : Relaxed(best, x[1], x[2], forced, bits)

\* The edges of the first n nodes, in both layers.
Behind(n) == {x \in Edges \X {0, 1} : x[1][1] <= n}

\* Relaxing one edge of node n.
LEMMA RelaxSettled ==
  ASSUME RouteTypes, NEW bits \in Sizes, NEW forced, NEW n \in 1..Destination, NEW done \in SUBSET Behind(n),
         NEW best, Settled(best, n, done, forced, bits), NEW e \in Edges, e[1] = n, NEW layer \in {0, 1}
  PROVE  Settled(RelaxEdge(best, layer, e, forced, bits), n, done \cup {<<e, layer>>}, forced, bits)
<1> DEFINE to   == EdgeAt(e).next
           into == Into(e, layer, forced)
           cand == Cost(e, best[n][layer].at, bits)
           row  == [at |-> cand, layer |-> layer, via |-> e]
           next == RelaxEdge(best, layer, e, forced, bits)
<1>0. Destination \in Nat \ {0} /\ n \in Nat /\ n < to /\ to \in 2..Destination /\ to \in 1..Destination
  BY EdgeFacts, PlannerConstants
<1>1. best \in Table /\ into \in {0, 1}
  BY DEF Settled, Into
<1>2. \A m \in 1..Destination : \A l \in {0, 1} : best[m][l] \in Entry /\ best[m][l].at \in Nat \cup {Never}
  BY <1>1 DEF Table, Entry
<1>3. \A t \in Nat : Cost(e, t, bits) \in Nat
  BY CostFacts
<1>4. next = IF best[n][layer].at = Never \/ ~ EdgeAllowed(e) THEN best
             ELSE IF best[to][into].at # Never /\ cand >= best[to][into].at THEN best
             ELSE [best EXCEPT ![to][into] = row]
  BY DEF RelaxEdge, Cost, Into
<1>5. CASE next = best
  <2>1. Relaxed(best, e, layer, forced, bits)
    <3> SUFFICES ASSUME EdgeAllowed(e), best[n][layer].at # Never
                 PROVE  best[to][into].at # Never /\ best[to][into].at <= cand
      BY DEF Relaxed
    <3>1. cand \in Nat
      BY <1>2, <1>3
    <3> HIDE DEF cand, to, into, next
    <3>2. CASE best[to][into].at # Never /\ cand >= best[to][into].at
      BY <1>0, <1>1, <1>2, <3>1, <3>2
    <3>3. CASE ~ (best[to][into].at # Never /\ cand >= best[to][into].at)
      <4>1. best = [best EXCEPT ![to][into] = row]
        BY <1>4, <1>5, <3>3
      <4>2. best[to][into] = row
        BY <1>0, <1>1, <4>1 DEF Table
      <4>3. best[to][into].at = cand
        BY <4>2
      <4> QED
        BY <3>1, <4>3 DEF Never
    <3> QED
      BY <3>2, <3>3
  <2> QED
    BY <1>5, <2>1 DEF Settled
<1>6. CASE next # best
  <2>1. /\ best[n][layer].at # Never /\ EdgeAllowed(e)
        /\ ~ (best[to][into].at # Never /\ cand >= best[to][into].at)
        /\ next = [best EXCEPT ![to][into] = row]
    BY <1>4, <1>6
  <2>2. cand \in Nat /\ (best[to][into].at # Never => cand < best[to][into].at)
    <3>1. cand \in Nat
      BY <1>2, <1>3, <2>1
    <3> HIDE DEF cand, to, into, next
    <3> QED
      BY <1>0, <1>1, <1>2, <2>1, <3>1
  <2>3. row \in Entry /\ row.at = cand /\ row.layer = layer /\ row.via = e
    BY <2>2 DEF Entry
  <2> HIDE DEF cand, to, into, row, next
  <2>4. /\ next \in Table
        /\ \A m \in 1..Destination : \A l \in {0, 1} :
             next[m][l] = IF m = to /\ l = into THEN row ELSE best[m][l]
    <3>1. best[to] \in [{0, 1} -> Entry]
      BY <1>0, <1>1 DEF Table
    <3>2. next = [best EXCEPT ![to] = [best[to] EXCEPT ![into] = row]]
      BY <2>1
    <3>3. [best[to] EXCEPT ![into] = row] \in [{0, 1} -> Entry]
      BY <2>3, <3>1
    <3> QED
      BY <1>0, <1>1, <3>1, <3>2, <3>3 DEF Table
  <2>5. \A m \in 1..Destination : \A l \in {0, 1} : m # to => next[m][l] = best[m][l]
    BY <2>4
  <2>6. next[1][0].at = now * FixedOne /\ next[1][1].at = Never
    <3>1. 1 \in 1..Destination /\ 1 # to
      BY <1>0
    <3> QED
      BY <2>5, <3>1 DEF Settled
  <2>7. ASSUME NEW m \in 2..Destination, NEW l \in {0, 1}, next[m][l].at # Never
        PROVE  From(next, m, l, n, forced, bits)
    <3>0. m \in 1..Destination
      BY <1>0
    <3>1. CASE m = to /\ l = into
      <4>1. next[m][l] = row
        BY <2>4, <3>0, <3>1
      <4>2. next[n][layer] = best[n][layer]
        BY <1>0, <2>5
      <4>3. row.via \in Edges /\ EdgeAt(row.via).next = m /\ EdgeAllowed(row.via) /\ row.via[1] = n
        BY <2>1, <2>3, <3>1 DEF to
      <4>4. l = Into(row.via, row.layer, forced)
        BY <2>3, <3>1 DEF into
      <4>5. row.at = Cost(row.via, next[row.via[1]][row.layer].at, bits) /\ next[row.via[1]][row.layer].at # Never
        BY <2>1, <2>3, <4>2 DEF cand
      <4> QED
        BY <1>0, <4>1, <4>3, <4>4, <4>5 DEF From
    <3>2. CASE ~ (m = to /\ l = into)
      <4>1. next[m][l] = best[m][l]
        BY <2>4, <3>0, <3>2
      <4>2. From(best, m, l, n, forced, bits)
        BY <2>7, <4>1 DEF Settled
      <4> DEFINE b == best[m][l]
      <4>3. b.via \in Edges /\ b.via[1] <= n /\ b.via[1] \in 1..Destination /\ b.layer \in {0, 1}
        BY <1>2, <3>0, <4>2, EdgeFacts DEF From, Entry
      <4>4. next[b.via[1]][b.layer] = best[b.via[1]][b.layer]
        <5>1. b.via[1] # to
          BY <1>0, <4>3
        <5> HIDE DEF b
        <5> QED
          BY <2>5, <4>3, <5>1
      <4> QED
        BY <4>1, <4>2, <4>4 DEF From
    <3> QED
      BY <3>1, <3>2
  <2>8. next[to][into].at # Never /\ next[to][into].at = cand
    BY <1>0, <1>1, <2>2, <2>3, <2>4 DEF Never
  <2>9. ASSUME NEW x \in done \cup {<<e, layer>>} PROVE Relaxed(next, x[1], x[2], forced, bits)
    <3> DEFINE d == x[1]
               l == x[2]
               at == EdgeAt(d).next
               in == Into(d, l, forced)
    <3>1. d \in Edges /\ l \in {0, 1} /\ d[1] <= n /\ d[1] \in 1..Destination
      <4>1. <<e, layer>>[1] = e /\ <<e, layer>>[2] = layer
        OBVIOUS
      <4>2. x \in Behind(n) \/ x = <<e, layer>>
        OBVIOUS
      <4>3. d \in Edges /\ l \in {0, 1} /\ d[1] <= n
        BY <1>0, <4>1, <4>2 DEF Behind
      <4> QED
        BY <4>3, EdgeFacts
    <3>2. next[d[1]][l] = best[d[1]][l]
      <4>1. d[1] # to
        BY <1>0, <3>1
      <4> HIDE DEF d, l
      <4> QED
        BY <2>5, <3>1, <4>1
    <3>3. at \in 1..Destination /\ in \in {0, 1}
      <4>1. at \in 2..Destination
        BY <3>1, EdgeFacts
      <4> QED
        BY <1>0, <3>1, <4>1 DEF Into
    <3> SUFFICES ASSUME EdgeAllowed(d), best[d[1]][l].at # Never
                 PROVE  next[at][in].at # Never /\ next[at][in].at <= Cost(d, best[d[1]][l].at, bits)
      BY <3>2 DEF Relaxed
    <3>4. CASE x = <<e, layer>>
      <4>1. d = e /\ l = layer /\ at = to /\ in = into
        BY <3>4 DEF to, into
      <4>2. Cost(d, best[d[1]][l].at, bits) = cand
        BY <4>1 DEF cand
      <4> HIDE DEF d, l, at, in
      <4> QED
        BY <2>2, <2>8, <4>1, <4>2
    <3>5. CASE x \in done
      <4>1. Relaxed(best, d, l, forced, bits)
        BY <3>5 DEF Settled
      <4>2. best[at][in].at # Never /\ best[at][in].at <= Cost(d, best[d[1]][l].at, bits)
        BY <4>1 DEF Relaxed
      <4>3. Cost(d, best[d[1]][l].at, bits) \in Nat /\ best[at][in].at \in Nat
        BY <1>2, <3>1, <3>3, <4>2, CostFacts
      <4>4. next[at][in] = IF at = to /\ in = into THEN row ELSE best[at][in]
        BY <2>4, <3>3
      <4>5. CASE at = to /\ in = into
        <5>1. next[at][in].at = cand /\ cand < best[at][in].at
          BY <2>2, <2>3, <4>2, <4>4, <4>5
        <5>2. \A a, b, c \in Nat : a < b /\ b <= c => a <= c
          OBVIOUS
        <5> HIDE DEF d, l, at, in
        <5> QED
          BY <2>2, <4>2, <4>3, <5>1, <5>2 DEF Never
      <4>6. CASE ~ (at = to /\ in = into)
        BY <4>2, <4>4, <4>6
      <4> QED
        BY <4>5, <4>6
    <3> QED
      BY <3>4, <3>5
  <2> QED
    BY <2>4, <2>6, <2>7, <2>9 DEF Settled, next
<1> QED
  BY <1>5, <1>6

\* Relaxing keeps a table a table.
LEMMA RelaxType ==
  ASSUME RouteTypes, NEW bits \in Sizes, NEW forced, NEW best \in Table, NEW e \in Edges, NEW layer \in {0, 1}
  PROVE  RelaxEdge(best, layer, e, forced, bits) \in Table
<1> DEFINE to   == EdgeAt(e).next
           into == Into(e, layer, forced)
           cand == Cost(e, best[e[1]][layer].at, bits)
           row  == [at |-> cand, layer |-> layer, via |-> e]
           next == RelaxEdge(best, layer, e, forced, bits)
<1>0. Destination \in Nat \ {0} /\ to \in 1..Destination /\ e[1] \in 1..Destination /\ into \in {0, 1}
  BY EdgeFacts, PlannerConstants DEF Into
<1>1. next = IF best[e[1]][layer].at = Never \/ ~ EdgeAllowed(e) THEN best
             ELSE IF best[to][into].at # Never /\ cand >= best[to][into].at THEN best
             ELSE [best EXCEPT ![to][into] = row]
  BY DEF RelaxEdge, Cost, Into
<1>2. CASE next = best
  BY <1>2
<1>3. CASE next # best
  <2>1. best[e[1]][layer].at # Never /\ next = [best EXCEPT ![to][into] = row]
    BY <1>1, <1>3
  <2>2. best[e[1]][layer].at \in Nat
    BY <1>0, <2>1 DEF Table, Entry
  <2>3. row \in Entry
    BY <2>2, CostFacts DEF Entry
  <2> HIDE DEF to, into, cand, row, next
  <2>4. best[to] \in [{0, 1} -> Entry]
    BY <1>0 DEF Table
  <2>5. next = [best EXCEPT ![to] = [best[to] EXCEPT ![into] = row]]
    BY <2>1
  <2>6. [best[to] EXCEPT ![into] = row] \in [{0, 1} -> Entry]
    BY <2>3, <2>4
  <2>7. next \in Table
    BY <1>0, <2>5, <2>6 DEF Table
  <2> QED
    BY <2>7 DEF next
<1> QED
  BY <1>2, <1>3

\* The i-th round of the loops over the layers and edges of node n.
RelaxRound(best, n, i, forced, bits) ==
  IF i <= Len(Graph[n]) THEN RelaxEdge(best, 0, <<n, i>>, forced, bits)
  ELSE RelaxEdge(best, 1, <<n, i - Len(Graph[n])>>, forced, bits)

\* g has the tables after each round.
IsNodeRun(g, best, n, forced, bits) ==
  g = [i \in 0..(2 * Len(Graph[n])) |->
         IF i = 0 THEN best
         ELSE IF i <= Len(Graph[n]) THEN RelaxEdge(g[i - 1], 0, <<n, i>>, forced, bits)
         ELSE RelaxEdge(g[i - 1], 1, <<n, i - Len(Graph[n])>>, forced, bits)]

\* The edge of a round.
LEMMA RoundEdge ==
  ASSUME NEW n \in 1..Destination, NEW i \in 1..(2 * Len(Graph[n])), NEW forced, NEW bits
  PROVE  \E e \in Edges : \E layer \in {0, 1} :
           /\ e[1] = n /\ i = e[2] + (IF layer = 0 THEN 0 ELSE Len(Graph[n]))
           /\ \A best : RelaxRound(best, n, i, forced, bits) = RelaxEdge(best, layer, e, forced, bits)
<1>0. PICK k \in Nat : k = Len(Graph[n])
  BY NodeEdges
<1>1. CASE i <= k
  <2>1. i \in 1..k
    BY <1>0, <1>1
  <2>2. <<n, i>> \in Edges /\ <<n, i>>[1] = n /\ <<n, i>>[2] = i
    BY <1>0, <2>1, NodeEdges
  <2>3. \A best : RelaxRound(best, n, i, forced, bits) = RelaxEdge(best, 0, <<n, i>>, forced, bits)
    BY <1>0, <1>1 DEF RelaxRound
  <2>4. i = i + (IF 0 = 0 THEN 0 ELSE k)
    BY <1>0
  <2> QED
    BY <1>0, <2>2, <2>3, <2>4
<1>2. CASE ~ (i <= k)
  <2>1. i - k \in 1..k /\ i = (i - k) + (IF 1 = 0 THEN 0 ELSE k)
    BY <1>0, <1>2
  <2>2. PICK j : j = i - k
    OBVIOUS
  <2>3. <<n, j>> \in Edges /\ <<n, j>>[1] = n /\ <<n, j>>[2] = j
    BY <1>0, <2>1, <2>2, NodeEdges
  <2>4. \A best : RelaxRound(best, n, i, forced, bits) = RelaxEdge(best, 1, <<n, j>>, forced, bits)
    BY <1>0, <1>2, <2>2 DEF RelaxRound
  <2> QED
    BY <1>0, <2>1, <2>2, <2>3, <2>4
<1> QED
  BY <1>1, <1>2

\* g has the tables from `best' to the one that RelaxNode returns.
NodeTables(g, best, n, forced, bits) ==
  /\ g \in [0..(2 * Len(Graph[n])) -> Table]
  /\ g[0] = best /\ RelaxNode(best, n, forced, bits) = g[2 * Len(Graph[n])]
  /\ \A i \in 1..(2 * Len(Graph[n])) : g[i] = RelaxRound(g[i - 1], n, i, forced, bits)

\* The recursion has a solution, and RelaxNode is its end.
LEMMA NodeRun ==
  ASSUME RouteTypes, NEW bits \in Sizes, NEW forced, NEW best \in Table, NEW n \in 1..Destination
  PROVE  \E g : NodeTables(g, best, n, forced, bits)
<1>0. PICK k \in Nat : k = Len(Graph[n])
  BY NodeEdges
<1>1. PICK last \in Nat : last = 2 * k
  BY <1>0
<1> DEFINE f == [x \in Table \X (1..last) |-> RelaxRound(x[1], n, x[2], forced, bits)]
<1>2. \A s \in Table : \A i \in 1..last : f[<<s, i>>] = RelaxRound(s, n, i, forced, bits)
  OBVIOUS
<1>3. \A s \in Table : \A i \in 1..last : RelaxRound(s, n, i, forced, bits) \in Table
  <2> SUFFICES ASSUME NEW s \in Table, NEW i \in 1..last PROVE RelaxRound(s, n, i, forced, bits) \in Table
    OBVIOUS
  <2>1. i \in 1..(2 * Len(Graph[n]))
    BY <1>0, <1>1
  <2>2. PICK e \in Edges, layer \in {0, 1} : RelaxRound(s, n, i, forced, bits) = RelaxEdge(s, layer, e, forced, bits)
    BY <2>1, RoundEdge
  <2> QED
    BY <2>2, RelaxType
<1> HIDE DEF f
<1>4. PICK g \in [0..last -> Table] : g[0] = best /\ \A i \in 1..last : g[i] = f[<<g[i - 1], i>>]
  <2>1. Rounds(Table, last, f)
    BY <1>2, <1>3 DEF Rounds
  <2>2. PICK g : Loop(g, Table, best, last, f)
    BY <2>1, LoopExists
  <2> QED
    BY <2>2 DEF Loop
<1>5. \A i \in 1..last : g[i] = RelaxRound(g[i - 1], n, i, forced, bits)
  <2> SUFFICES ASSUME NEW i \in 1..last PROVE g[i] = RelaxRound(g[i - 1], n, i, forced, bits)
    OBVIOUS
  <2>1. i - 1 \in 0..last
    BY <1>1
  <2>2. g[i - 1] \in Table
    BY <2>1
  <2> QED
    BY <1>2, <1>4, <2>2
<1> DEFINE Run(h) == IsNodeRun(h, best, n, forced, bits)
           run == CHOOSE h : Run(h)
<1>6. Run(g)
  <2>1. \A i \in 0..last : i = 0 \/ i \in 1..last
    BY <1>1
  <2>2. \A i \in 0..last : g[i] = IF i = 0 THEN best
                                  ELSE IF i <= k THEN RelaxEdge(g[i - 1], 0, <<n, i>>, forced, bits)
                                  ELSE RelaxEdge(g[i - 1], 1, <<n, i - k>>, forced, bits)
    BY <1>0, <1>4, <1>5, <2>1 DEF RelaxRound
  <2>3. g = [i \in 0..last |-> IF i = 0 THEN best
                               ELSE IF i <= k THEN RelaxEdge(g[i - 1], 0, <<n, i>>, forced, bits)
                               ELSE RelaxEdge(g[i - 1], 1, <<n, i - k>>, forced, bits)]
    BY <2>2
  <2> QED
    BY <1>0, <1>1, <2>3 DEF IsNodeRun
<1>7. Run(run)
  BY ONLY <1>6, Zenon
<1>8. RelaxNode(best, n, forced, bits) = run[2 * Len(Graph[n])]
  BY DEF RelaxNode, IsNodeRun
<1> HIDE DEF run
<1>9. /\ DOMAIN run = 0..last /\ run[0] = best
      /\ \A i \in 1..last : run[i] = RelaxRound(run[i - 1], n, i, forced, bits)
      /\ run = [i \in 0..last |-> run[i]]
  <2>0. run = [i \in 0..last |-> IF i = 0 THEN best
                                 ELSE IF i <= k THEN RelaxEdge(run[i - 1], 0, <<n, i>>, forced, bits)
                                 ELSE RelaxEdge(run[i - 1], 1, <<n, i - k>>, forced, bits)]
    BY <1>0, <1>1, <1>7 DEF IsNodeRun
  <2>1. 0 \in 0..last /\ \A i \in 1..last : i \in 0..last /\ i # 0
    BY <1>1
  <2> DEFINE body(i) == IF i = 0 THEN best
                        ELSE IF i <= k THEN RelaxEdge(run[i - 1], 0, <<n, i>>, forced, bits)
                        ELSE RelaxEdge(run[i - 1], 1, <<n, i - k>>, forced, bits)
  <2>2. run = [i \in 0..last |-> body(i)]
    BY <2>0
  <2>3. body(0) = best /\ \A i \in 1..last : body(i) = RelaxRound(run[i - 1], n, i, forced, bits)
    BY <1>0, <2>1 DEF RelaxRound
  <2> HIDE DEF body
  <2> QED
    BY <2>1, <2>2, <2>3
<1>10. \A i \in 0..last : run[i] \in Table
  <2> DEFINE Good == {i \in 0..last : run[i] \in Table}
  <2>1. 0 \in Good
    BY <1>1, <1>9
  <2>2. \A i \in 1..last : i - 1 \in Good => i \in Good
    <3> SUFFICES ASSUME NEW i \in 1..last, run[i - 1] \in Table PROVE run[i] \in Table
      BY <1>1
    <3> QED
      BY <1>3, <1>9
  <2>3. \A i \in 0..last : i \in Good
    <3> HIDE DEF Good
    <3> QED
      BY <2>1, <2>2, EveryRound
  <2> QED
    BY <2>3
<1>11. run \in [0..last -> Table]
  BY <1>9, <1>10
<1> QED
  BY <1>0, <1>1, <1>8, <1>9, <1>11 DEF NodeTables

\* What has been settled for more edges is for fewer.
LEMMA SettledFewer ==
  ASSUME NEW best, NEW n, NEW more, NEW done \in SUBSET more, NEW forced, NEW bits,
         Settled(best, n, more, forced, bits)
  PROVE  Settled(best, n, done, forced, bits)
BY DEF Settled

\* The loops over the layers and the edges of node n settle it.
LEMMA NodeSettled ==
  ASSUME RouteTypes, NEW bits \in Sizes, NEW forced, NEW n \in 1..Destination, NEW best,
         Settled(best, n - 1, Behind(n - 1), forced, bits)
  PROVE  Settled(RelaxNode(best, n, forced, bits), n, Behind(n), forced, bits)
<1>0. PICK k \in Nat : k = Len(Graph[n])
  BY NodeEdges
<1>1. best \in Table
  BY DEF Settled
<1>2. PICK g \in [0..(2 * k) -> Table] :
        /\ g[0] = best /\ RelaxNode(best, n, forced, bits) = g[2 * k]
        /\ \A i \in 1..(2 * k) : g[i] = RelaxRound(g[i - 1], n, i, forced, bits)
  <2>1. PICK g : NodeTables(g, best, n, forced, bits)
    BY <1>1, NodeRun
  <2> QED
    BY <1>0, <2>1 DEF NodeTables
<1>3. n \in Nat /\ Destination \in Nat
  BY PlannerConstants
<1> DEFINE Round(x) == x[1][2] + (IF x[2] = 0 THEN 0 ELSE k)
           Done(i) == {x \in Behind(n) : x[1][1] < n \/ Round(x) <= i}
           Good == {i \in 0..(2 * k) : Settled(g[i], n, Done(i), forced, bits)}
<1>4. \A x \in Behind(n) : /\ x = <<x[1], x[2]>> /\ x[1] \in Edges /\ x[2] \in {0, 1}
                           /\ x[1][1] \in 1..n /\ x[1][2] \in Nat \ {0} /\ x[1] = <<x[1][1], x[1][2]>>
                           /\ (x[1][1] = n => x[1][2] \in 1..k)
  <2> SUFFICES ASSUME NEW x \in Behind(n)
               PROVE  /\ x = <<x[1], x[2]>> /\ x[1] \in Edges /\ x[2] \in {0, 1}
                      /\ x[1][1] \in 1..n /\ x[1][2] \in Nat \ {0} /\ x[1] = <<x[1][1], x[1][2]>>
                      /\ (x[1][1] = n => x[1][2] \in 1..k)
    OBVIOUS
  <2>1. x = <<x[1], x[2]>> /\ x[1] \in Edges /\ x[2] \in {0, 1} /\ x[1][1] <= n
    BY DEF Behind
  <2>2. /\ x[1][1] \in 1..Destination /\ x[1][2] \in 1..Len(Graph[x[1][1]])
        /\ x[1] = <<x[1][1], x[1][2]>> /\ Len(Graph[x[1][1]]) \in Nat
    BY <2>1, EdgeFacts, NodeEdges
  <2> QED
    BY <1>0, <1>3, <2>1, <2>2
<1>5. 0 \in Good
  <2>1. 0 \in 0..(2 * k)
    BY <1>0
  <2>2. Done(0) \subseteq Behind(n - 1)
    <3> SUFFICES ASSUME NEW x \in Behind(n), x[1][1] < n \/ Round(x) <= 0 PROVE x \in Behind(n - 1)
      OBVIOUS
    <3>1. x[1][1] \in Nat /\ x[1][2] \in Nat \ {0} /\ x[2] \in {0, 1}
      BY <1>3, <1>4
    <3>2. x[1][1] <= n - 1
      BY ONLY <1>3, <3>1, k \in Nat, x[1][1] < n \/ Round(x) <= 0
    <3> QED
      BY <3>2 DEF Behind
  <2>3. \A m \in 2..Destination : \A layer \in {0, 1} :
          From(best, m, layer, n - 1, forced, bits) => From(best, m, layer, n, forced, bits)
    <3> SUFFICES ASSUME NEW m \in 2..Destination, NEW layer \in {0, 1},
                        From(best, m, layer, n - 1, forced, bits)
                 PROVE  From(best, m, layer, n, forced, bits)
      OBVIOUS
    <3>1. PICK v : v = best[m][layer].via
      OBVIOUS
    <3>2. v \in Edges /\ v[1] <= n - 1
      BY <3>1 DEF From
    <3>3. v[1] <= n
      <4>1. v[1] \in Nat
        BY <1>3, <3>2, EdgeFacts
      <4> QED
        BY <1>3, <3>2, <4>1
    <3> QED
      BY <3>1, <3>3 DEF From
  <2>4. Settled(best, n, Done(0), forced, bits)
    <3> HIDE DEF Done
    <3> QED
      BY <2>2, <2>3 DEF Settled
  <2> HIDE DEF Done
  <2> QED
    BY <1>2, <2>1, <2>4
<1>6. ASSUME NEW i \in 1..(2 * k), i - 1 \in Good PROVE i \in Good
  <2>0. i \in Nat /\ i \in 0..(2 * k) /\ i - 1 \in 0..(2 * k)
    BY <1>0
  <2>1. PICK e \in Edges, layer \in {0, 1} :
          /\ e[1] = n /\ i = e[2] + (IF layer = 0 THEN 0 ELSE k)
          /\ \A b : RelaxRound(b, n, i, forced, bits) = RelaxEdge(b, layer, e, forced, bits)
    BY <1>0, RoundEdge
  <2>2. g[i] = RelaxEdge(g[i - 1], layer, e, forced, bits)
    BY <1>2, <2>1
  <2>3. Settled(g[i - 1], n, Done(i - 1), forced, bits)
    BY <1>6
  <2>4. Done(i - 1) \subseteq Behind(n)
    OBVIOUS
  <2>5. Settled(g[i], n, Done(i - 1) \cup {<<e, layer>>}, forced, bits)
    <3>1. PICK done \in SUBSET Behind(n) : done = Done(i - 1)
      BY <2>4
    <3>2. Settled(g[i - 1], n, done, forced, bits)
      BY <2>3, <3>1
    <3>3. PICK b : b = g[i - 1]
      OBVIOUS
    <3> HIDE DEF Done, Good
    <3>4. Settled(RelaxEdge(b, layer, e, forced, bits), n, done \cup {<<e, layer>>}, forced, bits)
      BY <2>1, <3>2, <3>3, RelaxSettled
    <3> QED
      BY <2>2, <3>1, <3>3, <3>4
  <2>6. Done(i) \subseteq Done(i - 1) \cup {<<e, layer>>}
    <3> SUFFICES ASSUME NEW x \in Behind(n), x[1][1] < n \/ Round(x) <= i,
                        ~ (x[1][1] < n \/ Round(x) <= i - 1)
                 PROVE  x = <<e, layer>>
      OBVIOUS
    <3>1. PICK a, j, l : a = x[1][1] /\ j = x[1][2] /\ l = x[2]
      OBVIOUS
    <3>2. a \in 1..n /\ j \in Nat \ {0} /\ l \in {0, 1} /\ (a = n => j \in 1..k)
      BY <1>4, <3>1
    <3>3. (a < n \/ j + (IF l = 0 THEN 0 ELSE k) <= i) /\ ~ (a < n \/ j + (IF l = 0 THEN 0 ELSE k) <= i - 1)
      BY <3>1
    <3>4. a = n /\ j \in 1..k /\ j + (IF l = 0 THEN 0 ELSE k) = i
      BY ONLY <1>3, <2>0, <3>2, <3>3, k \in Nat
    <3>5. PICK j2 : j2 = e[2]
      OBVIOUS
    <3>6. j2 \in 1..k
      BY <1>0, <2>1, <3>5, EdgeFacts
    <3>7. i = j2 + (IF layer = 0 THEN 0 ELSE k)
      BY <2>1, <3>5
    <3>8. j = j2 /\ l = layer
      BY ONLY <2>0, <3>2, <3>4, <3>6, <3>7, k \in Nat, layer \in {0, 1}
    <3>9. x = <<<<n, j>>, l>> /\ e = <<n, j>>
      <4>1. x = <<x[1], x[2]>> /\ x[1] = <<x[1][1], x[1][2]>>
        BY <1>4
      <4>2. e = <<e[1], e[2]>>
        BY EdgeFacts
      <4>3. x[1][1] = n /\ x[1][2] = j /\ x[2] = l /\ e[1] = n /\ e[2] = j
        BY <2>1, <3>1, <3>4, <3>5, <3>8
      <4> QED
        BY ONLY <4>1, <4>2, <4>3
    <3> QED
      BY <3>8, <3>9
  <2>7. Settled(g[i], n, Done(i), forced, bits)
    <3> HIDE DEF Done
    <3> QED
      BY <2>5, <2>6, SettledFewer
  <2> QED
    BY <2>0, <2>7
<1>7. Behind(n) \subseteq Done(2 * k)
  <2> SUFFICES ASSUME NEW x \in Behind(n), ~ (x[1][1] < n) PROVE Round(x) <= 2 * k
    OBVIOUS
  <2>1. x[1][1] = n /\ x[2] \in {0, 1}
    BY <1>3, <1>4
  <2>2. x[1][2] \in 1..k
    BY <1>4, <2>1
  <2> QED
    BY ONLY <2>1, <2>2, k \in Nat
<1>8. 2 * k \in Good
  <2>1. 2 * k \in Nat /\ 2 * k \in 0..(2 * k)
    BY <1>0
  <2> HIDE DEF Good
  <2> QED
    BY <1>5, <1>6, <2>1, EveryRound
<1> HIDE DEF Done
<1> QED
  BY <1>2, <1>7, <1>8, SettledFewer

\* Before the first node: only this endpoint is reached.
Start == [m \in 1..Destination |-> [layer \in {0, 1} |->
            IF m = 1 /\ layer = 0 THEN [Unreached EXCEPT !.at = now * FixedOne] ELSE Unreached]]

LEMMA StartSettled ==
  ASSUME RouteTypes, NEW bits \in Sizes, NEW forced
  PROVE  Settled(Start, 0, Behind(0), forced, bits)
<1>1. Destination \in Nat \ {0} /\ now * FixedOne \in Nat
  BY PlannerConstants, MulNat DEF RouteTypes
<1>2. Unreached \in Entry /\ Unreached.at = Never
  BY DEF Unreached, Entry
<1>3. [Unreached EXCEPT !.at = now * FixedOne] \in Entry /\ [Unreached EXCEPT !.at = now * FixedOne].at = now * FixedOne
  BY <1>1 DEF Unreached, Entry
<1>4. Start \in Table
  BY <1>2, <1>3 DEF Start, Table
<1>5. \A m \in 1..Destination : \A l \in {0, 1} :
        Start[m][l].at = IF m = 1 /\ l = 0 THEN now * FixedOne ELSE Never
  BY <1>2, <1>3 DEF Start
<1>6. \A m \in 2..Destination : m \in 1..Destination /\ m # 1
  BY <1>1
<1>7. Behind(0) = {}
  <2> SUFFICES ASSUME NEW x \in Behind(0) PROVE FALSE
    OBVIOUS
  <2>1. x[1] \in Edges /\ x[1][1] <= 0
    BY DEF Behind
  <2>2. x[1][1] \in 1..Destination
    BY <2>1, EdgeFacts
  <2> QED
    BY <1>1, <2>1, <2>2
<1>8. 1 \in 1..Destination
  BY <1>1
<1> QED
  BY <1>4, <1>5, <1>6, <1>7, <1>8 DEF Settled

\* g has the tables of calculate_path after each node.
IsSearch(g, forced, bits) ==
  g = [n \in 0..Destination |->
         IF n = 0
         THEN [[m \in 1..Destination |-> [layer \in {0, 1} |-> Unreached]] EXCEPT ![1][0].at = now * FixedOne]
         ELSE RelaxNode(g[n - 1], n, forced, bits)]

\* calculate_path settles every edge.
LEMMA ArrivalsSettled ==
  ASSUME RouteTypes, NEW bits \in Sizes, NEW forced
  PROVE  Settled(Arrivals(forced, bits), Destination, Behind(Destination), forced, bits)
<1>0. Destination \in Nat \ {0} /\ now * FixedOne \in Nat
  BY PlannerConstants, MulNat DEF RouteTypes
<1>1. [[m \in 1..Destination |-> [layer \in {0, 1} |-> Unreached]] EXCEPT ![1][0].at = now * FixedOne] = Start
  BY <1>0 DEF Start
<1> DEFINE f == [x \in Table \X (1..Destination) |-> RelaxNode(x[1], x[2], forced, bits)]
<1>2. \A s \in Table : \A n \in 1..Destination : f[<<s, n>>] = RelaxNode(s, n, forced, bits)
  OBVIOUS
<1>3. \A s \in Table : \A n \in 1..Destination : RelaxNode(s, n, forced, bits) \in Table
  <2> SUFFICES ASSUME NEW s \in Table, NEW n \in 1..Destination PROVE RelaxNode(s, n, forced, bits) \in Table
    OBVIOUS
  <2>1. PICK g : NodeTables(g, s, n, forced, bits)
    BY NodeRun
  <2>2. 2 * Len(Graph[n]) \in 0..(2 * Len(Graph[n]))
    BY NodeEdges
  <2> QED
    BY <2>1, <2>2 DEF NodeTables
<1> HIDE DEF f
<1>4. PICK g : Loop(g, Table, Start, Destination, f)
  <2>1. Rounds(Table, Destination, f)
    BY <1>2, <1>3 DEF Rounds
  <2>2. Start \in Table
    BY StartSettled DEF Settled
  <2> QED
    BY <1>0, <2>1, <2>2, LoopExists
<1> DEFINE Run(h) == IsSearch(h, forced, bits)
           run == CHOOSE h : Run(h)
<1>5. Run(g)
  <2>1. g[0] = Start /\ DOMAIN g = 0..Destination /\ g = [n \in 0..Destination |-> g[n]]
    BY <1>4 DEF Loop
  <2>2. ASSUME NEW n \in 1..Destination PROVE g[n] = RelaxNode(g[n - 1], n, forced, bits)
    <3>1. n - 1 \in 0..Destination
      BY <1>0
    <3>2. g[n - 1] \in Table /\ g[n] = f[<<g[n - 1], n>>]
      BY <1>4, <3>1 DEF Loop
    <3> QED
      BY <1>2, <3>2
  <2>3. \A n \in 0..Destination : n = 0 \/ n \in 1..Destination
    BY <1>0
  <2>4. \A n \in 0..Destination : g[n] = IF n = 0 THEN Start ELSE RelaxNode(g[n - 1], n, forced, bits)
    BY <2>1, <2>2, <2>3
  <2>5. g = [n \in 0..Destination |-> IF n = 0 THEN Start ELSE RelaxNode(g[n - 1], n, forced, bits)]
    BY <2>1, <2>4
  <2> QED
    BY <1>1, <2>5 DEF IsSearch
<1>6. Run(run)
  BY ONLY <1>5, Zenon
<1>7. Arrivals(forced, bits) = run[Destination]
  BY DEF Arrivals, IsSearch
<1> HIDE DEF run
<1>8. /\ run[0] = Start
      /\ \A n \in 1..Destination : run[n] = RelaxNode(run[n - 1], n, forced, bits)
  <2>1. run = [n \in 0..Destination |-> IF n = 0 THEN Start ELSE RelaxNode(run[n - 1], n, forced, bits)]
    BY <1>1, <1>6 DEF IsSearch
  <2>2. 0 \in 0..Destination /\ \A n \in 1..Destination : n \in 0..Destination /\ n # 0
    BY <1>0
  <2> DEFINE body(n) == IF n = 0 THEN Start ELSE RelaxNode(run[n - 1], n, forced, bits)
  <2>3. run = [n \in 0..Destination |-> body(n)]
    BY <2>1
  <2>4. body(0) = Start /\ \A n \in 1..Destination : body(n) = RelaxNode(run[n - 1], n, forced, bits)
    BY <2>2
  <2> HIDE DEF body
  <2> QED
    BY <2>2, <2>3, <2>4
<1>9. \A n \in 0..Destination : Settled(run[n], n, Behind(n), forced, bits)
  <2> DEFINE Good == {n \in 0..Destination : Settled(run[n], n, Behind(n), forced, bits)}
  <2>1. 0 \in Good
    BY <1>0, <1>8, StartSettled
  <2>2. \A n \in 1..Destination : n - 1 \in Good => n \in Good
    <3> SUFFICES ASSUME NEW n \in 1..Destination, Settled(run[n - 1], n - 1, Behind(n - 1), forced, bits)
                 PROVE  Settled(run[n], n, Behind(n), forced, bits)
      BY <1>0
    <3> QED
      BY <1>8, NodeSettled
  <2> HIDE DEF Good
  <2>3. \A n \in 0..Destination : n \in Good
    BY <1>0, <2>1, <2>2, EveryRound
  <2> QED
    BY <2>3 DEF Good
<1>10. Destination \in 0..Destination
  BY <1>0
<1> QED
  BY <1>7, <1>9, <1>10

-----------------------------------------------------------------------------
(* The arrivals along a path. *)

\* `at' has the arrival over each prefix of the path.
ArrivalTimes(at, path, bits) ==
  /\ at \in [0..Len(path) -> Nat]
  /\ at[0] = now * FixedOne /\ ArrivalOver(path, bits) = at[Len(path)]
  /\ \A i \in 1..Len(path) : at[i] = Cost(path[i], at[i - 1], bits)

IsTiming(at, path, bits) ==
  at = [i \in 0..Len(path) |->
          IF i = 0 THEN now * FixedOne
          ELSE LET e == path[i]
               IN  Larger(at[i - 1], edges[e].freeAt) + SerializationTime(e, bits) + Latency(e)]

\* ArrivalOver has its times.
LEMMA ArrivalRun ==
  ASSUME RouteTypes, NEW bits \in Sizes, NEW path \in Seq(Edges)
  PROVE  \E at : ArrivalTimes(at, path, bits)
<1>0. PICK n \in Nat : n = Len(path)
  OBVIOUS
<1>1. PICK start \in Nat : start = now * FixedOne
  BY PlannerConstants, MulNat DEF RouteTypes
<1>2. \A i \in 1..n : path[i] \in Edges
  BY <1>0
<1> DEFINE f == [x \in Nat \X (1..n) |-> Cost(path[x[2]], x[1], bits)]
<1>3. \A t \in Nat : \A i \in 1..n : f[<<t, i>>] = Cost(path[i], t, bits)
  OBVIOUS
<1>4. \A t \in Nat : \A i \in 1..n : Cost(path[i], t, bits) \in Nat
  BY <1>2, CostFacts
<1> HIDE DEF f
<1>5. PICK g : Loop(g, Nat, start, n, f)
  <2>1. Rounds(Nat, n, f)
    BY <1>3, <1>4 DEF Rounds
  <2> QED
    BY <2>1, LoopExists
<1> DEFINE Run(h) == IsTiming(h, path, bits)
           run == CHOOSE h : Run(h)
<1>6. \A h : Run(h) <=> h = [i \in 0..n |-> IF i = 0 THEN start ELSE Cost(path[i], h[i - 1], bits)]
  BY <1>0, <1>1 DEF IsTiming, Cost, Finish
<1>7. Run(g)
  <2>1. ASSUME NEW i \in 1..n PROVE g[i] = Cost(path[i], g[i - 1], bits)
    <3>1. i - 1 \in 0..n
      OBVIOUS
    <3> QED
      BY <1>3, <1>5, <3>1 DEF Loop
  <2>2. \A i \in 0..n : i = 0 \/ i \in 1..n
    OBVIOUS
  <2>3. \A i \in 0..n : g[i] = IF i = 0 THEN start ELSE Cost(path[i], g[i - 1], bits)
    BY <1>5, <2>1, <2>2 DEF Loop
  <2>4. g = [i \in 0..n |-> g[i]]
    BY <1>5 DEF Loop
  <2>5. g = [i \in 0..n |-> IF i = 0 THEN start ELSE Cost(path[i], g[i - 1], bits)]
    BY <2>3, <2>4
  <2> HIDE DEF Run
  <2> QED
    BY <1>6, <2>5
<1>8. Run(run)
  BY ONLY <1>7, Zenon
<1>9. ArrivalOver(path, bits) = run[n]
  BY <1>0 DEF ArrivalOver, IsTiming
<1> HIDE DEF run
<1>10. run = [i \in 0..n |-> IF i = 0 THEN start ELSE Cost(path[i], run[i - 1], bits)]
  BY <1>6, <1>8
<1> HIDE DEF Run
<1> DEFINE body(i) == IF i = 0 THEN start ELSE Cost(path[i], run[i - 1], bits)
<1>11. /\ run[0] = start /\ run = [i \in 0..n |-> run[i]]
       /\ \A i \in 1..n : run[i] = Cost(path[i], run[i - 1], bits)
  <2>1. run = [i \in 0..n |-> body(i)]
    BY <1>10
  <2>2. 0 \in 0..n /\ \A i \in 1..n : i \in 0..n /\ i # 0
    OBVIOUS
  <2>3. body(0) = start /\ \A i \in 1..n : body(i) = Cost(path[i], run[i - 1], bits)
    BY <2>2
  <2> HIDE DEF body
  <2> QED
    BY <2>1, <2>2, <2>3
<1>12. \A i \in 0..n : run[i] \in Nat
  <2> DEFINE Good == {i \in 0..n : run[i] \in Nat}
  <2>1. 0 \in Good
    BY <1>11
  <2>2. \A i \in 1..n : i - 1 \in Good => i \in Good
    <3> SUFFICES ASSUME NEW i \in 1..n, run[i - 1] \in Nat PROVE run[i] \in Nat
      OBVIOUS
    <3>1. Cost(path[i], run[i - 1], bits) \in Nat
      BY <1>4
    <3> QED
      BY <1>11, <3>1
  <2> HIDE DEF Good
  <2>3. \A i \in 0..n : i \in Good
    BY <2>1, <2>2, EveryRound
  <2> QED
    BY <2>3 DEF Good
<1>13. run \in [0..n -> Nat]
  BY <1>11, <1>12
<1>14. ArrivalTimes(run, path, bits)
  BY <1>0, <1>1, <1>9, <1>11, <1>13 DEF ArrivalTimes
<1> QED
  BY <1>14

\* A path of the definition is a sequence of edges.
LEMMA PathFacts ==
  ASSUME NEW p \in Paths
  PROVE  /\ p \in Seq(Edges) /\ Len(p) \in 1..(Destination - 1) /\ DOMAIN p = 1..Len(p)
         /\ \A i \in 1..Len(p) : p[i] \in Edges
         /\ p[1][1] = 1 /\ EdgeAt(p[Len(p)]).next = Destination
         /\ \A i \in 1..(Len(p) - 1) : EdgeAt(p[i]).next = p[i + 1][1]
<1>1. PICK k \in 1..(Destination - 1) : p \in [1..k -> Edges]
  BY DEF Paths
<1>2. k \in Nat
  BY PlannerConstants
<1>3. p \in Seq(Edges) /\ Len(p) = k /\ DOMAIN p = 1..k
  BY <1>1, <1>2
<1>4. p[1] \in FirstEdges /\ EdgeAt(p[Len(p)]).next = Destination
      /\ \A i \in 1..(Len(p) - 1) : EdgeAt(p[i]).next = p[i + 1][1]
  BY DEF Paths
<1> QED
  BY <1>1, <1>3, <1>4 DEF FirstEdges

-----------------------------------------------------------------------------
(* No usable path is earlier than the table says. *)

EndLayer(forced) == IF forced = NoEdge THEN 0 ELSE 1

LEMMA NoneEarlier ==
  ASSUME RouteTypes, NEW bits \in Sizes, NEW forced, NEW p \in Usable(forced), NEW best,
         Settled(best, Destination, Behind(Destination), forced, bits)
  PROVE  /\ best[Destination][EndLayer(forced)].at # Never
         /\ best[Destination][EndLayer(forced)].at <= ArrivalOver(p, bits)
<1>0. p \in Paths /\ (\A e \in Range(p) : EdgeAllowed(e)) /\ (forced = NoEdge \/ forced \in Range(p))
  BY DEF Usable
<1>1. /\ p \in Seq(Edges) /\ Len(p) \in 1..(Destination - 1) /\ DOMAIN p = 1..Len(p)
      /\ \A i \in 1..Len(p) : p[i] \in Edges
      /\ p[1][1] = 1 /\ EdgeAt(p[Len(p)]).next = Destination
      /\ \A i \in 1..(Len(p) - 1) : EdgeAt(p[i]).next = p[i + 1][1]
  BY <1>0, PathFacts
<1>2. PICK n \in Nat : n = Len(p)
  BY <1>1
<1>3. PICK at : ArrivalTimes(at, p, bits)
  BY <1>1, ArrivalRun
<1>4. Destination \in Nat \ {0} /\ n >= 1
  BY <1>1, <1>2, PlannerConstants
<1>5. best \in Table /\ \A m \in 1..Destination : \A l \in {0, 1} : best[m][l].at \in Nat \cup {Never}
  BY DEF Settled, Table, Entry
<1> DEFINE node(i) == IF i = 0 THEN 1 ELSE EdgeAt(p[i]).next
           layer(i) == IF \E j \in 1..i : p[j] = forced THEN 1 ELSE 0
           there(i) == best[node(i)][layer(i)].at
           Good == {i \in 0..n : there(i) # Never /\ there(i) <= at[i]}
<1>6. \A i \in 0..n : node(i) \in 1..Destination /\ layer(i) \in {0, 1}
  <2>1. \A i \in 1..n : EdgeAt(p[i]).next \in 2..Destination
    BY <1>1, <1>2, EdgeFacts
  <2> QED
    BY <1>4, <2>1
<1>7. \A i \in 1..n : p[i][1] = node(i - 1) /\ EdgeAllowed(p[i]) /\ EdgeAt(p[i]).next = node(i)
  <2> SUFFICES ASSUME NEW i \in 1..n
               PROVE  p[i][1] = node(i - 1) /\ EdgeAllowed(p[i]) /\ EdgeAt(p[i]).next = node(i)
    OBVIOUS
  <2>1. p[i] \in Range(p)
    BY <1>1, <1>2 DEF Range
  <2>2. CASE i = 1
    BY <1>0, <1>1, <2>1, <2>2
  <2>3. CASE i # 1
    <3>1. i - 1 \in 1..(Len(p) - 1) /\ i = (i - 1) + 1 /\ i - 1 # 0 /\ i # 0
      BY <1>2, <2>3
    <3>2. EdgeAt(p[i - 1]).next = p[i][1]
      BY <1>1, <3>1
    <3> QED
      BY <1>0, <2>1, <3>1, <3>2
  <2> QED
    BY <2>2, <2>3
<1>8. \A i \in 1..n : layer(i) = Into(p[i], layer(i - 1), forced)
  <2> SUFFICES ASSUME NEW i \in 1..n PROVE layer(i) = Into(p[i], layer(i - 1), forced)
    OBVIOUS
  <2>1. \A j \in 1..i : j = i \/ j \in 1..(i - 1)
    OBVIOUS
  <2>2. i \in 1..i /\ \A j \in 1..(i - 1) : j \in 1..i
    OBVIOUS
  <2> QED
    BY <2>1, <2>2 DEF Into
<1>9. at[0] = now * FixedOne /\ (\A i \in 0..n : at[i] \in Nat) /\ ArrivalOver(p, bits) = at[n]
      /\ \A i \in 1..n : at[i] = Cost(p[i], at[i - 1], bits)
  BY <1>2, <1>3 DEF ArrivalTimes
<1>10. 0 \in Good
  <2>1. node(0) = 1 /\ layer(0) = 0
    OBVIOUS
  <2>2. there(0) = now * FixedOne /\ now * FixedOne \in Nat
    <3>1. best[1][0].at = now * FixedOne
      BY DEF Settled
    <3>2. now * FixedOne \in Nat
      BY PlannerConstants, MulNat DEF RouteTypes
    <3> QED
      BY <2>1, <3>1, <3>2
  <2> HIDE DEF there
  <2> QED
    BY <1>9, <2>2 DEF Never
<1>11. ASSUME NEW i \in 1..n, i - 1 \in Good PROVE i \in Good
  <2>1. i \in 0..n /\ i - 1 \in 0..n /\ there(i - 1) # Never /\ there(i - 1) <= at[i - 1]
    BY <1>11
  <2>2. Relaxed(best, p[i], layer(i - 1), forced, bits)
    <3>1. p[i] \in Edges /\ p[i][1] \in 1..Destination /\ layer(i - 1) \in {0, 1}
      BY <1>1, <1>2, EdgeFacts
    <3> HIDE DEF layer
    <3>2. <<p[i], layer(i - 1)>> \in Behind(Destination)
      BY <1>4, <3>1 DEF Behind
    <3>3. \A x \in Behind(Destination) : Relaxed(best, x[1], x[2], forced, bits)
      BY DEF Settled
    <3>4. <<p[i], layer(i - 1)>>[1] = p[i] /\ <<p[i], layer(i - 1)>>[2] = layer(i - 1)
      OBVIOUS
    <3> QED
      BY <3>2, <3>3, <3>4
  <2>3. there(i) # Never /\ there(i) <= Cost(p[i], there(i - 1), bits)
    <3> HIDE DEF layer, node
    <3> QED
      BY <1>7, <1>8, <2>1, <2>2 DEF Relaxed
  <2>4. there(i) \in Nat /\ there(i - 1) \in Nat
    <3> HIDE DEF layer, node
    <3> QED
      BY <1>5, <1>6, <2>1, <2>3
  <2>5. p[i] \in Edges /\ at[i] \in Nat /\ at[i - 1] \in Nat
    BY <1>1, <1>2, <1>9, <2>1
  <2> HIDE DEF there
  <2>6. Cost(p[i], there(i - 1), bits) <= at[i] /\ Cost(p[i], there(i - 1), bits) \in Nat
    BY <1>9, <2>1, <2>4, <2>5, CostFacts
  <2>7. \A a, b, c \in Nat : a <= b /\ b <= c => a <= c
    OBVIOUS
  <2>8. there(i) <= at[i]
    BY <2>3, <2>4, <2>5, <2>6, <2>7
  <2> QED
    BY <2>1, <2>3, <2>8
<1>12. n \in Good
  <2> HIDE DEF Good
  <2>1. \A i \in 0..n : i \in Good
    BY <1>10, <1>11, EveryRound
  <2> QED
    BY <2>1
<1>13. node(n) = Destination
  BY <1>1, <1>2, <1>4
<1>14. layer(n) = EndLayer(forced)
  <2>1. CASE forced = NoEdge
    <3>1. \A j \in 1..n : p[j] # NoEdge
      BY <1>1, <1>2, EdgeFacts
    <3> QED
      BY <2>1, <3>1 DEF EndLayer
  <2>2. CASE forced # NoEdge
    <3>1. \E j \in 1..n : p[j] = forced
      BY <1>0, <1>1, <1>2, <2>2 DEF Range
    <3> QED
      BY <2>2, <3>1 DEF EndLayer
  <2> QED
    BY <2>1, <2>2
<1>15. there(n) # Never /\ there(n) <= at[n]
  BY <1>12
<1> HIDE DEF node, layer
<1> QED
  BY <1>9, <1>13, <1>14, <1>15

-----------------------------------------------------------------------------
(* The walk back over the predecessors. *)

\* Edge e leads from node n and layer l to node m and layer k, and the table's
\* arrival there is the one over e.
Hop(best, e, n, l, m, k, forced, bits) ==
  /\ e \in Edges /\ e[1] = n /\ EdgeAt(e).next = m /\ EdgeAllowed(e) /\ k = Into(e, l, forced)
  /\ best[n][l].at # Never /\ best[m][k].at = Cost(e, best[n][l].at, bits)

\* Nodes and layers along the path of a walk that has come back to w.node.
Trail(best, w, node, layer, forced, bits) ==
  /\ node \in [0..Len(w.path) -> 1..Destination] /\ layer \in [0..Len(w.path) -> {0, 1}]
  /\ node[0] = w.node /\ layer[0] = w.layer
  /\ node[Len(w.path)] = Destination /\ layer[Len(w.path)] = EndLayer(forced)
  /\ \A i \in 1..Len(w.path) :
       Hop(best, w.path[i], node[i - 1], layer[i - 1], node[i], layer[i], forced, bits)

Walkers == [node : 1..Destination, layer : {0, 1}, path : Seq(Edges)]

\* The states of a walk.
Walks(best, forced, bits) ==
  {w \in Walkers : /\ best[w.node][w.layer].at # Never
                   /\ \E node, layer : Trail(best, w, node, layer, forced, bits)}

EndOfWalk(forced) == [node |-> Destination, layer |-> EndLayer(forced), path |-> <<>>]

\* The walk starts at the destination.
LEMMA WalkStarts ==
  ASSUME NEW best, NEW forced, NEW bits, best[Destination][EndLayer(forced)].at # Never
  PROVE  EndOfWalk(forced) \in Walks(best, forced, bits)
<1> DEFINE w == EndOfWalk(forced)
           node == [i \in 0..0 |-> Destination]
           layer == [i \in 0..0 |-> EndLayer(forced)]
<1>1. w \in Walkers /\ w.node = Destination /\ w.layer = EndLayer(forced) /\ w.path = <<>>
  BY PlannerConstants DEF EndOfWalk, Walkers, EndLayer
<1>2. Len(w.path) = 0 /\ EndLayer(forced) \in {0, 1} /\ Destination \in 1..Destination
  BY <1>1, PlannerConstants DEF EndLayer
<1>3. node \in [0..0 -> 1..Destination] /\ layer \in [0..0 -> {0, 1}]
  BY <1>2
<1>4. node[0] = Destination /\ layer[0] = EndLayer(forced)
  OBVIOUS
<1> HIDE DEF w, node, layer
<1>5. Trail(best, w, node, layer, forced, bits)
  BY <1>1, <1>2, <1>3, <1>4 DEF Trail
<1>6. w \in Walks(best, forced, bits)
  BY <1>1, <1>5 DEF Walks
<1> QED
  BY <1>6 DEF w

\* A step back stays on a trail, and gets nearer.
LEMMA WalkGoesOn ==
  ASSUME NEW best, NEW forced, NEW bits, Settled(best, Destination, Behind(Destination), forced, bits),
         NEW w \in Walks(best, forced, bits)
  PROVE  /\ StepBack(best, w) \in Walks(best, forced, bits)
         /\ w.node = 1 => StepBack(best, w) = w
         /\ w.node # 1 => StepBack(best, w).node < w.node
<1>0. Destination \in Nat \ {0}
  BY PlannerConstants
<1>1. w \in Walkers /\ best[w.node][w.layer].at # Never
  BY DEF Walks
<1>2. w.node \in 1..Destination /\ w.layer \in {0, 1} /\ w.path \in Seq(Edges)
  BY <1>1 DEF Walkers
<1>3. CASE w.node = 1
  BY <1>3 DEF StepBack
<1>4. CASE w.node # 1
  <2> DEFINE b == best[w.node][w.layer]
             v == b.via
             back == StepBack(best, w)
  <2>1. From(best, w.node, w.layer, Destination, forced, bits)
    <3>1. w.node \in 2..Destination
      BY <1>0, <1>2, <1>4
    <3> QED
      BY <1>1, <1>2, <3>1 DEF Settled
  <2>2. /\ v \in Edges /\ EdgeAt(v).next = w.node /\ EdgeAllowed(v) /\ w.layer = Into(v, b.layer, forced)
        /\ best[v[1]][b.layer].at # Never /\ b.at = Cost(v, best[v[1]][b.layer].at, bits)
    BY <2>1 DEF From
  <2>3. v[1] \in 1..Destination /\ v[1] < w.node
    BY <2>2, EdgeFacts
  <2>4. b.layer \in {0, 1}
    BY <1>2 DEF Settled, Table, Entry
  <2>5. back = [node |-> v[1], layer |-> b.layer, path |-> <<v>> \o w.path]
    BY <1>4 DEF StepBack
  <2>6. PICK n \in Nat : n = Len(w.path)
    BY <1>2
  <2>7. PICK node, layer : Trail(best, w, node, layer, forced, bits)
    BY DEF Walks
  <2>8. /\ node \in [0..n -> 1..Destination] /\ layer \in [0..n -> {0, 1}]
        /\ node[0] = w.node /\ layer[0] = w.layer /\ node[n] = Destination /\ layer[n] = EndLayer(forced)
        /\ \A i \in 1..n : Hop(best, w.path[i], node[i - 1], layer[i - 1], node[i], layer[i], forced, bits)
    BY <2>6, <2>7 DEF Trail
  <2>9. Hop(best, v, v[1], b.layer, w.node, w.layer, forced, bits)
    BY <2>2 DEF Hop
  <2>10. PICK from, l, path : from = v[1] /\ l = b.layer /\ path = <<v>> \o w.path
    OBVIOUS
  <2>11. back = [node |-> from, layer |-> l, path |-> path] /\ from \in 1..Destination /\ l \in {0, 1}
    BY <2>3, <2>4, <2>5, <2>10
  <2>12. path \in Seq(Edges) /\ Len(path) = n + 1 /\ path[1] = v /\ \A i \in 2..(n + 1) : path[i] = w.path[i - 1]
    <3>1. PICK q : q = w.path
      OBVIOUS
    <3>2. v \in Edges /\ q \in Seq(Edges) /\ Len(q) = n /\ path = <<v>> \o q
      BY <1>2, <2>2, <2>6, <2>10, <3>1
    <3> HIDE DEF v
    <3>3. path \in Seq(Edges) /\ Len(path) = n + 1 /\ path[1] = v /\ \A i \in 2..(n + 1) : path[i] = q[i - 1]
      BY ONLY <3>2, n \in Nat
    <3> QED
      BY <3>1, <3>3
  <2>13. Hop(best, v, from, l, node[0], layer[0], forced, bits) /\ from < w.node
    BY <2>3, <2>8, <2>9, <2>10
  <2>14. best[from][l].at # Never
    BY <2>2, <2>10
  <2> DEFINE node2 == [i \in 0..(n + 1) |-> IF i = 0 THEN from ELSE node[i - 1]]
             layer2 == [i \in 0..(n + 1) |-> IF i = 0 THEN l ELSE layer[i - 1]]
  <2> HIDE DEF b, v, back
  <2>15. \A i \in 1..(n + 1) : i # 0 /\ i \in 0..(n + 1) /\ i - 1 \in 0..n /\ (i # 1 => i - 1 \in 1..n /\ i \in 2..(n + 1))
    OBVIOUS
  <2>16. node2[0] = from /\ layer2[0] = l /\ \A i \in 1..(n + 1) : node2[i] = node[i - 1] /\ layer2[i] = layer[i - 1]
    BY <2>15
  <2>17. node2 \in [0..(n + 1) -> 1..Destination] /\ layer2 \in [0..(n + 1) -> {0, 1}]
    <3>1. \A i \in 0..(n + 1) : i = 0 \/ i - 1 \in 0..n
      OBVIOUS
    <3> QED
      BY <2>8, <2>11, <3>1
  <2> HIDE DEF node2, layer2
  <2>18. ASSUME NEW i \in 1..(n + 1)
         PROVE  Hop(best, path[i], node2[i - 1], layer2[i - 1], node2[i], layer2[i], forced, bits)
    <3>1. CASE i = 1
      <4>1. node2[i - 1] = from /\ layer2[i - 1] = l /\ node2[i] = node[0] /\ layer2[i] = layer[0] /\ path[i] = v
        BY <2>12, <2>15, <2>16, <3>1
      <4> QED
        BY <2>13, <4>1
    <3>2. CASE i # 1
      <4>1. PICK j : j = i - 1
        OBVIOUS
      <4>2. j \in 1..n /\ j \in 1..(n + 1) /\ i \in 2..(n + 1)
        BY <2>15, <3>2, <4>1
      <4>3. /\ node2[j] = node[j - 1] /\ layer2[j] = layer[j - 1]
            /\ node2[i] = node[j] /\ layer2[i] = layer[j] /\ path[i] = w.path[j]
        BY <2>12, <2>16, <4>1, <4>2
      <4> QED
        BY <2>8, <4>1, <4>2, <4>3
    <3> QED
      BY <3>1, <3>2
  <2>19. node2[n + 1] = Destination /\ layer2[n + 1] = EndLayer(forced)
    <3>1. n + 1 \in 1..(n + 1) /\ (n + 1) - 1 = n
      OBVIOUS
    <3> QED
      BY <2>8, <2>16, <3>1
  <2>20. back.node = from /\ back.layer = l /\ back.path = path /\ back \in Walkers
    BY <2>11, <2>12 DEF Walkers
  <2>21. Trail(best, back, node2, layer2, forced, bits)
    BY <2>12, <2>16, <2>17, <2>18, <2>19, <2>20 DEF Trail
  <2>22. back \in Walks(best, forced, bits)
    BY <2>14, <2>20, <2>21 DEF Walks
  <2> QED
    BY <1>4, <2>13, <2>20, <2>22 DEF back
<1> QED
  BY <1>3, <1>4

IsWalk(walk, best, forced) ==
  walk = [i \in 0..Destination |->
            IF i = 0 THEN EndOfWalk(forced) ELSE StepBack(best, walk[i - 1])]

\* A walk back ends at this endpoint.
LEMMA WalkEnds ==
  ASSUME RouteTypes, NEW bits \in Sizes, NEW forced, Arrivals(forced, bits)[Destination][EndLayer(forced)].at # Never
  PROVE  \E w \in Walks(Arrivals(forced, bits), forced, bits) : w.node = 1 /\ w.path = CalculatePath(forced, bits)
<1> DEFINE best == Arrivals(forced, bits)
           S == Walks(best, forced, bits)
           f == [x \in S \X (1..Destination) |-> StepBack(best, x[1])]
           Run(h) == IsWalk(h, best, forced)
           run == CHOOSE h : Run(h)
<1>0. Destination \in Nat \ {0}
  BY PlannerConstants
<1>1. Settled(best, Destination, Behind(Destination), forced, bits)
  BY ArrivalsSettled
<1>2. CalculatePath(forced, bits) = run[Destination].path
  BY DEF CalculatePath, IsWalk, EndOfWalk, EndLayer
<1>3. best[Destination][EndLayer(forced)].at # Never
  OBVIOUS
<1> HIDE DEF best
<1>4. EndOfWalk(forced) \in S
  BY <1>3, WalkStarts
<1>5. \A s \in S : StepBack(best, s) \in S
  BY <1>1, WalkGoesOn
<1> HIDE DEF S
<1>6. \A s \in S : \A i \in 1..Destination : f[<<s, i>>] = StepBack(best, s)
  OBVIOUS
<1> HIDE DEF f
<1>7. PICK g : Loop(g, S, EndOfWalk(forced), Destination, f)
  <2>1. Rounds(S, Destination, f)
    BY <1>5, <1>6 DEF Rounds
  <2> QED
    BY <1>0, <1>4, <2>1, LoopExists
<1>8. Run(g)
  <2>1. ASSUME NEW i \in 1..Destination PROVE g[i] = StepBack(best, g[i - 1])
    <3>1. i - 1 \in 0..Destination
      BY <1>0
    <3> QED
      BY <1>6, <1>7, <3>1 DEF Loop
  <2>2. \A i \in 0..Destination : i = 0 \/ i \in 1..Destination
    BY <1>0
  <2>3. \A i \in 0..Destination : g[i] = IF i = 0 THEN EndOfWalk(forced) ELSE StepBack(best, g[i - 1])
    BY <1>7, <2>1, <2>2 DEF Loop
  <2>4. g = [i \in 0..Destination |-> g[i]]
    BY <1>7 DEF Loop
  <2> QED
    BY <2>3, <2>4 DEF IsWalk
<1>9. Run(run)
  BY ONLY <1>8, Zenon
<1> HIDE DEF run
<1>10. run[0] = EndOfWalk(forced) /\ \A i \in 1..Destination : run[i] = StepBack(best, run[i - 1])
  <2> DEFINE body(i) == IF i = 0 THEN EndOfWalk(forced) ELSE StepBack(best, run[i - 1])
  <2>1. run = [i \in 0..Destination |-> body(i)]
    BY <1>9 DEF IsWalk
  <2>2. 0 \in 0..Destination /\ \A i \in 1..Destination : i \in 0..Destination /\ i # 0
    BY <1>0
  <2>3. body(0) = EndOfWalk(forced) /\ \A i \in 1..Destination : body(i) = StepBack(best, run[i - 1])
    BY <2>2
  <2> HIDE DEF body
  <2> QED
    BY <2>1, <2>2, <2>3
<1> DEFINE Good == {i \in 0..Destination : run[i] \in S /\ (run[i].node = 1 \/ run[i].node <= Destination - i)}
<1>11. \A s \in S : s.node \in 1..Destination
  BY DEF S, Walks, Walkers
<1>12. 0 \in Good
  <2>1. EndOfWalk(forced).node = Destination
    BY DEF EndOfWalk
  <2> QED
    BY <1>0, <1>4, <1>10, <2>1
<1>13. ASSUME NEW i \in 1..Destination, i - 1 \in Good PROVE i \in Good
  <2>1. i \in 0..Destination
    BY <1>0
  <2>2. PICK w : w = run[i - 1]
    OBVIOUS
  <2>3. w \in S /\ (w.node = 1 \/ w.node <= Destination - (i - 1))
    BY <1>13, <2>2
  <2>4. PICK next : next = StepBack(best, w)
    OBVIOUS
  <2>5. next \in S /\ (w.node = 1 => next = w) /\ (w.node # 1 => next.node < w.node)
    BY <1>1, <2>3, <2>4, WalkGoesOn DEF S
  <2>6. next.node = 1 \/ next.node <= Destination - i
    <3>1. PICK a, b : a = w.node /\ b = next.node
      OBVIOUS
    <3>2. a \in 1..Destination /\ b \in 1..Destination
      BY <1>11, <2>3, <2>5, <3>1
    <3>3. (a = 1 => b = a) /\ (a # 1 => b < a) /\ (a = 1 \/ a <= Destination - (i - 1))
      BY <2>3, <2>5, <3>1
    <3>4. b = 1 \/ b <= Destination - i
      BY ONLY <1>0, <3>2, <3>3, i \in 1..Destination
    <3> QED
      BY <3>1, <3>4
  <2>7. run[i] = next
    BY <1>10, <2>2, <2>4
  <2> QED
    BY <2>1, <2>5, <2>6, <2>7
<1>14. Destination \in Good
  <2> HIDE DEF Good
  <2>1. \A i \in 0..Destination : i \in Good
    BY <1>0, <1>12, <1>13, EveryRound
  <2> QED
    BY <1>0, <2>1
<1>15. run[Destination] \in S /\ run[Destination].node = 1
  <2>1. run[Destination] \in S /\ (run[Destination].node = 1 \/ run[Destination].node <= Destination - Destination)
    BY <1>14
  <2>2. run[Destination].node \in 1..Destination
    BY <1>11, <2>1
  <2> QED
    BY <1>0, <2>1, <2>2
<1> QED
  BY <1>2, <1>15 DEF S, best

-----------------------------------------------------------------------------
(* The plan. *)

\* What a finished walk has found.
LEMMA WalkFinds ==
  ASSUME RouteTypes, NEW bits \in Sizes, NEW forced, NEW best, NEW w \in Walks(best, forced, bits), w.node = 1,
         Settled(best, Destination, Behind(Destination), forced, bits)
  PROVE  \/ Destination = 1 /\ w.path = <<>>
         \/ w.path \in Usable(forced) /\ ArrivalOver(w.path, bits) = best[Destination][EndLayer(forced)].at
<1>0. Destination \in Nat \ {0}
  BY PlannerConstants
<1>1. w \in Walkers /\ best[w.node][w.layer].at # Never
  BY DEF Walks
<1>2. PICK path \in Seq(Edges) : path = w.path
  BY <1>1 DEF Walkers
<1>3. PICK node, layer : Trail(best, w, node, layer, forced, bits)
  BY DEF Walks
<1>4. PICK n \in Nat : n = Len(path)
  OBVIOUS
<1>5. /\ node \in [0..n -> 1..Destination] /\ layer \in [0..n -> {0, 1}]
      /\ node[0] = 1 /\ layer[0] = w.layer /\ node[n] = Destination /\ layer[n] = EndLayer(forced)
  BY <1>2, <1>3, <1>4 DEF Trail
<1>6. \A i \in 1..n : Hop(best, path[i], node[i - 1], layer[i - 1], node[i], layer[i], forced, bits)
  BY <1>2, <1>3, <1>4 DEF Trail
<1>7. layer[0] = 0
  <2>1. w.layer \in {0, 1} /\ best[1][w.layer].at # Never /\ best[1][1].at = Never
    BY <1>1 DEF Walkers, Settled
  <2> QED
    BY <1>5, <2>1
<1>8. \A i \in 1..n : /\ path[i] \in Edges /\ path[i][1] = node[i - 1] /\ EdgeAt(path[i]).next = node[i]
                      /\ EdgeAllowed(path[i]) /\ layer[i] = Into(path[i], layer[i - 1], forced)
                      /\ best[node[i]][layer[i]].at = Cost(path[i], best[node[i - 1]][layer[i - 1]].at, bits)
  BY <1>6 DEF Hop
<1>9. n + 1 <= Destination
  <2> DEFINE Good == {i \in 0..n : node[i] >= i + 1}
  <2>1. 0 \in Good
    BY <1>5
  <2>2. \A i \in 1..n : i - 1 \in Good => i \in Good
    <3> SUFFICES ASSUME NEW i \in 1..n, node[i - 1] >= (i - 1) + 1 PROVE node[i] >= i + 1
      OBVIOUS
    <3>1. PICK e \in Edges : e = path[i]
      BY <1>8
    <3>2. node[i - 1] = e[1] /\ node[i] = EdgeAt(e).next
      BY <1>8, <3>1
    <3>3. e[1] \in 1..Destination /\ EdgeAt(e).next \in 2..Destination /\ e[1] < EdgeAt(e).next
      BY EdgeFacts
    <3>4. PICK a, b \in Nat : a = e[1] /\ b = EdgeAt(e).next
      BY <1>0, <3>3
    <3>5. a >= (i - 1) + 1 /\ a < b
      BY <3>2, <3>3, <3>4
    <3>6. b >= i + 1
      BY ONLY <3>5, a \in Nat, b \in Nat, i \in 1..n, n \in Nat
    <3> QED
      BY <3>2, <3>4, <3>6
  <2> HIDE DEF Good
  <2>3. n \in Good
    <3>1. \A i \in 0..n : i \in Good
      BY <2>1, <2>2, EveryRound
    <3> QED
      BY <3>1
  <2> QED
    BY <1>5, <2>3 DEF Good
<1>10. ArrivalOver(path, bits) = best[Destination][EndLayer(forced)].at
  <2>1. PICK at : ArrivalTimes(at, path, bits)
    BY ArrivalRun
  <2>2. at[0] = now * FixedOne /\ ArrivalOver(path, bits) = at[n]
        /\ \A i \in 1..n : at[i] = Cost(path[i], at[i - 1], bits)
    BY <1>4, <2>1 DEF ArrivalTimes
  <2> DEFINE Good == {i \in 0..n : at[i] = best[node[i]][layer[i]].at}
  <2>3. 0 \in Good
    <3>1. best[1][0].at = now * FixedOne
      BY DEF Settled
    <3> QED
      BY <1>5, <1>7, <2>2, <3>1
  <2>4. \A i \in 1..n : i - 1 \in Good => i \in Good
    <3> SUFFICES ASSUME NEW i \in 1..n, at[i - 1] = best[node[i - 1]][layer[i - 1]].at
                 PROVE  at[i] = best[node[i]][layer[i]].at
      OBVIOUS
    <3> QED
      BY <1>8, <2>2
  <2> HIDE DEF Good
  <2>5. n \in Good
    <3>1. \A i \in 0..n : i \in Good
      BY <2>3, <2>4, EveryRound
    <3> QED
      BY <3>1
  <2> QED
    BY <1>5, <2>2, <2>5 DEF Good
<1>11. CASE n = 0
  <2>1. path = <<>> /\ Destination = 1
    <3>1. path = <<>>
      <4>1. Len(path) = 0
        BY <1>4, <1>11
      <4> QED
        BY ONLY <4>1, path \in Seq(Edges)
    <3>2. node[n] = node[0]
      BY <1>11
    <3> QED
      BY <1>5, <3>1, <3>2
  <2> QED
    BY <1>2, <2>1
<1>12. CASE n # 0
  <2>1. n \in 1..(Destination - 1) /\ 1 \in 1..n /\ n \in 1..n /\ DOMAIN path = 1..n
    BY <1>0, <1>4, <1>9, <1>12
  <2>2. path \in [1..n -> Edges]
    BY <1>4
  <2>3. path[1] \in FirstEdges
    BY <1>5, <1>8, <2>1 DEF FirstEdges
  <2>4. EdgeAt(path[Len(path)]).next = Destination
    BY <1>4, <1>5, <1>8, <2>1
  <2>5. ASSUME NEW i \in 1..(Len(path) - 1) PROVE EdgeAt(path[i]).next = path[i + 1][1]
    <3>1. i \in 1..n /\ i + 1 \in 1..n /\ (i + 1) - 1 = i
      BY <1>4
    <3> QED
      BY <1>8, <3>1
  <2>6. path \in Paths
    BY <2>1, <2>2, <2>3, <2>4, <2>5 DEF Paths
  <2>7. \A e \in Range(path) : EdgeAllowed(e)
    BY <1>8, <2>1 DEF Range
  <2>8. forced = NoEdge \/ forced \in Range(path)
    <3> SUFFICES ASSUME forced # NoEdge, forced \notin Range(path) PROVE FALSE
      OBVIOUS
    <3>1. \A i \in 1..n : path[i] # forced
      BY <2>1 DEF Range
    <3> DEFINE Good == {i \in 0..n : layer[i] = 0}
    <3>2. 0 \in Good
      BY <1>7
    <3>3. \A i \in 1..n : i - 1 \in Good => i \in Good
      BY <1>8, <3>1 DEF Into
    <3> HIDE DEF Good
    <3>4. n \in Good
      <4>1. \A i \in 0..n : i \in Good
        BY <3>2, <3>3, EveryRound
      <4> QED
        BY <4>1
    <3> QED
      BY <1>5, <3>4 DEF Good, EndLayer
  <2> QED
    BY <1>2, <1>10, <2>6, <2>7, <2>8 DEF Usable
<1> QED
  BY <1>11, <1>12

\* calculate_path finds the earliest of the usable paths, and one if there is one.
LEMMA PathEarliest ==
  ASSUME RouteTypes, NEW bits \in Sizes, NEW forced
  PROVE  /\ Usable(forced) = {} => CalculatePath(forced, bits) = <<>>
         /\ Usable(forced) # {} => /\ CalculatePath(forced, bits) \in Usable(forced)
                                   /\ \A p \in Usable(forced) :
                                        ArrivalOver(CalculatePath(forced, bits), bits) <= ArrivalOver(p, bits)
<1>1. PICK best : best = Arrivals(forced, bits)
  OBVIOUS
<1>2. Settled(best, Destination, Behind(Destination), forced, bits)
  BY <1>1, ArrivalsSettled
<1>3. PICK end : end = best[Destination][EndLayer(forced)].at
  OBVIOUS
<1>4. PICK path : path = CalculatePath(forced, bits)
  OBVIOUS
<1>5. ASSUME end = Never PROVE path = <<>>
  BY <1>1, <1>3, <1>4, <1>5 DEF CalculatePath, EndLayer
<1>6. ASSUME end # Never
      PROVE  \/ Destination = 1 /\ path = <<>>
             \/ path \in Usable(forced) /\ ArrivalOver(path, bits) = end
  <2>1. PICK w \in Walks(best, forced, bits) : w.node = 1 /\ w.path = path
    BY <1>1, <1>3, <1>4, <1>6, WalkEnds
  <2> QED
    BY <1>2, <1>3, <2>1, WalkFinds
<1>7. \A p \in Usable(forced) : end # Never /\ end <= ArrivalOver(p, bits)
  BY <1>2, <1>3, NoneEarlier
<1>8. \A p \in Usable(forced) : Destination # 1
  <2> SUFFICES ASSUME NEW p \in Usable(forced) PROVE Destination # 1
    OBVIOUS
  <2>1. Len(p) \in 1..(Destination - 1)
    BY PathFacts DEF Usable
  <2> QED
    BY <2>1, PlannerConstants
<1>9. Usable(forced) = {} => path = <<>>
  BY <1>5, <1>6
<1>10. Usable(forced) # {} => path \in Usable(forced) /\ \A p \in Usable(forced) : ArrivalOver(path, bits) <= ArrivalOver(p, bits)
  BY <1>6, <1>7, <1>8
<1> QED
  BY <1>4, <1>9, <1>10

LEMMA EarliestHolds == ASSUME RouteTypes PROVE PlanIsEarliest
BY PathEarliest DEF PlanIsEarliest

-----------------------------------------------------------------------------
(* A packet is planned whenever a first edge is allowed. *)

\* Only the first edges cool down.
OnlyFirstCool == \A e \in Edges : e[1] # 1 => edges[e].cooldown = 0

LEMMA BehindFirstAllowed ==
  ASSUME RouteTypes, OnlyFirstCool, NEW e \in Edges, e[1] # 1
  PROVE  EdgeAllowed(e)
<1>1. now \in Nat
  BY PlannerConstants DEF RouteTypes
<1> QED
  BY <1>1 DEF EdgeAllowed, OnlyFirstCool

\* From a node behind this endpoint that is reached the destination is.
LEMMA ReachesEnd ==
  ASSUME RouteTypes, OnlyFirstCool, NEW bits \in Sizes, NEW forced, NEW best,
         Settled(best, Destination, Behind(Destination), forced, bits),
         NEW m \in 2..Destination, NEW l \in {0, 1}, best[m][l].at # Never, l = EndLayer(forced)
  PROVE  best[Destination][l].at # Never
<1>0. Destination \in Nat \ {0}
  BY PlannerConstants
<1> DEFINE S == {d \in 0..Destination : Destination - d \in 2..Destination /\ best[Destination - d][l].at # Never}
<1>1. S \in SUBSET Nat
  BY <1>0
<1>2. Destination - m \in S
  <2>1. Destination - m \in 0..Destination /\ Destination - (Destination - m) = m
    BY <1>0
  <2> QED
    BY <2>1
<1>3. PICK d \in S : \A c \in S : d <= c
  <2> HIDE DEF S
  <2> QED
    BY <1>1, <1>2, LeastNumber
<1>4. PICK n \in 2..Destination : n = Destination - d
  BY <1>3
<1>5. d \in Nat /\ best[n][l].at # Never /\ d = Destination - n
  BY <1>0, <1>3, <1>4
<1>6. CASE n = Destination
  BY <1>5, <1>6
<1>7. CASE n # Destination
  <2>1. n \in 1..Destination /\ n # 1
    BY <1>0
  <2>2. PICK e \in Edges : e[1] = n
    BY <1>7, <2>1, NodeEdges
  <2>3. EdgeAllowed(e)
    BY <2>1, <2>2, BehindFirstAllowed
  <2>4. Into(e, l, forced) = l
    <3>1. e # NoEdge
      BY EdgeFacts
    <3> QED
      BY <3>1 DEF Into, EndLayer
  <2>5. Relaxed(best, e, l, forced, bits)
    <3>1. <<e, l>> \in Behind(Destination)
      BY <1>0, <2>1, <2>2 DEF Behind
    <3>2. \A x \in Behind(Destination) : Relaxed(best, x[1], x[2], forced, bits)
      BY DEF Settled
    <3>3. <<e, l>>[1] = e /\ <<e, l>>[2] = l
      OBVIOUS
    <3> QED
      BY <3>1, <3>2, <3>3
  <2>6. PICK next : next = EdgeAt(e).next
    OBVIOUS
  <2>7. best[next][l].at # Never
    BY <1>5, <2>2, <2>3, <2>4, <2>5, <2>6 DEF Relaxed
  <2>8. next \in 2..Destination /\ n < next
    BY <2>2, <2>6, EdgeFacts
  <2>9. PICK c : c = Destination - next
    OBVIOUS
  <2>10. c \in 0..Destination /\ Destination - c = next /\ c < d /\ c \in Nat
    BY ONLY <1>0, <1>5, <2>8, <2>9, n \in 2..Destination
  <2>11. c \in S
    BY <2>7, <2>8, <2>10
  <2>12. d <= c
    <3> HIDE DEF S
    <3> QED
      BY <1>3, <2>11
  <2> QED
    BY <1>5, <2>10, <2>12
<1> QED
  BY <1>6, <1>7

IsMarking(after) ==
  LET ahead(n) == {EdgeAt(e).next : e \in {f \in Edges : f[1] = n /\ EdgeAllowed(f)}}
  IN  after = [n \in 0..Destination |->
                 IF n = 0 THEN {1}
                 ELSE IF n \in after[n - 1] THEN after[n - 1] \cup ahead(n) ELSE after[n - 1]]

\* sampling_edge marks this endpoint, and nothing that is outside of a set that
\* has it and that no allowed edge leaves.
LEMMA ReachableFacts ==
  ASSUME NEW R, 1 \in R, \A e \in Edges : e[1] \in R /\ EdgeAllowed(e) => EdgeAt(e).next \in R
  PROVE  1 \in Reachable /\ Reachable \subseteq R
<1> DEFINE ahead(n) == {EdgeAt(e).next : e \in {f \in Edges : f[1] = n /\ EdgeAllowed(f)}}
           mark(s, n) == IF n \in s THEN s \cup ahead(n) ELSE s
           S == SUBSET (1..Destination)
           f == [x \in S \X (1..Destination) |-> mark(x[1], x[2])]
           Run(h) == IsMarking(h)
           run == CHOOSE h : Run(h)
<1>0. Destination \in Nat \ {0}
  BY PlannerConstants
<1>1. Reachable = run[Destination]
  BY DEF Reachable, IsMarking
<1>2. \A n : ahead(n) \in S
  <2> SUFFICES ASSUME NEW e \in Edges PROVE EdgeAt(e).next \in 1..Destination
    OBVIOUS
  <2>1. EdgeAt(e).next \in 2..Destination
    BY EdgeFacts
  <2> QED
    BY <1>0, <2>1
<1>3. \A n \in R : ahead(n) \subseteq R
  OBVIOUS
<1>4. \A h : Run(h) <=> h = [n \in 0..Destination |-> IF n = 0 THEN {1} ELSE mark(h[n - 1], n)]
  BY DEF IsMarking
<1> HIDE DEF ahead
<1>5. \A s \in S : \A n \in 1..Destination : mark(s, n) \in S
  BY <1>2
<1>6. \A s : \A n \in 1..Destination : s \subseteq R /\ 1 \in s => mark(s, n) \subseteq R /\ 1 \in mark(s, n)
  BY <1>3
<1> HIDE DEF mark
<1>7. \A s \in S : \A n \in 1..Destination : f[<<s, n>>] = mark(s, n)
  OBVIOUS
<1>8. {1} \in S
  BY <1>0
<1> HIDE DEF f, S, Run
<1>9. PICK g : Loop(g, S, {1}, Destination, f)
  <2>1. Rounds(S, Destination, f)
    BY <1>5, <1>7 DEF Rounds
  <2> QED
    BY <1>0, <1>8, <2>1, LoopExists
<1>10. Run(g)
  <2>1. ASSUME NEW n \in 1..Destination PROVE g[n] = mark(g[n - 1], n)
    <3>1. n - 1 \in 0..Destination
      BY <1>0
    <3> QED
      BY <1>7, <1>9, <3>1 DEF Loop
  <2>2. \A n \in 0..Destination : n = 0 \/ n \in 1..Destination
    BY <1>0
  <2>3. \A n \in 0..Destination : g[n] = IF n = 0 THEN {1} ELSE mark(g[n - 1], n)
    BY <1>9, <2>1, <2>2 DEF Loop
  <2>4. g = [n \in 0..Destination |-> g[n]]
    BY <1>9 DEF Loop
  <2>5. g = [n \in 0..Destination |-> IF n = 0 THEN {1} ELSE mark(g[n - 1], n)]
    BY <2>3, <2>4
  <2> QED
    BY <1>4, <2>5
<1>11. Run(run)
  BY ONLY <1>10, Zenon
<1> HIDE DEF run
<1>12. run[0] = {1} /\ \A n \in 1..Destination : run[n] = mark(run[n - 1], n)
  <2> DEFINE body(n) == IF n = 0 THEN {1} ELSE mark(run[n - 1], n)
  <2>1. run = [n \in 0..Destination |-> body(n)]
    BY <1>4, <1>11
  <2>2. 0 \in 0..Destination /\ \A n \in 1..Destination : n \in 0..Destination /\ n # 0
    BY <1>0
  <2>3. body(0) = {1} /\ \A n \in 1..Destination : body(n) = mark(run[n - 1], n)
    BY <2>2
  <2> HIDE DEF body
  <2> QED
    BY <2>1, <2>2, <2>3
<1> DEFINE Good == {n \in 0..Destination : run[n] \subseteq R /\ 1 \in run[n]}
<1>13. 0 \in Good
  BY <1>0, <1>12
<1>14. \A n \in 1..Destination : n - 1 \in Good => n \in Good
  <2> SUFFICES ASSUME NEW n \in 1..Destination, run[n - 1] \subseteq R, 1 \in run[n - 1]
               PROVE  run[n] \subseteq R /\ 1 \in run[n]
    BY <1>0
  <2> QED
    BY <1>6, <1>12
<1> HIDE DEF Good
<1>15. Destination \in Good
  <2>1. \A n \in 0..Destination : n \in Good
    BY <1>0, <1>13, <1>14, EveryRound
  <2> QED
    BY <1>0, <2>1
<1> QED
  BY <1>1, <1>15 DEF Good

\* One of several has the least number.
LEMMA LeastBy ==
  ASSUME NEW S, S # {}, NEW f, \A x \in S : f[x] \in Nat
  PROVE  \E x \in S : \A y \in S : f[x] <= f[y]
<1> DEFINE T == {f[x] : x \in S}
<1>1. T \in SUBSET Nat /\ T # {}
  OBVIOUS
<1> HIDE DEF T
<1>2. PICK n \in T : \A m \in T : n <= m
  BY <1>1, LeastNumber
<1>3. PICK x \in S : n = f[x]
  BY DEF T
<1> QED
  BY <1>2, <1>3 DEF T

\* sampling_edge returns a candidate if there is one.
LEMMA SamplingCandidate ==
  ASSUME RouteTypes, SamplingCandidates # {}
  PROVE  SamplingEdge \in SamplingCandidates
<1>1. PICK C \in SUBSET Edges : C = SamplingCandidates
  BY DEF SamplingCandidates
<1>2. \A e \in C : edges[e].sampled \in Never..MaxTime /\ edges[e].sampled + 1 \in Nat
  <2> SUFFICES ASSUME NEW e \in C PROVE edges[e].sampled \in Never..MaxTime /\ edges[e].sampled + 1 \in Nat
    OBVIOUS
  <2>1. edges[e] \in EdgeState
    BY DEF RouteTypes
  <2>2. edges[e].sampled \in Never..MaxTime
    BY <2>1 DEF EdgeState
  <2> QED
    BY <2>2, PlannerConstants DEF Never
<1>3. \A e \in C : e[1] \in Nat /\ e[2] \in Nat
  <2> SUFFICES ASSUME NEW e \in C PROVE e[1] \in Nat /\ e[2] \in Nat
    OBVIOUS
  <2>1. e[1] \in 1..Destination /\ e[2] \in 1..Len(Graph[e[1]]) /\ Len(Graph[e[1]]) \in Nat /\ Destination \in Nat
    BY EdgeFacts, NodeEdges, PlannerConstants
  <2> QED
    BY <2>1
<1> DEFINE age == [e \in Edges |-> edges[e].sampled + 1]
           node == [e \in Edges |-> e[1]]
           index == [e \in Edges |-> e[2]]
<1>4. \A e \in C : age[e] = edges[e].sampled + 1 /\ node[e] = e[1] /\ index[e] = e[2]
  OBVIOUS
<1>5. \A e \in C : age[e] \in Nat /\ node[e] \in Nat /\ index[e] \in Nat
  BY <1>2, <1>3, <1>4
<1> HIDE DEF age, node, index
<1> DEFINE C1 == {e \in C : \A d \in C : age[e] <= age[d]}
           C2 == {e \in C1 : \A d \in C1 : node[e] <= node[d]}
           C3 == {e \in C2 : \A d \in C2 : index[e] <= index[d]}
<1>6. C1 # {} /\ C1 \subseteq C
  BY <1>1, <1>5, LeastBy
<1>7. C2 # {} /\ C2 \subseteq C1
  <2> HIDE DEF C1
  <2> QED
    BY <1>5, <1>6, LeastBy
<1>8. C3 # {} /\ C3 \subseteq C2
  <2> HIDE DEF C1, C2
  <2> QED
    BY <1>5, <1>6, <1>7, LeastBy
<1>9. PICK e \in C3 : TRUE
  BY <1>8
<1>10. e \in C /\ e \in C1 /\ e \in C2 /\ e \in C3
  BY <1>6, <1>7, <1>8
<1> DEFINE First(c, d) == \/ edges[c].sampled < edges[d].sampled
                          \/ edges[c].sampled = edges[d].sampled /\ Lexical(c, d)
<1>11. ASSUME NEW d \in C PROVE First(e, d)
  <2>0. PICK a, b \in Int : a = edges[e].sampled /\ b = edges[d].sampled
    BY <1>2, <1>10, PlannerConstants DEF Never
  <2>1. age[e] = a + 1 /\ age[d] = b + 1 /\ age[e] <= age[d]
    BY <1>4, <1>10, <2>0
  <2>2. CASE a < b
    BY <2>0, <2>2
  <2>3. CASE ~ (a < b)
    <3>1. a = b /\ age[e] = age[d]
      BY <2>0, <2>1, <2>3
    <3>2. d \in C1
      BY <1>5, <1>10, <3>1
    <3>3. node[e] <= node[d]
      BY <1>10, <3>2
    <3>4. CASE node[e] = node[d]
      <4>1. d \in C2
        BY <1>10, <3>2, <3>4
      <4>2. index[e] <= index[d]
        BY <1>10, <4>1
      <4> QED
        BY <1>4, <1>10, <2>0, <3>1, <3>4, <4>2 DEF Lexical
    <3>5. CASE node[e] # node[d]
      <4>1. node[e] < node[d]
        BY <1>5, <1>10, <3>3, <3>5
      <4> QED
        BY <1>4, <1>10, <2>0, <3>1, <4>1 DEF Lexical
    <3> QED
      BY <3>4, <3>5
  <2> QED
    BY <2>2, <2>3
<1> DEFINE Least(c) == c \in C /\ \A d \in C : First(c, d)
           choice == CHOOSE c \in C : \A d \in C : First(c, d)
<1>12. choice \in C
  <2>1. \E c \in C : \A d \in C : First(c, d)
    BY <1>10, <1>11
  <2> QED
    BY ONLY <2>1, Zenon
<1>13. SamplingEdge = choice
  BY <1>1 DEF SamplingEdge
<1> QED
  BY <1>1, <1>12, <1>13

\* Every sample and every other packet finds a plan while a first edge is allowed.
LEMMA AnyEdgeHolds ==
  ASSUME RouteTypes, OnlyFirstCool PROVE PlanIfAnyEdge
<1> SUFFICES ASSUME NEW e \in FirstEdges, EdgeAllowed(e), NEW bits \in Sizes
             PROVE  /\ CalculatePath(NoEdge, bits) # <<>>
                    /\ SamplingEdge # NoEdge /\ CalculatePath(SamplingEdge, bits) # <<>>
  BY DEF PlanIfAnyEdge
<1>0. Destination \in Nat \ {0} /\ e \in Edges /\ e[1] = 1
  BY PlannerConstants DEF FirstEdges
<1>1. EdgeAt(e).next \in 2..Destination
  BY <1>0, EdgeFacts
<1>2. Destination # 1
  BY <1>0, <1>1
<1>3. \A best, forced : \A l \in {0, 1} : \A d \in Edges :
        /\ Settled(best, Destination, Behind(Destination), forced, bits)
        /\ EdgeAllowed(d) /\ best[d[1]][l].at # Never
        => best[EdgeAt(d).next][Into(d, l, forced)].at # Never
  <2> SUFFICES ASSUME NEW best, NEW forced, NEW l \in {0, 1}, NEW d \in Edges,
                      Settled(best, Destination, Behind(Destination), forced, bits),
                      EdgeAllowed(d), best[d[1]][l].at # Never
               PROVE  best[EdgeAt(d).next][Into(d, l, forced)].at # Never
    OBVIOUS
  <2>1. <<d, l>> \in Behind(Destination)
    <3>1. d[1] \in 1..Destination
      BY EdgeFacts
    <3> QED
      BY <1>0, <3>1 DEF Behind
  <2>2. \A x \in Behind(Destination) : Relaxed(best, x[1], x[2], forced, bits)
    BY DEF Settled
  <2>3. <<d, l>>[1] = d /\ <<d, l>>[2] = l
    OBVIOUS
  <2>4. Relaxed(best, d, l, forced, bits)
    BY <2>1, <2>2, <2>3
  <2> QED
    BY <2>4 DEF Relaxed
<1>4. \A forced : Arrivals(forced, bits)[Destination][EndLayer(forced)].at # Never => CalculatePath(forced, bits) # <<>>
  <2> SUFFICES ASSUME NEW forced, Arrivals(forced, bits)[Destination][EndLayer(forced)].at # Never
               PROVE  CalculatePath(forced, bits) # <<>>
    OBVIOUS
  <2>1. PICK best : best = Arrivals(forced, bits)
    OBVIOUS
  <2>2. Settled(best, Destination, Behind(Destination), forced, bits)
    BY <2>1, ArrivalsSettled
  <2>3. PICK w \in Walks(best, forced, bits) : w.node = 1 /\ w.path = CalculatePath(forced, bits)
    BY <2>1, WalkEnds
  <2>4. w.path \in Usable(forced)
    BY <1>2, <2>2, <2>3, WalkFinds
  <2>5. Len(w.path) \in 1..(Destination - 1)
    BY <2>4, PathFacts DEF Usable
  <2> QED
    BY <1>0, <2>3, <2>5
<1>5. \A forced : Settled(Arrivals(forced, bits), Destination, Behind(Destination), forced, bits)
  BY ArrivalsSettled
<1>6. now * FixedOne \in Nat /\ now * FixedOne # Never
  <2>1. now * FixedOne \in Nat
    BY PlannerConstants, MulNat DEF RouteTypes
  <2> QED
    BY <2>1 DEF Never
<1>7. CalculatePath(NoEdge, bits) # <<>>
  <2>1. PICK best : best = Arrivals(NoEdge, bits)
    OBVIOUS
  <2>2. Settled(best, Destination, Behind(Destination), NoEdge, bits)
    BY <1>5, <2>1
  <2>3. best[1][0].at # Never
    BY <1>6, <2>2 DEF Settled
  <2>4. Into(e, 0, NoEdge) = 0 /\ EndLayer(NoEdge) = 0
    BY <1>0, EdgeFacts DEF Into, EndLayer
  <2>5. best[EdgeAt(e).next][0].at # Never
    <3>1. best[EdgeAt(e).next][Into(e, 0, NoEdge)].at # Never
      BY <1>0, <1>3, <2>2, <2>3
    <3> QED
      BY <2>4, <3>1
  <2>6. best[Destination][0].at # Never
    BY <1>1, <2>2, <2>4, <2>5, ReachesEnd
  <2> QED
    BY <1>4, <2>1, <2>4, <2>6
<1>8. SamplingEdge \in SamplingCandidates
  <2>1. 1 \in Reachable
    <3>1. 1 \in Nat /\ \A d \in Edges : EdgeAt(d).next \in Nat
      BY <1>0, EdgeFacts
    <3> QED
      BY <3>1, ReachableFacts
  <2>2. e \in SamplingCandidates
    BY <1>0, <2>1 DEF SamplingCandidates
  <2> QED
    BY <2>2, SamplingCandidate
<1>9. PICK f \in Edges : f = SamplingEdge /\ EdgeAllowed(f) /\ f[1] \in Reachable
  BY <1>8 DEF SamplingCandidates
<1>10. f # NoEdge /\ EndLayer(f) = 1
  BY EdgeFacts DEF EndLayer
<1>11. CalculatePath(f, bits) # <<>>
  <2>1. PICK best : best = Arrivals(f, bits)
    OBVIOUS
  <2>2. Settled(best, Destination, Behind(Destination), f, bits)
    BY <1>5, <2>1
  <2> DEFINE R == {n \in 1..Destination : best[n][0].at # Never \/ best[n][1].at # Never}
  <2>3. 1 \in R
    <3>1. best[1][0].at = now * FixedOne
      BY <2>2 DEF Settled
    <3> QED
      BY <1>0, <1>6, <3>1
  <2>4. ASSUME NEW d \in Edges, d[1] \in R, EdgeAllowed(d) PROVE EdgeAt(d).next \in R
    <3>1. PICK l \in {0, 1} : best[d[1]][l].at # Never
      BY <2>4
    <3>2. best[EdgeAt(d).next][Into(d, l, f)].at # Never
      BY <1>3, <2>2, <2>4, <3>1
    <3>3. Into(d, l, f) \in {0, 1}
      BY DEF Into
    <3>4. EdgeAt(d).next \in 1..Destination
      BY <1>0, EdgeFacts
    <3> QED
      BY <3>2, <3>3, <3>4
  <2>5. f[1] \in R
    <3> HIDE DEF R
    <3>1. Reachable \subseteq R
      BY <2>3, <2>4, ReachableFacts
    <3> QED
      BY <1>9, <3>1
  <2>6. PICK l \in {0, 1} : best[f[1]][l].at # Never
    BY <2>5
  <2>7. best[EdgeAt(f).next][1].at # Never
    <3>1. best[EdgeAt(f).next][Into(f, l, f)].at # Never
      BY <1>3, <1>9, <2>2, <2>6
    <3>2. Into(f, l, f) = 1
      BY DEF Into
    <3> QED
      BY <3>1, <3>2
  <2>8. EdgeAt(f).next \in 2..Destination
    BY EdgeFacts
  <2>9. best[Destination][1].at # Never
    BY <1>10, <2>2, <2>7, <2>8, ReachesEnd
  <2> QED
    BY <1>4, <1>10, <2>1, <2>9
<1> QED
  BY <1>7, <1>9, <1>10, <1>11

-----------------------------------------------------------------------------
(* Reserving a plan. *)

\* A reservation changes when an edge is free and when it was sampled.
SameHealth(s, t) ==
  s.loss = t.loss /\ s.cooldown = t.cooldown /\ s.retry = t.retry /\ s.observed = t.observed

Bookings ==
  {r \in [cursor : Nat, edges : [Edges -> EdgeState]] : \A e \in Edges : SameHealth(r.edges[e], edges[e])}

LEMMA BookOne ==
  ASSUME RouteTypes, NEW bits \in Sizes, NEW sample, NEW r \in Bookings, NEW e \in Edges
  PROVE  Book(r, e, bits, sample) \in Bookings
<1>1. PICK c \in Nat, E \in [Edges -> EdgeState] : c = r.cursor /\ E = r.edges
  BY DEF Bookings
<1>2. \A d \in Edges : SameHealth(E[d], edges[d])
  BY <1>1 DEF Bookings
<1>3. PICK done \in Nat : done = Finish(e, c, bits)
  BY CostFacts
<1>4. PICK next \in Nat : next = done + Latency(e)
  BY CostFacts
<1>5. PICK s \in Never..MaxTime : s = IF sample THEN now ELSE E[e].sampled
  <2>1. E[e].sampled \in Never..MaxTime /\ now \in 0..MaxTime
    BY DEF EdgeState, RouteTypes
  <2>2. now \in Never..MaxTime
    BY <2>1, PlannerConstants DEF Never
  <2> QED
    BY <2>1, <2>2
<1>6. PICK new : new = [E[e] EXCEPT !.freeAt = done, !.sampled = s]
  OBVIOUS
<1>7. E[e] \in EdgeState
  OBVIOUS
<1>8. new \in EdgeState /\ SameHealth(new, E[e])
  BY <1>6, <1>7 DEF EdgeState, SameHealth
<1>9. Book(r, e, bits, sample) = [cursor |-> next, edges |-> [E EXCEPT ![e] = new]]
  BY <1>1, <1>3, <1>4, <1>5, <1>6 DEF Book
<1>10. PICK F : F = [E EXCEPT ![e] = new]
  OBVIOUS
<1>11. F \in [Edges -> EdgeState] /\ F[e] = new /\ \A d \in Edges : d # e => F[d] = E[d]
  BY <1>8, <1>10
<1>12. \A d \in Edges : SameHealth(F[d], edges[d])
  BY <1>2, <1>8, <1>11 DEF SameHealth
<1>13. [cursor |-> next, edges |-> F] \in Bookings
  BY <1>11, <1>12 DEF Bookings
<1> QED
  BY <1>9, <1>10, <1>13

IsBooking(after, path, bits, sample) ==
  after = [i \in 0..Len(path) |->
             IF i = 0 THEN [cursor |-> now * FixedOne, edges |-> edges]
             ELSE Book(after[i - 1], path[i], bits, sample)]

LEMMA ReserveKeepsHealth ==
  ASSUME RouteTypes, NEW bits \in Sizes, NEW sample, NEW path \in Seq(Edges)
  PROVE  /\ Reserve(path, bits, sample) \in [Edges -> EdgeState]
         /\ \A e \in Edges : SameHealth(Reserve(path, bits, sample)[e], edges[e])
<1> DEFINE start == [cursor |-> now * FixedOne, edges |-> edges]
           book(r, i) == Book(r, path[i], bits, sample)
<1>0. PICK n \in Nat : n = Len(path)
  OBVIOUS
<1> DEFINE f == [x \in Bookings \X (1..n) |-> book(x[1], x[2])]
           Run(h) == IsBooking(h, path, bits, sample)
           run == CHOOSE h : Run(h)
<1>1. start \in Bookings
  <2>1. now * FixedOne \in Nat
    BY PlannerConstants, MulNat DEF RouteTypes
  <2> QED
    BY <2>1 DEF Bookings, SameHealth, RouteTypes
<1>2. \A r \in Bookings : \A i \in 1..n : book(r, i) \in Bookings
  <2>1. \A i \in 1..n : path[i] \in Edges
    BY <1>0
  <2> QED
    BY <2>1, BookOne
<1>3. \A h : Run(h) <=> h = [i \in 0..n |-> IF i = 0 THEN start ELSE book(h[i - 1], i)]
  BY <1>0 DEF IsBooking
<1>4. Reserve(path, bits, sample) = run[n].edges
  BY <1>0 DEF Reserve, IsBooking
<1> HIDE DEF start, book
<1>5. \A r \in Bookings : \A i \in 1..n : f[<<r, i>>] = book(r, i)
  OBVIOUS
<1> HIDE DEF f, Run
<1>6. PICK g : Loop(g, Bookings, start, n, f)
  <2>1. Rounds(Bookings, n, f)
    BY <1>2, <1>5 DEF Rounds
  <2> QED
    BY <1>1, <2>1, LoopExists
<1>7. Run(g)
  <2>1. ASSUME NEW i \in 1..n PROVE g[i] = book(g[i - 1], i)
    <3>1. i - 1 \in 0..n
      OBVIOUS
    <3> QED
      BY <1>5, <1>6, <3>1 DEF Loop
  <2>2. \A i \in 0..n : i = 0 \/ i \in 1..n
    OBVIOUS
  <2>3. \A i \in 0..n : g[i] = IF i = 0 THEN start ELSE book(g[i - 1], i)
    BY <1>6, <2>1, <2>2 DEF Loop
  <2>4. g = [i \in 0..n |-> g[i]]
    BY <1>6 DEF Loop
  <2>5. g = [i \in 0..n |-> IF i = 0 THEN start ELSE book(g[i - 1], i)]
    BY <2>3, <2>4
  <2> QED
    BY <1>3, <2>5
<1>8. Run(run)
  BY ONLY <1>7, Zenon
<1> HIDE DEF run
<1>9. run[0] = start /\ \A i \in 1..n : run[i] = book(run[i - 1], i)
  <2> DEFINE body(i) == IF i = 0 THEN start ELSE book(run[i - 1], i)
  <2>1. run = [i \in 0..n |-> body(i)]
    BY <1>3, <1>8
  <2>2. 0 \in 0..n /\ \A i \in 1..n : i \in 0..n /\ i # 0
    OBVIOUS
  <2>3. body(0) = start /\ \A i \in 1..n : body(i) = book(run[i - 1], i)
    BY <2>2
  <2> HIDE DEF body
  <2> QED
    BY <2>1, <2>2, <2>3
<1> DEFINE Good == {i \in 0..n : run[i] \in Bookings}
<1>10. 0 \in Good
  BY <1>1, <1>9
<1>11. \A i \in 1..n : i - 1 \in Good => i \in Good
  <2> SUFFICES ASSUME NEW i \in 1..n, run[i - 1] \in Bookings PROVE run[i] \in Bookings
    OBVIOUS
  <2> QED
    BY <1>2, <1>9
<1> HIDE DEF Good
<1>12. run[n] \in Bookings
  <2>1. \A i \in 0..n : i \in Good
    BY <1>10, <1>11, EveryRound
  <2> QED
    BY <2>1 DEF Good
<1> QED
  BY <1>4, <1>12 DEF Bookings

\* The plan of a packet is a path.
LEMMA PlannedPath ==
  ASSUME RouteTypes, NEW bits \in Sizes, NEW forced, CalculatePath(forced, bits) # <<>>
  PROVE  CalculatePath(forced, bits) \in Seq(Edges) /\ CalculatePath(forced, bits)[1] \in FirstEdges
<1>1. CalculatePath(forced, bits) \in Paths
  BY PathEarliest DEF Usable
<1>2. CalculatePath(forced, bits) \in Seq(Edges)
  BY <1>1, PathFacts
<1>3. CalculatePath(forced, bits)[1] \in FirstEdges
  BY <1>1 DEF Paths
<1> QED
  BY <1>2, <1>3

-----------------------------------------------------------------------------
(* The inductive invariant. *)

\* A first edge cools no longer than its retry time, and has seen its last local
\* failure.
Cooling ==
  /\ \A e \in Edges : edges[e].cooldown <= now + edges[e].retry
  /\ \A e \in FirstEdges : failedAt[e] <= edges[e].observed

BookKeeping ==
  /\ planned \in 0..MaxPlans /\ sending \in [FirstEdges -> Nat]
  /\ failedAt \in [FirstEdges -> Never..MaxTime]
  /\ \A s \in samples : s.sent \in 0..MaxTime

PlannerInv == RouteTypes /\ OnlyFirstCool /\ Cooling /\ BookKeeping

\* A step keeps the cooldowns of the first edges, or a sample that is as new as
\* the last failure ends with it.
LiftedByNews ==
  \A e \in FirstEdges :
    edges'[e].cooldown < edges[e].cooldown =>
      \E s \in samples \ samples' : s.plan[1] = e /\ s.sent >= failedAt[e]

LEMMA PlannerStarts == ASSUME PlannerInit PROVE PlannerInv
<1>1. NewEdge \in EdgeState
  BY PlannerConstants DEF NewEdge, EdgeState, Never
<1>2. \A e \in Edges : edges[e] = NewEdge
  BY DEF PlannerInit
<1>3. RouteTypes
  BY <1>1, PlannerConstants DEF PlannerInit, RouteTypes
<1>4. NewEdge.cooldown = 0 /\ NewEdge.retry = CooldownInitial /\ NewEdge.observed = Never
  BY DEF NewEdge
<1>5. OnlyFirstCool
  BY <1>2, <1>4 DEF OnlyFirstCool
<1>6. Cooling
  <2>1. \A e \in Edges : edges[e].cooldown <= now + edges[e].retry
    BY <1>2, <1>4, PlannerConstants DEF PlannerInit
  <2>2. \A e \in FirstEdges : failedAt[e] <= edges[e].observed
    BY <1>2, <1>4 DEF PlannerInit, FirstEdges, Never
  <2> QED
    BY <2>1, <2>2 DEF Cooling
<1>7. BookKeeping
  BY PlannerConstants DEF PlannerInit, BookKeeping, Never
<1> QED
  BY <1>3, <1>5, <1>6, <1>7 DEF PlannerInv

\* What the invariant says of one edge.
LEMMA EdgeTypes ==
  ASSUME RouteTypes, NEW e \in Edges
  PROVE  /\ edges[e] \in EdgeState /\ edges[e].loss \in 0..LossOne /\ edges[e].freeAt \in Nat
         /\ edges[e].cooldown \in 0..(MaxTime + CooldownMax) /\ edges[e].retry \in CooldownInitial..CooldownMax
         /\ edges[e].sampled \in Never..MaxTime /\ edges[e].observed \in Never..MaxTime
         /\ edges[e].retry \in Nat /\ edges[e].cooldown \in Nat /\ edges[e].observed \in Int
<1>1. edges[e] \in EdgeState
  BY DEF RouteTypes
<1>2. /\ edges[e].loss \in 0..LossOne /\ edges[e].freeAt \in Nat
      /\ edges[e].cooldown \in 0..(MaxTime + CooldownMax) /\ edges[e].retry \in CooldownInitial..CooldownMax
      /\ edges[e].sampled \in Never..MaxTime /\ edges[e].observed \in Never..MaxTime
  BY <1>1 DEF EdgeState
<1>3. edges[e].retry \in Nat /\ edges[e].cooldown \in Nat /\ edges[e].observed \in Int
  BY <1>2, PlannerConstants DEF Never
<1> QED
  BY <1>1, <1>2, <1>3

-----------------------------------------------------------------------------
(* The steps. *)

\* A packet is planned.
LEMMA PlanStep ==
  ASSUME PlannerInv, NEW bits \in Sizes, NEW sample \in BOOLEAN, BuildRoutePlan(bits, sample)
  PROVE  PlannerInv' /\ LiftedByNews
<1>0. RouteTypes /\ OnlyFirstCool /\ Cooling /\ BookKeeping
  BY DEF PlannerInv
<1>1. PICK path : /\ path = CalculatePath(IF sample THEN SamplingEdge ELSE NoEdge, bits) /\ path # <<>>
                  /\ edges' = Reserve(path, bits, sample)
                  /\ sending' = [sending EXCEPT ![path[1]] = @ + 1]
                  /\ samples' = IF sample THEN samples \cup {[plan |-> path, sent |-> now]} ELSE samples
  BY DEF BuildRoutePlan
<1>2. path \in Seq(Edges) /\ path[1] \in FirstEdges
  BY <1>0, <1>1, PlannedPath
<1>3. planned < MaxPlans /\ planned' = planned + 1 /\ now' = now /\ failedAt' = failedAt
  BY DEF BuildRoutePlan
<1>4. edges' \in [Edges -> EdgeState] /\ \A e \in Edges : SameHealth(edges'[e], edges[e])
  BY <1>0, <1>1, <1>2, ReserveKeepsHealth
<1>5. RouteTypes'
  BY <1>0, <1>3, <1>4 DEF RouteTypes, EdgeState, Edges, Never, Destination
<1>6. OnlyFirstCool'
  BY <1>0, <1>4 DEF OnlyFirstCool, SameHealth
<1>7. Cooling'
  BY <1>0, <1>3, <1>4 DEF Cooling, SameHealth, FirstEdges
<1>8. BookKeeping'
  <2>1. planned' \in 0..MaxPlans
    BY <1>0, <1>3, PlannerConstants DEF BookKeeping
  <2>2. sending' \in [FirstEdges -> Nat]
    BY <1>0, <1>1, <1>2 DEF BookKeeping
  <2>3. \A s \in samples' : s.sent \in 0..MaxTime
    <3>1. [plan |-> path, sent |-> now].sent = now /\ now \in 0..MaxTime
      BY <1>0 DEF RouteTypes
    <3> QED
      BY <1>0, <1>1, <3>1 DEF BookKeeping
  <2> QED
    BY <1>0, <1>3, <2>1, <2>2, <2>3 DEF BookKeeping
<1>9. LiftedByNews
  <2> SUFFICES ASSUME NEW e \in FirstEdges PROVE ~ (edges'[e].cooldown < edges[e].cooldown)
    BY DEF LiftedByNews
  <2>1. edges'[e].cooldown = edges[e].cooldown /\ edges[e].cooldown \in Nat
    BY <1>0, <1>4, EdgeTypes DEF SameHealth, FirstEdges
  <2> QED
    BY <2>1
<1> QED
  BY <1>5, <1>6, <1>7, <1>8, <1>9 DEF PlannerInv

\* A packet has not left over e.
LEMMA FailureStep ==
  ASSUME PlannerInv, NEW e \in FirstEdges, NoteLocalSendFailure(e)
  PROVE  PlannerInv' /\ LiftedByNews
<1>0. RouteTypes /\ OnlyFirstCool /\ Cooling /\ BookKeeping
  BY DEF PlannerInv
<1>1. e \in Edges /\ e[1] = 1 /\ now \in 0..MaxTime /\ now \in Nat
  BY <1>0, PlannerConstants DEF FirstEdges, RouteTypes
<1>2. PICK old \in EdgeState : old = edges[e]
  BY <1>0, <1>1, EdgeTypes
<1>3. PICK loss, freeAt, cooldown, retry, sampled, observed :
        /\ loss = old.loss /\ freeAt = old.freeAt /\ cooldown = old.cooldown
        /\ retry = old.retry /\ sampled = old.sampled /\ observed = old.observed
  OBVIOUS
<1>4. /\ loss \in 0..LossOne /\ freeAt \in Nat /\ cooldown \in 0..(MaxTime + CooldownMax)
      /\ retry \in CooldownInitial..CooldownMax /\ sampled \in Never..MaxTime /\ observed \in Never..MaxTime
  BY <1>3 DEF EdgeState
<1>5. PICK loss2 : loss2 = IF now >= observed THEN LossAfterFailure(loss) ELSE loss
  OBVIOUS
<1>6. PICK observed2 : observed2 = IF now >= observed THEN now ELSE observed
  OBVIOUS
<1>7. PICK cooldown2 : cooldown2 = now + retry
  OBVIOUS
<1>8. PICK retry2 : retry2 = IF 2 * retry <= CooldownMax THEN 2 * retry ELSE CooldownMax
  OBVIOUS
<1>9. PICK new : new = [old EXCEPT !.loss = loss2, !.observed = observed2, !.cooldown = cooldown2, !.retry = retry2]
  OBVIOUS
<1>10. edges' = [edges EXCEPT ![e] = new]
  <2>1. edges' = [edges EXCEPT ![e] = AfterFailure(edges[e])]
    BY DEF NoteLocalSendFailure
  <2>2. AfterFailure(old) = new
    BY ONLY <1>3, <1>5, <1>6, <1>7, <1>8, <1>9 DEF AfterFailure
  <2> QED
    BY ONLY <1>2, <2>1, <2>2
<1>11. /\ loss2 \in 0..LossOne /\ observed2 \in Never..MaxTime /\ observed2 >= now
       /\ cooldown2 \in 0..(MaxTime + CooldownMax) /\ cooldown2 <= now + retry2
       /\ retry2 \in CooldownInitial..CooldownMax
  <2>1. loss2 \in 0..LossOne
    BY ONLY <1>4, <1>5, PlannerConstants DEF LossAfterFailure
  <2>2. observed2 \in Never..MaxTime /\ observed2 >= now
    BY ONLY <1>1, <1>4, <1>6, PlannerConstants DEF Never
  <2>3. retry2 \in CooldownInitial..CooldownMax /\ retry <= retry2
    BY ONLY <1>4, <1>8, PlannerConstants
  <2>4. cooldown2 \in 0..(MaxTime + CooldownMax) /\ cooldown2 <= now + retry2
    BY ONLY <1>1, <1>4, <1>7, <2>3, PlannerConstants
  <2> QED
    BY <2>1, <2>2, <2>3, <2>4
<1>12. /\ new \in EdgeState /\ new.cooldown = cooldown2 /\ new.retry = retry2 /\ new.observed = observed2
  BY <1>9, <1>11 DEF EdgeState
<1>13. edges' \in [Edges -> EdgeState] /\ edges'[e] = new /\ \A d \in Edges : d # e => edges'[d] = edges[d]
  BY <1>0, <1>1, <1>10, <1>12 DEF RouteTypes
<1>14. /\ now' = now /\ planned' = planned /\ failedAt' = [failedAt EXCEPT ![e] = now]
       /\ sending[e] > 0 /\ sending' = [sending EXCEPT ![e] = @ - 1] /\ samples' \subseteq samples
  BY DEF NoteLocalSendFailure
<1>15. RouteTypes'
  BY <1>1, <1>13, <1>14 DEF RouteTypes
<1>16. OnlyFirstCool'
  BY <1>0, <1>1, <1>13 DEF OnlyFirstCool
<1>17. Cooling'
  <2>1. ASSUME NEW d \in Edges PROVE edges'[d].cooldown <= now' + edges'[d].retry
    <3>1. CASE d = e
      BY <1>11, <1>12, <1>13, <1>14, <3>1
    <3>2. CASE d # e
      BY <1>0, <1>13, <1>14, <3>2 DEF Cooling
    <3> QED
      BY <3>1, <3>2
  <2>2. ASSUME NEW d \in FirstEdges PROVE failedAt'[d] <= edges'[d].observed
    <3>1. CASE d = e
      <4>1. failedAt'[d] = now
        BY <1>0, <1>14, <3>1 DEF BookKeeping
      <4>2. edges'[d].observed = observed2
        BY <1>12, <1>13, <3>1
      <4>3. now <= observed2
        BY ONLY <1>1, <1>11, PlannerConstants DEF Never
      <4> QED
        BY <4>1, <4>2, <4>3
    <3>2. CASE d # e
      BY <1>0, <1>13, <1>14, <3>2 DEF Cooling, BookKeeping, FirstEdges
    <3> QED
      BY <3>1, <3>2
  <2> QED
    BY <2>1, <2>2 DEF Cooling
<1>18. BookKeeping'
  <2>1. now \in Never..MaxTime
    BY <1>1, PlannerConstants DEF Never
  <2>2. failedAt' \in [FirstEdges -> Never..MaxTime]
    BY <1>0, <1>14, <2>1 DEF BookKeeping
  <2>3. sending' \in [FirstEdges -> Nat]
    BY <1>0, <1>14 DEF BookKeeping
  <2> QED
    BY <1>0, <1>14, <2>2, <2>3 DEF BookKeeping
<1>19. LiftedByNews
  <2> SUFFICES ASSUME NEW d \in FirstEdges PROVE ~ (edges'[d].cooldown < edges[d].cooldown)
    BY DEF LiftedByNews
  <2>0. d \in Edges
    BY DEF FirstEdges
  <2>1. CASE d = e
    <3>1. cooldown <= now + retry
      BY <1>0, <1>1, <1>2, <1>3 DEF Cooling
    <3>2. edges'[d].cooldown = cooldown2 /\ edges[d].cooldown = cooldown
      BY <1>2, <1>3, <1>12, <1>13, <2>1
    <3>3. ~ (cooldown2 < cooldown)
      BY ONLY <1>1, <1>4, <1>7, <3>1, PlannerConstants
    <3> QED
      BY <3>2, <3>3
  <2>2. CASE d # e
    <3>1. edges'[d] = edges[d] /\ edges[d].cooldown \in Nat
      BY <1>0, <1>13, <2>0, <2>2, EdgeTypes
    <3> QED
      BY <3>1
  <2> QED
    BY <2>1, <2>2
<1> QED
  BY <1>15, <1>16, <1>17, <1>18, <1>19 DEF PlannerInv

\* What one observation makes of an edge's state.
Observe(old, sent, success, first) ==
  [freeAt   |-> old.freeAt,
   loss     |-> IF success THEN (old.loss * 3) \div 4 ELSE old.loss + (LossOne - old.loss) \div 16,
   cooldown |-> IF success /\ first THEN 0 ELSE old.cooldown,
   retry    |-> IF success /\ first THEN CooldownInitial ELSE old.retry,
   sampled  |-> old.sampled,
   observed |-> sent]

LEMMA ObserveType ==
  ASSUME NEW old \in EdgeState, NEW sent \in 0..MaxTime, NEW success \in BOOLEAN, NEW first \in BOOLEAN
  PROVE  /\ Observe(old, sent, success, first) \in EdgeState
         /\ Observe(old, sent, success, first).observed = sent
         /\ Observe(old, sent, success, first).cooldown = IF success /\ first THEN 0 ELSE old.cooldown
         /\ Observe(old, sent, success, first).retry = IF success /\ first THEN CooldownInitial ELSE old.retry
<1>1. PICK loss, freeAt, cooldown, retry, sampled :
        /\ loss = old.loss /\ freeAt = old.freeAt /\ cooldown = old.cooldown
        /\ retry = old.retry /\ sampled = old.sampled
  OBVIOUS
<1>2. /\ loss \in 0..LossOne /\ freeAt \in Nat /\ cooldown \in 0..(MaxTime + CooldownMax)
      /\ retry \in CooldownInitial..CooldownMax /\ sampled \in Never..MaxTime
  BY <1>1 DEF EdgeState
<1>3. (loss * 3) \div 4 \in 0..LossOne /\ loss + (LossOne - loss) \div 16 \in 0..LossOne
  BY ONLY <1>2, PlannerConstants
<1>4. 0 \in 0..(MaxTime + CooldownMax) /\ CooldownInitial \in CooldownInitial..CooldownMax /\ sent \in Never..MaxTime
  BY ONLY PlannerConstants, sent \in 0..MaxTime DEF Never
<1>5. PICK loss2 \in 0..LossOne :
        loss2 = IF success THEN (loss * 3) \div 4 ELSE loss + (LossOne - loss) \div 16
  BY <1>3
<1>6. PICK cooldown2 \in 0..(MaxTime + CooldownMax) : cooldown2 = IF success /\ first THEN 0 ELSE cooldown
  BY <1>2, <1>4
<1>7. PICK retry2 \in CooldownInitial..CooldownMax : retry2 = IF success /\ first THEN CooldownInitial ELSE retry
  BY <1>2, <1>4
<1>8. PICK new : new = [freeAt |-> freeAt, loss |-> loss2, cooldown |-> cooldown2, retry |-> retry2,
                        sampled |-> sampled, observed |-> sent]
  OBVIOUS
<1>9. Observe(old, sent, success, first) = new
  BY <1>1, <1>5, <1>6, <1>7, <1>8 DEF Observe
<1>10. new \in EdgeState /\ new.observed = sent /\ new.cooldown = cooldown2 /\ new.retry = retry2
  BY ONLY <1>2, <1>4, <1>8, loss2 \in 0..LossOne, cooldown2 \in 0..(MaxTime + CooldownMax),
          retry2 \in CooldownInitial..CooldownMax DEF EdgeState
<1> QED
  BY <1>1, <1>6, <1>7, <1>9, <1>10

\* The reply to a sample, or its expiry.
LEMMA FeedbackStep ==
  ASSUME PlannerInv, NEW s \in samples, NEW success \in BOOLEAN, NoteFeedback(s, success)
  PROVE  PlannerInv' /\ LiftedByNews
<1>0. RouteTypes /\ OnlyFirstCool /\ Cooling /\ BookKeeping
  BY DEF PlannerInv
<1>1. s.sent \in 0..MaxTime /\ now \in Nat /\ s.sent \in Nat
  BY <1>0, PlannerConstants DEF BookKeeping, RouteTypes
<1>2. /\ now' = now /\ planned' = planned /\ sending' = sending /\ failedAt' = failedAt
      /\ samples' = samples \ {s}
  BY DEF NoteFeedback
<1>3. edges' = [e \in Edges |->
        IF e \notin Range(s.plan) \/ ~ Accepts(e, s.sent) THEN edges[e]
        ELSE LET seen == [edges[e] EXCEPT
                            !.loss = IF success THEN (@ * 3) \div 4 ELSE @ + (LossOne - @) \div 16,
                            !.observed = s.sent]
             IN  IF success /\ e = s.plan[1]
                 THEN [seen EXCEPT !.cooldown = 0, !.retry = CooldownInitial]
                 ELSE seen]
  BY DEF NoteFeedback
<1>4. ASSUME NEW e \in Edges
      PROVE  \/ edges'[e] = edges[e]
             \/ Accepts(e, s.sent) /\ edges'[e] = Observe(edges[e], s.sent, success, e = s.plan[1])
  <2>1. PICK old \in EdgeState : old = edges[e]
    BY <1>0, EdgeTypes
  <2>2. PICK loss2 : loss2 = IF success THEN (old.loss * 3) \div 4 ELSE old.loss + (LossOne - old.loss) \div 16
    OBVIOUS
  <2>3. PICK seen : seen = [old EXCEPT !.loss = loss2, !.observed = s.sent]
    OBVIOUS
  <2>4. edges'[e] = IF e \notin Range(s.plan) \/ ~ Accepts(e, s.sent) THEN old
                    ELSE IF success /\ e = s.plan[1]
                    THEN [seen EXCEPT !.cooldown = 0, !.retry = CooldownInitial] ELSE seen
    BY <1>3, <2>1, <2>2, <2>3
  <2>5. seen = [freeAt |-> old.freeAt, loss |-> loss2, cooldown |-> old.cooldown, retry |-> old.retry,
                sampled |-> old.sampled, observed |-> s.sent]
    BY <2>3 DEF EdgeState
  <2>6. [seen EXCEPT !.cooldown = 0, !.retry = CooldownInitial]
          = [freeAt |-> old.freeAt, loss |-> loss2, cooldown |-> 0, retry |-> CooldownInitial,
             sampled |-> old.sampled, observed |-> s.sent]
    <3>1. old.freeAt \in Nat /\ loss2 \in 0..LossOne /\ old.cooldown \in 0..(MaxTime + CooldownMax)
          /\ old.retry \in CooldownInitial..CooldownMax /\ old.sampled \in Never..MaxTime /\ s.sent \in Never..MaxTime
      <4>1. old.loss \in 0..LossOne /\ LossOne \in Nat
        BY PlannerConstants DEF EdgeState
      <4>2. loss2 \in 0..LossOne
        BY ONLY <2>2, <4>1
      <4>3. s.sent \in Never..MaxTime
        BY ONLY <1>1, PlannerConstants DEF Never
      <4> QED
        BY <4>2, <4>3 DEF EdgeState
    <3>2. seen \in EdgeState
      BY <2>5, <3>1 DEF EdgeState
    <3>3. /\ seen.freeAt = old.freeAt /\ seen.loss = loss2 /\ seen.sampled = old.sampled /\ seen.observed = s.sent
      BY <2>5
    <3>4. [seen EXCEPT !.cooldown = 0, !.retry = CooldownInitial]
            = [freeAt |-> seen.freeAt, loss |-> seen.loss, cooldown |-> 0, retry |-> CooldownInitial,
               sampled |-> seen.sampled, observed |-> seen.observed]
      <4>1. PICK zero, short : zero = 0 /\ short = CooldownInitial
        OBVIOUS
      <4>2. PICK x : x = [seen EXCEPT !.cooldown = zero, !.retry = short]
        OBVIOUS
      <4>3. x = [freeAt |-> seen.freeAt, loss |-> seen.loss, cooldown |-> zero, retry |-> short,
                 sampled |-> seen.sampled, observed |-> seen.observed]
        BY ONLY <3>2, <4>2 DEF EdgeState
      <4> QED
        BY ONLY <4>1, <4>2, <4>3
    <3> QED
      BY ONLY <3>3, <3>4
  <2>7. CASE e \notin Range(s.plan) \/ ~ Accepts(e, s.sent)
    BY <2>1, <2>4, <2>7
  <2>8. CASE ~ (e \notin Range(s.plan) \/ ~ Accepts(e, s.sent))
    <3>1. CASE success /\ e = s.plan[1]
      BY <2>1, <2>2, <2>4, <2>6, <2>8, <3>1 DEF Observe
    <3>2. CASE ~ (success /\ e = s.plan[1])
      BY <2>1, <2>2, <2>4, <2>5, <2>8, <3>2 DEF Observe
    <3> QED
      BY <3>1, <3>2
  <2> QED
    BY <2>7, <2>8
<1>5. ASSUME NEW e \in Edges
      PROVE  \/ edges'[e] = edges[e]
             \/ /\ Accepts(e, s.sent) /\ edges'[e] \in EdgeState /\ edges'[e].observed = s.sent
                /\ edges'[e].cooldown = IF success /\ e = s.plan[1] THEN 0 ELSE edges[e].cooldown
                /\ edges'[e].retry = IF success /\ e = s.plan[1] THEN CooldownInitial ELSE edges[e].retry
  <2>1. edges[e] \in EdgeState
    BY <1>0, EdgeTypes
  <2>2. PICK first \in BOOLEAN : first = (e = s.plan[1])
    OBVIOUS
  <2>3. Observe(edges[e], s.sent, success, e = s.plan[1]) = Observe(edges[e], s.sent, success, first)
    BY <2>2 DEF Observe
  <2>4. PICK new : new = Observe(edges[e], s.sent, success, first)
    OBVIOUS
  <2>5. /\ new \in EdgeState /\ new.observed = s.sent
        /\ new.cooldown = IF success /\ first THEN 0 ELSE edges[e].cooldown
        /\ new.retry = IF success /\ first THEN CooldownInitial ELSE edges[e].retry
    BY <1>1, <2>1, <2>4, ObserveType
  <2> QED
    BY <1>4, <2>2, <2>3, <2>4, <2>5
<1>6. RouteTypes'
  <2>1. \A e \in Edges : edges'[e] \in EdgeState
    BY <1>0, <1>5, EdgeTypes
  <2>2. edges' = [e \in Edges |-> edges'[e]]
    BY <1>3
  <2>3. edges' \in [Edges -> EdgeState]
    BY <2>1, <2>2
  <2> QED
    BY <1>0, <1>2, <2>3 DEF RouteTypes
<1>7. OnlyFirstCool'
  <2> SUFFICES ASSUME NEW e \in Edges, e[1] # 1 PROVE edges'[e].cooldown = 0
    BY DEF OnlyFirstCool
  <2>1. edges[e].cooldown = 0
    BY <1>0 DEF OnlyFirstCool
  <2> QED
    BY <1>5, <2>1
<1>8. Cooling'
  <2>1. ASSUME NEW e \in Edges PROVE edges'[e].cooldown <= now' + edges'[e].retry
    <3>1. edges[e].cooldown <= now + edges[e].retry
      BY <1>0 DEF Cooling
    <3>2. CASE edges'[e].cooldown = edges[e].cooldown /\ edges'[e].retry = edges[e].retry
      BY <1>2, <3>1, <3>2
    <3>3. CASE edges'[e].cooldown = 0 /\ edges'[e].retry = CooldownInitial
      BY <1>1, <1>2, <3>3, PlannerConstants
    <3> QED
      BY <1>5, <3>2, <3>3
  <2>2. ASSUME NEW e \in FirstEdges PROVE failedAt'[e] <= edges'[e].observed
    <3>1. failedAt[e] <= edges[e].observed /\ e \in Edges
      BY <1>0 DEF Cooling, FirstEdges
    <3>2. failedAt[e] \in Int /\ edges[e].observed \in Int
      BY <1>0, <3>1, EdgeTypes, PlannerConstants DEF BookKeeping, Never
    <3>3. CASE edges'[e] = edges[e]
      BY <1>2, <3>1, <3>3
    <3>4. CASE Accepts(e, s.sent) /\ edges'[e].observed = s.sent
      <4>1. s.sent >= edges[e].observed
        BY <3>4 DEF Accepts
      <4>2. failedAt[e] <= s.sent
        BY ONLY <1>1, <3>1, <3>2, <4>1
      <4> QED
        BY <1>2, <3>4, <4>2
    <3> QED
      BY <1>5, <3>1, <3>3, <3>4
  <2> QED
    BY <2>1, <2>2 DEF Cooling
<1>9. BookKeeping'
  BY <1>0, <1>2 DEF BookKeeping
<1>10. LiftedByNews
  <2> SUFFICES ASSUME NEW e \in FirstEdges, edges'[e].cooldown < edges[e].cooldown
               PROVE  s.plan[1] = e /\ s.sent >= failedAt[e]
    BY <1>2 DEF LiftedByNews
  <2>1. e \in Edges /\ edges[e].cooldown \in Nat
    BY <1>0, EdgeTypes DEF FirstEdges
  <2>2. edges'[e].cooldown # edges[e].cooldown
    BY <2>1
  <2>3. Accepts(e, s.sent) /\ s.plan[1] = e
    BY <1>5, <2>1, <2>2
  <2>4. failedAt[e] <= edges[e].observed /\ s.sent >= edges[e].observed
    BY <1>0, <2>3 DEF Cooling, Accepts
  <2>5. failedAt[e] \in Int /\ edges[e].observed \in Int
    BY <1>0, <2>1, EdgeTypes, PlannerConstants DEF BookKeeping, Never
  <2>6. s.sent >= failedAt[e]
    BY ONLY <1>1, <2>4, <2>5
  <2> QED
    BY <2>3, <2>6
<1> QED
  BY <1>6, <1>7, <1>8, <1>9, <1>10 DEF PlannerInv

\* Time passes.
LEMMA ElapseStep ==
  ASSUME PlannerInv, Elapse PROVE PlannerInv' /\ LiftedByNews
<1>0. RouteTypes /\ OnlyFirstCool /\ Cooling /\ BookKeeping
  BY DEF PlannerInv
<1>1. /\ now \in 0..MaxTime /\ now < MaxTime /\ now' = now + 1 /\ edges' = edges /\ samples' = samples
      /\ planned' = planned /\ sending' = sending /\ failedAt' = failedAt
  BY <1>0 DEF Elapse, RouteTypes
<1>2. RouteTypes'
  BY <1>0, <1>1, PlannerConstants DEF RouteTypes
<1>3. Cooling'
  <2>1. ASSUME NEW e \in Edges PROVE edges[e].cooldown <= now' + edges[e].retry
    <3>1. edges[e].cooldown <= now + edges[e].retry
      BY <1>0 DEF Cooling
    <3>2. PICK c, r \in Nat : c = edges[e].cooldown /\ r = edges[e].retry
      BY <1>0, EdgeTypes
    <3>3. c <= now + r
      BY <3>1, <3>2
    <3>4. c <= now' + r
      BY ONLY <1>1, <3>3, c \in Nat, r \in Nat, PlannerConstants
    <3> QED
      BY <3>2, <3>4
  <2> QED
    BY <1>0, <1>1, <2>1 DEF Cooling
<1>4. OnlyFirstCool' /\ BookKeeping'
  BY <1>0, <1>1 DEF OnlyFirstCool, BookKeeping
<1>5. LiftedByNews
  <2>1. \A e \in FirstEdges : edges[e].cooldown \in Nat
    BY <1>0, EdgeTypes DEF FirstEdges
  <2> QED
    BY <1>1, <2>1 DEF LiftedByNews
<1> QED
  BY <1>2, <1>3, <1>4, <1>5 DEF PlannerInv

\* Nothing happens.
LEMMA PlannerStutter ==
  ASSUME PlannerInv, UNCHANGED plannerVars PROVE PlannerInv'
BY DEF PlannerInv, RouteTypes, OnlyFirstCool, Cooling, BookKeeping, plannerVars

LEMMA PlannerStep ==
  ASSUME PlannerInv, PlannerNext PROVE PlannerInv' /\ LiftedByNews
BY PlanStep, FailureStep, FeedbackStep, ElapseStep DEF PlannerNext

-----------------------------------------------------------------------------
(* Theorems. *)

\* The inductive invariant of the planner.
LEMMA PlannerInvariant == PlannerSpec => []PlannerInv
<1>1. PlannerInit => PlannerInv
  BY PlannerStarts
<1>2. PlannerInv /\ [PlannerNext]_plannerVars => PlannerInv'
  BY PlannerStep, PlannerStutter
<1> QED
  BY <1>1, <1>2, PTL DEF PlannerSpec

\* The loss estimate of an edge stays a fraction of LOSS_ONE and its cooldown and
\* retry time stay within their limits, whatever sequence of plans, failures and
\* feedback update_loss, note_local_send_failure and reserve are called for.
THEOREM EdgeStateTyped == PlannerSpec => []TypeOK
<1>1. PlannerInv => TypeOK
  <2> SUFFICES ASSUME PlannerInv PROVE TypeOK
    OBVIOUS
  <2>1. now \in 0..MaxTime /\ planned \in 0..MaxPlans
    BY DEF PlannerInv, RouteTypes, BookKeeping
  <2>2. ASSUME NEW e \in Edges
        PROVE  /\ edges[e].loss \in 0..LossOne /\ edges[e].freeAt \in Nat
               /\ edges[e].cooldown \in 0..(MaxTime + CooldownMax)
               /\ edges[e].retry \in CooldownInitial..CooldownMax
               /\ {edges[e].sampled, edges[e].observed} \subseteq Never..MaxTime
    BY EdgeTypes DEF PlannerInv
  <2> QED
    BY <2>1, <2>2 DEF TypeOK
<1> QED
  BY <1>1, PlannerInvariant, PTL

\* calculate_path, for every route graph, packet size and forced edge: a usable
\* path if there is one, and none arrives earlier.
THEOREM CalculatePathIsEarliest == PlannerSpec => []PlanIsEarliest
<1>1. PlannerInv => PlanIsEarliest
  BY EarliestHolds DEF PlannerInv
<1> QED
  BY <1>1, PlannerInvariant, PTL

\* While one first edge is allowed, no packet is dropped for want of a plan, and
\* the edge that sampling_edge picks for a sample lies on one.
THEOREM PlanWhileAnEdgeIsAllowed == PlannerSpec => []PlanIfAnyEdge
<1>1. PlannerInv => PlanIfAnyEdge
  BY AnyEdgeHolds DEF PlannerInv
<1> QED
  BY <1>1, PlannerInvariant, PTL

\* note_feedback lifts the cooldown of a first edge only for a packet that was
\* sent after its last local failure, and nothing else lifts it.
THEOREM OldAnswersLiftNoCooldown == PlannerSpec => CooldownLiftedByNews
<1>1. PlannerInv /\ [PlannerNext]_plannerVars => [LiftedByNews]_plannerVars
  BY PlannerStep
<1>2. [LiftedByNews]_plannerVars =>
        [\A e \in FirstEdges :
           edges'[e].cooldown < edges[e].cooldown =>
             \E s \in samples \ samples' : s.plan[1] = e /\ s.sent >= failedAt[e]]_plannerVars
  BY DEF LiftedByNews
<1> QED
  BY <1>1, <1>2, PlannerInvariant, PTL DEF PlannerSpec, CooldownLiftedByNews

-----------------------------------------------------------------------------
(* Feedback: the inductive invariant. *)

\* Ticks until a sample is certainly gone.
Life == Timeout + Late

Sample == [no : Numbers, left : 0..Life]

Kinds == {"Kcp", "KeepAlive", "Reply"}

Packets ==
  [from : Endpoints, no : Numbers, kind : Kinds, depth : 0..3, answers : Int, hops : 0..3]

FeedbackTypes ==
  /\ due \in [Endpoints -> Nat] /\ keep \in [Endpoints -> Nat]
  /\ out \in [Endpoints -> SUBSET Sample]
  /\ nextNo \in [Endpoints -> Nat] /\ fails \in 0..MaxFails
  /\ counted \in [Endpoints -> [Numbers -> Nat]]
  /\ flight \subseteq Packets

\* A packet that asks for a reply has come as far as its depth says.
Chains == \A p \in flight : p.depth # 0 => p.hops = p.depth - 1

\* Nothing is counted for a number that is not stamped yet or is outstanding.
Uncounted ==
  \A e \in Endpoints :
    /\ \A n \in Numbers : counted[e][n] <= 1 /\ (n >= nextNo[e] => counted[e][n] = 0)
    /\ \A s \in out[e] : s.no < nextNo[e] /\ counted[e][s.no] = 0

\* A number is outstanding once.
Distinct == \A e \in Endpoints : \A s, t \in out[e] : s.no = t.no => s = t

\* The samples whose numbers are not in `exempt' are an interval apart, and no
\* sample that is due now would be less than an interval after one of them.
Paced(held, budget, exempt) ==
  /\ \A s \in held : s.no \notin exempt => s.left + Interval <= Life + budget
  /\ \A s, t \in held :
       s.no \notin exempt /\ t.no \notin exempt /\ s # t =>
         s.left + Interval <= t.left \/ t.left + Interval <= s.left

\* Every local failure exempts one sample at most.
Pacing ==
  \A e \in Endpoints :
    \E exempt \in SUBSET Numbers :
      Cardinality(exempt) <= fails /\ Paced(out[e], due[e], exempt)

FeedbackInv == FeedbackTypes /\ Chains /\ Uncounted /\ Distinct /\ Pacing

-----------------------------------------------------------------------------
(* What the helpers do. *)

\* The types of the constants, in the form the provers need.
LEMMA FeedbackConstants ==
  /\ Interval \in Nat \ {0} /\ Life \in Nat /\ MaxFails \in Nat
  /\ KeepTicks \in [Endpoints -> Nat] /\ MaxNo \in [Endpoints -> Nat]
  /\ Senders \subseteq Endpoints
BY FeedbackAssumption DEF Life

USE FeedbackConstants DEF Endpoints

\* The number of a packet is a natural number.
LEMMA NumbersNat == Numbers \subseteq Nat
BY DEF Numbers

\* The peer of an endpoint is an endpoint.
LEMMA PeerType == ASSUME NEW e \in Endpoints PROVE Peer(e) \in Endpoints
BY DEF Peer

\* send_envelope: the packet is flightd or dropped; a sample is recorded, and uses
\* up the budget, or nothing but what the caller has decided changes.
LEMMA Envelope ==
  ASSUME NEW e, NEW p, NEW sample, NEW held, NEW budget, NEW rest, NEW idle,
         SendEnvelope(e, p, sample, held, budget, rest, idle)
  PROVE  /\ flight' = rest \/ flight' = rest \cup {p}
         /\ \/ keep' = [keep EXCEPT ![e] = KeepTicks[e]]
            \/ keep' = [keep EXCEPT ![e] = idle]
         /\ \/ /\ out' = [out EXCEPT ![e] = held]
               /\ due' = [due EXCEPT ![e] = budget]
            \/ /\ sample
               /\ out' = [out EXCEPT ![e] = Without(held, p.no) \cup
                                            {NewSample(p.no)}]
               /\ \E d \in Nat : d >= Interval /\ due' = [due EXCEPT ![e] = d]
<1>1. \A jitter \in 0..(Interval - 1) : Interval + jitter \in Nat /\ Interval + jitter >= Interval
  OBVIOUS
<1> QED
  BY <1>1 DEF SendEnvelope

\* The packets of the model are packets.
LEMMA PacketType ==
  ASSUME NEW e \in Endpoints, NEW no \in Numbers, NEW kind \in Kinds, NEW depth \in 0..3,
         NEW answers \in Int, NEW hops \in 0..3
  PROVE  Packet(e, no, kind, depth, answers, hops) \in Packets
BY DEF Packet, Packets

\* Without the samples of a number there are only fewer.
LEMMA WithoutLess ==
  ASSUME NEW held, NEW no
  PROVE  Without(held, no) \subseteq held /\ \A s \in Without(held, no) : s.no # no
BY DEF Without

\* Types of what send_envelope leaves.
LEMMA EnvelopeType ==
  ASSUME FeedbackTypes, NEW e \in Endpoints, NEW p \in Packets, NEW sample, NEW held \in SUBSET Sample,
         NEW budget \in Nat, NEW rest \in SUBSET Packets, NEW idle \in Nat,
         SendEnvelope(e, p, sample, held, budget, rest, idle)
  PROVE  /\ flight' \subseteq Packets /\ keep' \in [Endpoints -> Nat]
         /\ out' \in [Endpoints -> SUBSET Sample] /\ due' \in [Endpoints -> Nat]
<1>1. flight' \subseteq Packets
  BY Envelope
<1>2. keep' \in [Endpoints -> Nat]
  BY Envelope DEF FeedbackTypes
<1>3. due' \in [Endpoints -> Nat]
  BY Envelope DEF FeedbackTypes
<1>4. Without(held, p.no) \cup {NewSample(p.no)} \in SUBSET Sample
  BY WithoutLess DEF NewSample, Life, Sample, Packets
<1>5. out' \in [Endpoints -> SUBSET Sample]
  BY Envelope, <1>4 DEF FeedbackTypes
<1> QED
  BY <1>1, <1>2, <1>3, <1>5

\* A stamped number is a number.
LEMMA StampType ==
  ASSUME FeedbackTypes, NEW e \in Endpoints, Stamp(e)
  PROVE  nextNo[e] \in Numbers /\ nextNo' \in [Endpoints -> Nat]
<1>1. nextNo[e] \in Nat /\ nextNo[e] < MaxNo[e] /\ nextNo \in [Endpoints -> Nat]
  BY DEF FeedbackTypes, Stamp
<1>2. nextNo[e] \in Numbers /\ nextNo[e] + 1 \in Nat
  BY <1>1, FeedbackConstants DEF Numbers
<1>3. nextNo' = [nextNo EXCEPT ![e] = nextNo[e] + 1]
  BY <1>1 DEF Stamp
<1> QED
  BY ONLY <1>1, <1>2, <1>3

\* Counting observations leaves counters of the same type.
LEMMA CountAllType ==
  ASSUME FeedbackTypes, NEW e \in Endpoints, NEW gone
  PROVE  CountAll(e, gone) \in [Endpoints -> [Numbers -> Nat]]
BY DEF FeedbackTypes, CountAll

-----------------------------------------------------------------------------
(* One step keeps the types. *)

\* One step keeps the types.
LEMMA TypeStep == ASSUME FeedbackTypes, Chains, [Next]_vars PROVE FeedbackTypes'
<1>1. ASSUME NEW e \in Senders, SendKcp(e) PROVE FeedbackTypes'
  <2> DEFINE depth == IF FeedbackDue(e) THEN 1 ELSE 0
             p == Packet(e, nextNo[e], "Kcp", depth, -1, 0)
  <2>1. e \in Endpoints /\ Stamp(e)
    BY <1>1 DEF SendKcp
  <2>2. p \in Packets
    BY <2>1, StampType, PacketType DEF Kinds
  <2>3. SendEnvelope(e, p, FeedbackDue(e), out[e], due[e], flight, keep[e])
    BY <1>1 DEF SendKcp
  <2> HIDE DEF p
  <2>4. /\ flight' \subseteq Packets /\ keep' \in [Endpoints -> Nat]
        /\ out' \in [Endpoints -> SUBSET Sample] /\ due' \in [Endpoints -> Nat]
    BY <2>1, <2>2, <2>3, EnvelopeType DEF FeedbackTypes
  <2> QED
    BY <1>1, <2>1, <2>4, StampType DEF SendKcp, FeedbackTypes
<1>2. ASSUME NEW e \in Endpoints, Poll(e) PROVE FeedbackTypes'
  <2> DEFINE depth == IF FeedbackDue(e) THEN 1 ELSE 0
             p == Packet(e, nextNo[e], "KeepAlive", depth, -1, 0)
  <2>1. counted' \in [Endpoints -> [Numbers -> Nat]] /\ fails' = fails
    BY <1>2, CountAllType DEF Poll
  <2>2. out[e] \ Expired(out[e]) \in SUBSET Sample
    BY DEF FeedbackTypes
  <2>3. CASE KeepAliveDue(e) /\ nextNo[e] < MaxNo[e]
    <3>1. /\ Stamp(e)
          /\ SendEnvelope(e, p, FeedbackDue(e), out[e] \ Expired(out[e]), due[e], flight, KeepTicks[e])
      BY <1>2, <2>3 DEF Poll
    <3>2. p \in Packets
      BY <3>1, StampType, PacketType DEF Kinds
    <3> HIDE DEF p
    <3>3. /\ flight' \subseteq Packets /\ keep' \in [Endpoints -> Nat]
          /\ out' \in [Endpoints -> SUBSET Sample] /\ due' \in [Endpoints -> Nat]
      BY <2>2, <3>1, <3>2, EnvelopeType DEF FeedbackTypes
    <3> QED
      BY <2>1, <3>1, <3>3, StampType DEF FeedbackTypes
  <2>4. CASE ~ (KeepAliveDue(e) /\ nextNo[e] < MaxNo[e])
    BY <1>2, <2>1, <2>2, <2>4 DEF Poll, FeedbackTypes
  <2> QED
    BY <2>3, <2>4
<1>4. ASSUME NEW p \in flight, SendFailed(p) PROVE FeedbackTypes'
  <2> DEFINE e == p.from
             was == \E s \in out[e] : s.no = p.no
             held == Without(out[e], p.no)
             budget == BudgetAfter(was, due[e])
  <2>1. e \in Endpoints /\ p \in Packets
    BY DEF FeedbackTypes, Packets
  <2>2. held \in SUBSET Sample /\ budget \in Nat
    BY <2>1, WithoutLess DEF FeedbackTypes, BudgetAfter
  <2>3. fails' \in 0..MaxFails /\ nextNo' = nextNo /\ counted' = counted
    BY <1>4 DEF SendFailed, FeedbackTypes
  <2>4. CASE p.kind = "Kcp"
    <3>1. SendEnvelope(e, p, was, held, budget, flight \ {p}, keep[e])
      BY <1>4, <2>4 DEF SendFailed
    <3> HIDE DEF held, was, budget, e
    <3>2. /\ flight' \subseteq Packets /\ keep' \in [Endpoints -> Nat]
          /\ out' \in [Endpoints -> SUBSET Sample] /\ due' \in [Endpoints -> Nat]
      BY <2>1, <2>2, <3>1, EnvelopeType DEF FeedbackTypes
    <3> QED
      BY <2>3, <3>2 DEF FeedbackTypes
  <2>5. CASE p.kind # "Kcp"
    <3>1. /\ flight' = flight \ {p} /\ keep' = keep
          /\ out' = [out EXCEPT ![e] = held] /\ due' = [due EXCEPT ![e] = budget]
      BY <1>4, <2>5 DEF SendFailed
    <3> HIDE DEF held, was, budget, e
    <3> QED
      BY <2>1, <2>2, <2>3, <3>1 DEF FeedbackTypes
  <2> QED
    BY <2>4, <2>5
<1>6. ASSUME NEW p \in flight, Receive(p) PROVE FeedbackTypes'
  <2> DEFINE e == Peer(p.from)
             held == Answered(out[e], p)
             sample == Continues(p.depth, FeedbackDue(e))
             reply == Packet(e, nextNo[e], "Reply", IF sample THEN p.depth + 1 ELSE 0, p.no, p.hops + 1)
  <2>1. p \in Packets /\ e \in Endpoints
    BY PeerType DEF FeedbackTypes, Packets
  <2>2. held \in SUBSET Sample
    BY <2>1, WithoutLess DEF Answered, FeedbackTypes
  <2>3. counted' \in [Endpoints -> [Numbers -> Nat]] /\ fails' = fails
    BY <1>6, <2>1, CountAllType DEF Receive, FeedbackTypes
  <2>4. CASE p.depth # 0
    <3>1. Stamp(e) /\ SendEnvelope(e, reply, sample, held, due[e], flight \ {p}, keep[e])
      BY <1>6, <2>4 DEF Receive
    <3>2. p.hops + 1 \in 0..3 /\ p.no \in Int
      <4>1. p.hops + 1 \in 0..3
        BY <2>1, <2>4 DEF Chains, Packets
      <4>2. p.no \in Numbers
        BY <2>1 DEF Packets
      <4>3. p.no \in Nat
        BY ONLY <4>2, NumbersNat
      <4> QED
        BY <4>1, <4>3
    <3>3. (IF sample THEN p.depth + 1 ELSE 0) \in 0..3
      BY <2>1 DEF Continues, Packets
    <3>4. reply \in Packets
      BY <2>1, <3>1, <3>2, <3>3, StampType, PacketType DEF Kinds
    <3> HIDE DEF reply, sample, held, e
    <3>5. /\ flight' \subseteq Packets /\ keep' \in [Endpoints -> Nat]
          /\ out' \in [Endpoints -> SUBSET Sample] /\ due' \in [Endpoints -> Nat]
      BY <2>1, <2>2, <3>1, <3>4, EnvelopeType DEF FeedbackTypes
    <3> QED
      BY <2>1, <2>3, <3>1, <3>5, StampType DEF FeedbackTypes
  <2>5. CASE p.depth = 0
    <3>1. out' = [out EXCEPT ![e] = held] /\ flight' = flight \ {p} /\ UNCHANGED <<due, keep, nextNo>>
      BY <1>6, <2>5 DEF Receive
    <3> HIDE DEF held, e
    <3> QED
      BY <2>1, <2>2, <2>3, <3>1 DEF FeedbackTypes
  <2> QED
    BY <2>4, <2>5
<1>7. ASSUME Tick PROVE FeedbackTypes'
  <2>1. due' \in [Endpoints -> Nat] /\ keep' \in [Endpoints -> Nat]
    BY <1>7 DEF Tick, Less, FeedbackTypes
  <2>2. ASSUME NEW e \in Endpoints PROVE {[s EXCEPT !.left = @ - 1] : s \in out[e]} \in SUBSET Sample
    <3> SUFFICES ASSUME NEW s \in out[e] PROVE [s EXCEPT !.left = @ - 1] \in Sample
      OBVIOUS
    <3>1. s \in Sample /\ s.left > 0
      BY <1>7 DEF Tick, FeedbackTypes
    <3> QED
      BY <3>1 DEF Sample
  <2>3. out' \in [Endpoints -> SUBSET Sample]
    BY <1>7, <2>2 DEF Tick
  <2> QED
    BY <1>7, <2>1, <2>3 DEF Tick, FeedbackTypes
<1>8. ASSUME UNCHANGED vars PROVE FeedbackTypes'
  BY <1>8 DEF vars, FeedbackTypes
<1> QED
  BY <1>1, <1>2, <1>4, <1>6, <1>7, <1>8 DEF Next

-----------------------------------------------------------------------------
(* Chains of replies. *)

\* One step keeps depth and hops of every packet together.
LEMMA ChainStep == ASSUME FeedbackTypes, Chains, [Next]_vars PROVE Chains'
<1>1. ASSUME NEW e \in Senders, SendKcp(e) PROVE Chains'
  <2> DEFINE depth == IF FeedbackDue(e) THEN 1 ELSE 0
             p == Packet(e, nextNo[e], "Kcp", depth, -1, 0)
  <2>1. p.depth # 0 => p.hops = p.depth - 1
    BY DEF Packet
  <2>2. SendEnvelope(e, p, FeedbackDue(e), out[e], due[e], flight, keep[e])
    BY <1>1 DEF SendKcp
  <2> HIDE DEF p
  <2>3. flight' \subseteq flight \cup {p}
    BY <2>2, Envelope
  <2> QED
    BY <2>1, <2>2, <2>3 DEF Chains
<1>2. ASSUME NEW e \in Endpoints, Poll(e) PROVE Chains'
  <2> DEFINE depth == IF FeedbackDue(e) THEN 1 ELSE 0
             p == Packet(e, nextNo[e], "KeepAlive", depth, -1, 0)
  <2>1. p.depth # 0 => p.hops = p.depth - 1
    BY DEF Packet
  <2>2. \/ SendEnvelope(e, p, FeedbackDue(e), out[e] \ Expired(out[e]), due[e], flight, KeepTicks[e])
        \/ flight' = flight
    BY <1>2 DEF Poll
  <2> HIDE DEF p
  <2>3. flight' \subseteq flight \cup {p}
    BY <2>2, Envelope
  <2> QED
    BY <2>1, <2>2, <2>3 DEF Chains
<1>4. ASSUME NEW p \in flight, SendFailed(p) PROVE Chains'
  <2> DEFINE e == p.from
             was == \E s \in out[e] : s.no = p.no
             held == Without(out[e], p.no)
             budget == BudgetAfter(was, due[e])
  <2>1. \/ SendEnvelope(e, p, was, held, budget, flight \ {p}, keep[e])
        \/ flight' = flight \ {p}
    BY <1>4 DEF SendFailed
  <2> HIDE DEF e, was, held, budget
  <2>2. flight' \subseteq flight
    BY <2>1, Envelope
  <2> QED
    BY <2>2 DEF Chains
<1>6. ASSUME NEW p \in flight, Receive(p) PROVE Chains'
  <2> DEFINE e == Peer(p.from)
             held == Answered(out[e], p)
             sample == Continues(p.depth, FeedbackDue(e))
             reply == Packet(e, nextNo[e], "Reply", IF sample THEN p.depth + 1 ELSE 0, p.no, p.hops + 1)
  <2>1. p \in Packets
    BY DEF FeedbackTypes
  <2>2. CASE p.depth # 0
    <3>1. SendEnvelope(e, reply, sample, held, due[e], flight \ {p}, keep[e])
      BY <1>6, <2>2 DEF Receive
    <3>2. p.hops = p.depth - 1 /\ p.depth \in 0..3
      BY <2>1, <2>2 DEF Chains, Packets
    <3>3. reply.depth # 0 => reply.hops = reply.depth - 1
      BY <3>2 DEF Packet
    <3> HIDE DEF reply, sample, held, e
    <3>4. flight' \subseteq flight \cup {reply}
      BY <3>1, Envelope
    <3> QED
      BY <2>1, <3>3, <3>4 DEF Chains
  <2>3. CASE p.depth = 0
    BY <1>6, <2>3 DEF Receive, Chains
  <2> QED
    BY <2>2, <2>3
<1>7. ASSUME Tick PROVE Chains'
  BY <1>7 DEF Tick, Chains
<1>8. ASSUME UNCHANGED vars PROVE Chains'
  BY <1>8 DEF vars, Chains
<1> QED
  BY <1>1, <1>2, <1>4, <1>6, <1>7, <1>8 DEF Next

-----------------------------------------------------------------------------
(* What a step does to the samples of an endpoint. *)

\* One observation is counted for each sample that is gone.
Observed(e, gone) ==
  counted'[e] = [n \in Numbers |-> IF \E s \in gone : s.no = n THEN counted[e][n] + 1
                                   ELSE counted[e][n]]

\* Samples end, or nothing changes; a packet that is no sample may be stamped.
EndSamples(e) ==
  /\ \E gone \in SUBSET out[e] : Observed(e, gone) /\ out'[e] \subseteq out[e] \ gone
  /\ due'[e] = due[e] /\ nextNo'[e] \in {nextNo[e], nextNo[e] + 1} /\ fails' >= fails

\* A new packet is a sample.
TakeSample(e) ==
  /\ due[e] = 0 /\ due'[e] >= Interval
  /\ nextNo'[e] = nextNo[e] + 1 /\ nextNo[e] \in Numbers /\ fails' >= fails
  /\ \E gone \in SUBSET out[e] :
       /\ Observed(e, gone)
       /\ \E kept \in SUBSET (out[e] \ gone) : out'[e] = kept \cup {NewSample(nextNo[e])}

\* A sample fails locally, and ends or is sent again.
FailSample(e) ==
  /\ nextNo'[e] = nextNo[e] /\ counted'[e] = counted[e] /\ fails' = fails + 1
  /\ \E s \in out[e] :
       \/ out'[e] = Without(out[e], s.no) /\ due'[e] = 0
       \/ out'[e] = Without(out[e], s.no) \cup {NewSample(s.no)} /\ due'[e] >= Interval

\* The endpoint is left alone.
Spared(e) ==
  /\ out'[e] = out[e] /\ due'[e] = due[e] /\ counted'[e] = counted[e]
  /\ nextNo'[e] = nextNo[e] /\ fails' >= fails

Change(e) == EndSamples(e) \/ TakeSample(e) \/ FailSample(e) \/ Spared(e)

\* Nothing is observed if nothing is gone.
LEMMA NothingObserved ==
  ASSUME FeedbackTypes, NEW e \in Endpoints, counted' = counted
  PROVE  Observed(e, {})
BY DEF Observed, FeedbackTypes

\* What CountAll does to its endpoint and to the other one.
LEMMA CountAllObserves ==
  ASSUME FeedbackTypes, NEW e \in Endpoints, NEW gone, counted' = CountAll(e, gone)
  PROVE  Observed(e, gone) /\ \A f \in Endpoints \ {e} : counted'[f] = counted[f]
BY DEF Observed, FeedbackTypes, CountAll

\* A packet of a new number is sent by e, which has `kept' outstanding.
LEMMA NewPacketChange ==
  ASSUME FeedbackTypes, NEW e \in Endpoints, NEW p, NEW sample, NEW gone \in SUBSET out[e],
         NEW kept, kept = out[e] \ gone, NEW rest, NEW idle, Stamp(e), p.no = nextNo[e],
         sample => FeedbackDue(e), fails' = fails, Observed(e, gone),
         \A f \in Endpoints \ {e} : counted'[f] = counted[f],
         SendEnvelope(e, p, sample, kept, due[e], rest, idle)
  PROVE  \A f \in Endpoints : Change(f)
<1>1. fails' >= fails
  BY DEF FeedbackTypes
<1>2. ASSUME NEW f \in Endpoints \ {e} PROVE Spared(f)
  BY <1>1, <1>2, Envelope DEF Spared, FeedbackTypes, Stamp
<1>3. nextNo[e] \in Numbers /\ nextNo'[e] = nextNo[e] + 1
  BY StampType DEF Stamp, FeedbackTypes
<1>4. CASE out' = [out EXCEPT ![e] = kept] /\ due' = [due EXCEPT ![e] = due[e]]
  <2>1. EndSamples(e)
    BY <1>1, <1>3, <1>4 DEF EndSamples, FeedbackTypes
  <2> QED
    BY <1>2, <2>1 DEF Change
<1>5. CASE /\ sample
           /\ out' = [out EXCEPT ![e] = Without(kept, p.no) \cup {NewSample(p.no)}]
           /\ \E d \in Nat : d >= Interval /\ due' = [due EXCEPT ![e] = d]
  <2>1. due[e] = 0 /\ due'[e] >= Interval
    BY <1>5 DEF FeedbackDue, FeedbackTypes
  <2>2. out'[e] = Without(kept, p.no) \cup {NewSample(nextNo[e])}
    BY <1>5 DEF FeedbackTypes
  <2>3. Without(kept, p.no) \in SUBSET (out[e] \ gone)
    BY WithoutLess
  <2>4. TakeSample(e)
    BY <1>1, <1>3, <2>1, <2>2, <2>3 DEF TakeSample
  <2> QED
    BY <1>2, <2>4 DEF Change
<1>6. \/ /\ out' = [out EXCEPT ![e] = kept]
         /\ due' = [due EXCEPT ![e] = due[e]]
      \/ /\ sample
         /\ out' = [out EXCEPT ![e] = Without(kept, p.no) \cup {NewSample(p.no)}]
         /\ \E d \in Nat : d >= Interval /\ due' = [due EXCEPT ![e] = d]
  BY ONLY Envelope, SendEnvelope(e, p, sample, kept, due[e], rest, idle), FeedbackConstants, SMT
<1> QED
  BY <1>4, <1>5, <1>6

\* A step is a tick or changes the endpoints in one of the four ways.
LEMMA StepChanges ==
  ASSUME FeedbackTypes, [Next]_vars, ~ Tick
  PROVE  \A f \in Endpoints : Change(f)
<1>1. ASSUME NEW e \in Senders, SendKcp(e) PROVE \A f \in Endpoints : Change(f)
  <2> DEFINE sample == FeedbackDue(e)
             p == Packet(e, nextNo[e], "Kcp", IF sample THEN 1 ELSE 0, -1, 0)
  <2>1. /\ Stamp(e) /\ SendEnvelope(e, p, sample, out[e], due[e], flight, keep[e])
        /\ fails' = fails /\ counted' = counted
    BY <1>1 DEF SendKcp
  <2>2. p.no = nextNo[e] /\ Observed(e, {}) /\ e \in Endpoints /\ (sample => FeedbackDue(e))
    BY <2>1, NothingObserved DEF Packet
  <2>3. {} \in SUBSET out[e] /\ out[e] = out[e] \ {}
    OBVIOUS
  <2> HIDE DEF p, sample
  <2> QED
    BY <2>1, <2>2, <2>3, NewPacketChange
<1>2. ASSUME NEW e \in Endpoints, Poll(e) PROVE \A f \in Endpoints : Change(f)
  <2> DEFINE sample == FeedbackDue(e)
             p == Packet(e, nextNo[e], "KeepAlive", IF sample THEN 1 ELSE 0, -1, 0)
             gone == Expired(out[e])
             kept == out[e] \ Expired(out[e])
  <2>1. fails' = fails /\ counted' = CountAll(e, gone)
    BY <1>2 DEF Poll
  <2>2. gone \in SUBSET out[e] /\ kept = out[e] \ gone
    BY DEF Expired
  <2>3. Observed(e, gone) /\ \A f \in Endpoints \ {e} : counted'[f] = counted[f]
    <3> HIDE DEF gone
    <3> QED BY <2>1, CountAllObserves
  <2>4. CASE KeepAliveDue(e) /\ nextNo[e] < MaxNo[e]
    <3>1. /\ Stamp(e) /\ SendEnvelope(e, p, sample, kept, due[e], flight, KeepTicks[e])
      BY <1>2, <2>4 DEF Poll
    <3>2. p.no = nextNo[e] /\ (sample => FeedbackDue(e))
      BY DEF Packet
    <3> HIDE DEF p, gone, kept, sample
    <3> QED
      BY <2>1, <2>2, <2>3, <3>1, <3>2, NewPacketChange
  <2>5. CASE ~ (KeepAliveDue(e) /\ nextNo[e] < MaxNo[e])
    <3>1. out' = [out EXCEPT ![e] = kept] /\ due' = due /\ nextNo' = nextNo
      BY <1>2, <2>5 DEF Poll
    <3> HIDE DEF p, gone, kept
    <3>2. EndSamples(e)
      BY <2>1, <2>2, <2>3, <3>1 DEF EndSamples, FeedbackTypes
    <3>3. ASSUME NEW f \in Endpoints \ {e} PROVE Spared(f)
      BY <2>1, <2>3, <3>1, <3>3 DEF Spared, FeedbackTypes
    <3> QED
      BY <3>2, <3>3 DEF Change
  <2> QED
    BY <2>4, <2>5
<1>4. ASSUME NEW p \in flight, SendFailed(p) PROVE \A f \in Endpoints : Change(f)
  <2> DEFINE e == p.from
             was == \E s \in out[e] : s.no = p.no
             held == Without(out[e], p.no)
             budget == BudgetAfter(was, due[e])
  <2>1. e \in Endpoints /\ p \in Packets
    BY DEF FeedbackTypes, Packets
  <2>2. /\ fails' = (IF was THEN fails + 1 ELSE fails) /\ fails \in Nat
        /\ nextNo' = nextNo /\ counted' = counted
    BY <1>4 DEF SendFailed, FeedbackTypes
  <2>3. \/ SendEnvelope(e, p, was, held, budget, flight \ {p}, keep[e])
        \/ out' = [out EXCEPT ![e] = held] /\ due' = [due EXCEPT ![e] = budget]
    BY <1>4 DEF SendFailed
  <2>4. \/ /\ out' = [out EXCEPT ![e] = held]
           /\ due' = [due EXCEPT ![e] = budget]
        \/ /\ was
           /\ out' = [out EXCEPT ![e] = Without(held, p.no) \cup {NewSample(p.no)}]
           /\ \E d \in Nat : d >= Interval /\ due' = [due EXCEPT ![e] = d]
    <3> HIDE DEF e, was, held, budget
    <3> QED
      BY <2>3, Envelope
  <2>5. ASSUME NEW f \in Endpoints \ {e} PROVE Spared(f)
    <3> HIDE DEF e, was, held, budget
    <3> QED
      BY <2>1, <2>2, <2>4 DEF Spared, FeedbackTypes
  <2>6. CASE was
    <3>1. PICK s \in out[e] : s.no = p.no
      BY <2>6
    <3>2. Without(held, p.no) = held
      BY DEF Without
    <3>3. \/ out'[e] = Without(out[e], s.no) /\ due'[e] = 0
          \/ out'[e] = Without(out[e], s.no) \cup {NewSample(s.no)} /\ due'[e] >= Interval
      <4>1. budget = 0
        BY <2>6 DEF BudgetAfter
      <4>2. \/ out'[e] = held /\ due'[e] = 0
            \/ out'[e] = held \cup {NewSample(p.no)} /\ due'[e] >= Interval
        <5> HIDE DEF e, was, held, budget
        <5> QED
          BY <2>1, <2>4, <3>2, <4>1 DEF FeedbackTypes
      <4> QED
        BY <3>1, <4>2
    <3>4. FailSample(e)
      BY <2>1, <2>2, <2>6, <3>3 DEF FailSample
    <3> QED
      BY <2>5, <3>4 DEF Change
  <2>7. CASE ~ was
    <3>1. held = out[e] /\ budget = due[e]
      BY <2>7 DEF Without, BudgetAfter
    <3>2. out' = [out EXCEPT ![e] = out[e]] /\ due' = [due EXCEPT ![e] = due[e]]
      BY <2>4, <2>7, <3>1
    <3> HIDE DEF e, was, held, budget
    <3>3. Spared(e)
      BY <2>1, <2>2, <3>2 DEF Spared, FeedbackTypes
    <3> QED
      BY <2>5, <3>3 DEF Change
  <2> QED
    BY <2>6, <2>7
<1>6. ASSUME NEW p \in flight, Receive(p) PROVE \A f \in Endpoints : Change(f)
  <2> DEFINE e == Peer(p.from)
             held == Answered(out[e], p)
             sample == Continues(p.depth, FeedbackDue(e))
             reply == Packet(e, nextNo[e], "Reply", IF sample THEN p.depth + 1 ELSE 0, p.no, p.hops + 1)
             gone == IF p.kind = "Reply" THEN {s \in out[e] : s.no = p.answers} ELSE {}
  <2>1. p \in Packets /\ e \in Endpoints /\ fails' = fails
    BY <1>6, PeerType DEF FeedbackTypes, Packets, Receive
  <2>2. gone \in SUBSET out[e] /\ held = out[e] \ gone
    BY DEF Answered, Without
  <2>3. Observed(e, gone) /\ \A f \in Endpoints \ {e} : counted'[f] = counted[f]
    <3>1. CASE p.kind = "Reply"
      <4>1. counted' = CountAll(e, gone)
        BY <1>6, <3>1 DEF Receive
      <4> HIDE DEF gone, e
      <4> QED BY <2>1, <4>1, CountAllObserves
    <3>2. CASE p.kind # "Reply"
      <4>1. counted' = counted /\ gone = {}
        BY <1>6, <3>2 DEF Receive
      <4> HIDE DEF gone, e
      <4> QED BY <2>1, <4>1, NothingObserved
    <3> QED BY <3>1, <3>2
  <2>4. CASE p.depth # 0
    <3>1. Stamp(e) /\ SendEnvelope(e, reply, sample, held, due[e], flight \ {p}, keep[e])
      BY <1>6, <2>4 DEF Receive
    <3>2. reply.no = nextNo[e] /\ (sample => FeedbackDue(e))
      BY DEF Packet, Continues
    <3> HIDE DEF reply, sample, held, e, gone
    <3> QED
      BY <2>1, <2>2, <2>3, <3>1, <3>2, NewPacketChange
  <2>5. CASE p.depth = 0
    <3>1. out' = [out EXCEPT ![e] = held] /\ due' = due /\ nextNo' = nextNo
      BY <1>6, <2>5 DEF Receive
    <3> HIDE DEF reply, sample, held, e, gone
    <3>2. EndSamples(e)
      BY <2>1, <2>2, <2>3, <3>1 DEF EndSamples, FeedbackTypes
    <3>3. ASSUME NEW f \in Endpoints \ {e} PROVE Spared(f)
      BY <2>1, <2>3, <3>1, <3>3 DEF Spared, FeedbackTypes
    <3> QED
      BY <3>2, <3>3 DEF Change
  <2> QED
    BY <2>4, <2>5
<1>7. ASSUME UNCHANGED vars PROVE \A f \in Endpoints : Change(f)
  BY <1>7 DEF vars, Change, Spared, FeedbackTypes
<1> QED
  BY <1>1, <1>2, <1>4, <1>6, <1>7 DEF Next

-----------------------------------------------------------------------------
(* One observation per sample. *)

\* What a tick leaves of the samples.
LEMMA TickSamples ==
  ASSUME FeedbackTypes, Tick, NEW e \in Endpoints
  PROVE  /\ \A s \in out'[e] : \E t \in out[e] : s.no = t.no /\ s.left = t.left - 1 /\ t.left > 0
         /\ counted' = counted /\ nextNo' = nextNo /\ fails' = fails
         /\ due'[e] = Less(due[e])
<1>1. out'[e] = {[s EXCEPT !.left = @ - 1] : s \in out[e]}
  BY DEF Tick
<1>2. \A t \in out[e] : t \in Sample /\ t.left > 0
  BY DEF Tick, FeedbackTypes
<1>3. \A t \in Sample : [t EXCEPT !.left = @ - 1].no = t.no /\ [t EXCEPT !.left = @ - 1].left = t.left - 1
  BY DEF Sample
<1> QED
  BY <1>1, <1>2, <1>3 DEF Tick

\* One step keeps observations and outstanding samples apart.
LEMMA UncountedStep == ASSUME FeedbackTypes, Chains, Uncounted, Distinct, [Next]_vars PROVE Uncounted'
<1> SUFFICES ASSUME NEW e \in Endpoints
             PROVE  /\ \A n \in Numbers : counted'[e][n] <= 1 /\ (n >= nextNo'[e] => counted'[e][n] = 0)
                    /\ \A s \in out'[e] : s.no < nextNo'[e] /\ counted'[e][s.no] = 0
  BY DEF Uncounted
<1>0. /\ out[e] \subseteq Sample /\ nextNo[e] \in Nat /\ counted[e] \in [Numbers -> Nat]
      /\ \A s \in out[e] : s.no \in Numbers /\ s.no \in Nat
  <2>1. /\ out[e] \subseteq Sample /\ nextNo[e] \in Nat /\ counted[e] \in [Numbers -> Nat]
        /\ \A s \in out[e] : s.no \in Numbers
    BY DEF FeedbackTypes, Sample
  <2> QED
    BY <2>1, NumbersNat
<1>1. /\ \A n \in Numbers : n \in Nat /\ counted[e][n] <= 1 /\ (n >= nextNo[e] => counted[e][n] = 0)
      /\ \A s \in out[e] : s.no < nextNo[e] /\ counted[e][s.no] = 0
      /\ \A s, t \in out[e] : s.no = t.no => s = t
  BY NumbersNat DEF Uncounted, Distinct
<1>2. ASSUME NEW gone \in SUBSET out[e], Observed(e, gone), nextNo'[e] >= nextNo[e], nextNo'[e] \in Nat
      PROVE  /\ \A n \in Numbers : counted'[e][n] <= 1 /\ (n >= nextNo'[e] => counted'[e][n] = 0)
             /\ \A s \in out[e] \ gone : s.no < nextNo'[e] /\ counted'[e][s.no] = 0
  <2>1. \A n \in Numbers : counted'[e][n] = IF \E s \in gone : s.no = n THEN counted[e][n] + 1
                                            ELSE counted[e][n]
    BY <1>2 DEF Observed
  <2>2. ASSUME NEW n \in Numbers
        PROVE  counted'[e][n] <= 1 /\ (n >= nextNo'[e] => counted'[e][n] = 0)
    <3>1. CASE \E s \in gone : s.no = n
      <4>1. PICK s \in gone : s.no = n
        BY <3>1
      <4>2. counted[e][n] = 0 /\ n < nextNo[e] /\ n \in Nat
        BY <1>1, <4>1
      <4> QED BY <1>0, <1>2, <2>1, <3>1, <4>2
    <3>2. CASE ~ \E s \in gone : s.no = n
      <4>1. counted'[e][n] = counted[e][n] /\ n \in Nat
        BY <2>1, <3>2, <1>1
      <4> QED BY <1>0, <1>1, <1>2, <4>1
    <3> QED BY <3>1, <3>2
  <2>3. ASSUME NEW s \in out[e] \ gone PROVE s.no < nextNo'[e] /\ counted'[e][s.no] = 0
    <3>1. ~ \E t \in gone : t.no = s.no
      BY <1>1
    <3>2. counted'[e][s.no] = counted[e][s.no]
      BY <1>0, <2>1, <3>1
    <3> QED BY <1>0, <1>1, <1>2, <3>2
  <2> QED BY <2>2, <2>3
<1>3. CASE EndSamples(e)
  <2>1. PICK gone \in SUBSET out[e] : Observed(e, gone) /\ out'[e] \subseteq out[e] \ gone
    BY <1>3 DEF EndSamples
  <2>2. nextNo'[e] >= nextNo[e] /\ nextNo'[e] \in Nat
    BY <1>0, <1>3 DEF EndSamples
  <2> QED
    BY <1>2, <2>1, <2>2
<1>4. CASE TakeSample(e)
  <2>0. PICK gone \in SUBSET out[e] :
          /\ Observed(e, gone)
          /\ \E kept \in SUBSET (out[e] \ gone) : out'[e] = kept \cup {NewSample(nextNo[e])}
    BY <1>4 DEF TakeSample
  <2>1. PICK kept \in SUBSET (out[e] \ gone) : out'[e] = kept \cup {NewSample(nextNo[e])}
    BY <2>0
  <2>2. nextNo'[e] = nextNo[e] + 1 /\ nextNo[e] \in Numbers
    BY <1>4 DEF TakeSample
  <2>3. \A s \in kept : s.no < nextNo'[e] /\ counted'[e][s.no] = 0
    BY <1>0, <1>2, <2>0, <2>2
  <2>4. counted'[e][nextNo[e]] = 0
    <3>1. ~ \E s \in gone : s.no = nextNo[e]
      BY <1>0, <1>1
    <3>2. counted'[e][nextNo[e]] = counted[e][nextNo[e]]
      BY <2>0, <2>2, <3>1 DEF Observed
    <3> QED BY <1>0, <1>1, <2>2, <3>2
  <2>5. NewSample(nextNo[e]).no = nextNo[e]
    BY DEF NewSample
  <2> QED
    BY <1>0, <1>2, <2>0, <2>1, <2>2, <2>3, <2>4, <2>5
<1>5. CASE FailSample(e)
  <2>1. \A s \in out'[e] : \E t \in out[e] : s.no = t.no
    BY <1>5, WithoutLess DEF FailSample, NewSample
  <2> QED
    BY <1>0, <1>1, <1>5, <2>1 DEF FailSample
<1>6. CASE Spared(e)
  BY <1>1, <1>6 DEF Spared
<1>7. CASE Tick
  BY <1>1, <1>7, TickSamples
<1> QED
  BY <1>3, <1>4, <1>5, <1>6, <1>7, StepChanges DEF Change

\* One step keeps the numbers of the outstanding samples different.
LEMMA DistinctStep == ASSUME FeedbackTypes, Uncounted, Distinct, [Next]_vars PROVE Distinct'
<1> SUFFICES ASSUME NEW e \in Endpoints
             PROVE  \A s, t \in out'[e] : s.no = t.no => s = t
  BY DEF Distinct
<1>1. /\ out[e] \subseteq Sample /\ nextNo[e] \in Nat
      /\ \A s \in out[e] : s.no < nextNo[e] /\ s.no \in Nat
      /\ \A s, t \in out[e] : s.no = t.no => s = t
  <2>1. /\ out[e] \subseteq Sample /\ nextNo[e] \in Nat
        /\ \A s \in out[e] : s.no < nextNo[e] /\ s.no \in Numbers
        /\ \A s, t \in out[e] : s.no = t.no => s = t
    BY DEF FeedbackTypes, Uncounted, Distinct, Sample
  <2> QED
    BY <2>1, NumbersNat
<1>2. CASE EndSamples(e)
  BY <1>1, <1>2 DEF EndSamples
<1>3. CASE TakeSample(e)
  <2>1. PICK kept \in SUBSET out[e] : out'[e] = kept \cup {NewSample(nextNo[e])}
    BY <1>3 DEF TakeSample
  <2> QED
    BY <1>1, <2>1 DEF NewSample
<1>4. CASE FailSample(e)
  BY <1>1, <1>4, WithoutLess DEF FailSample, NewSample
<1>5. CASE Spared(e)
  BY <1>1, <1>5 DEF Spared
<1>6. CASE Tick
  <2> SUFFICES ASSUME NEW s \in out'[e], NEW t \in out'[e], s.no = t.no PROVE s = t
    OBVIOUS
  <2>1. PICK u \in out[e] : s = [u EXCEPT !.left = @ - 1]
    BY <1>6 DEF Tick
  <2>2. PICK v \in out[e] : t = [v EXCEPT !.left = @ - 1]
    BY <1>6 DEF Tick
  <2>3. u.no = v.no
    BY <1>1, <2>1, <2>2 DEF Sample
  <2> QED
    BY <1>1, <2>1, <2>2, <2>3
<1> QED
  BY <1>2, <1>3, <1>4, <1>5, <1>6, StepChanges DEF Change

-----------------------------------------------------------------------------
(* Samples outstanding at once. *)

\* The numbers are finitely many.
LEMMA FiniteNumbers ==
  ASSUME NEW exempt \in SUBSET Numbers
  PROVE  IsFiniteSet(exempt) /\ Cardinality(exempt) \in Nat
<1>1. IsFiniteSet(Numbers)
  <2>1. Numbers = (0..(MaxNo["A"] - 1)) \cup (0..(MaxNo["B"] - 1))
    BY DEF Numbers
  <2>2. IsFiniteSet(0..(MaxNo["A"] - 1)) /\ IsFiniteSet(0..(MaxNo["B"] - 1))
    <3>1. 0 \in Int /\ MaxNo["A"] - 1 \in Int /\ MaxNo["B"] - 1 \in Int
      OBVIOUS
    <3> QED
      BY ONLY <3>1, FS_Interval, Zenon
  <2> QED
    BY ONLY <2>1, <2>2, FS_Union
<1> QED
  BY <1>1, FS_Subset, FS_CardinalityType

\* One more exempt number costs one failure.
LEMMA ExemptOneMore ==
  ASSUME NEW exempt \in SUBSET Numbers, NEW n \in Numbers, NEW k \in Nat, Cardinality(exempt) <= k
  PROVE  exempt \cup {n} \in SUBSET Numbers /\ Cardinality(exempt \cup {n}) <= k + 1
<1>1. IsFiniteSet(exempt) /\ Cardinality(exempt) \in Nat
  BY FiniteNumbers
<1>2. Cardinality(exempt \cup {n}) = IF n \in exempt THEN Cardinality(exempt) ELSE Cardinality(exempt) + 1
  BY <1>1, FS_AddElement
<1> QED
  BY <1>1, <1>2

\* One step keeps the pace of the samples, at the cost of one exempt number for
\* each failure.
LEMMA PacingStep == ASSUME FeedbackTypes, Chains, Pacing, [Next]_vars PROVE Pacing'
<1> SUFFICES ASSUME NEW e \in Endpoints
             PROVE  \E exempt \in SUBSET Numbers :
                      Cardinality(exempt) <= fails' /\ Paced(out'[e], due'[e], exempt)
  BY DEF Pacing
<1>1. PICK exempt \in SUBSET Numbers : Cardinality(exempt) <= fails /\ Paced(out[e], due[e], exempt)
  BY DEF Pacing
<1>2. /\ due[e] \in Nat /\ fails \in Nat
      /\ \A s \in out[e] : s.no \in Numbers /\ s.left \in 0..Life
  BY DEF FeedbackTypes, Sample
<1>3. Cardinality(exempt) \in Nat
  BY FiniteNumbers
<1>4. /\ due'[e] \in Nat /\ fails' \in Nat
      /\ \A s \in out'[e] : s.no \in Numbers /\ s.left \in 0..Life
  <2>1. FeedbackTypes'
    BY TypeStep
  <2> QED
    BY <2>1 DEF FeedbackTypes, Sample
<1>5. /\ \A s \in out[e] : s.no \notin exempt => s.left + Interval <= Life + due[e]
      /\ \A s, t \in out[e] :
           s.no \notin exempt /\ t.no \notin exempt /\ s # t =>
             s.left + Interval <= t.left \/ t.left + Interval <= s.left
  BY <1>1 DEF Paced
<1>6. CASE EndSamples(e)
  <2>1. out'[e] \subseteq out[e] /\ due'[e] = due[e] /\ fails' >= fails
    BY <1>6 DEF EndSamples
  <2>2. Paced(out'[e], due'[e], exempt) /\ Cardinality(exempt) <= fails'
    BY <1>1, <1>2, <1>3, <1>4, <1>5, <2>1 DEF Paced
  <2> QED
    BY <2>2
<1>7. CASE TakeSample(e)
  <2>1. PICK kept \in SUBSET out[e] : out'[e] = kept \cup {NewSample(nextNo[e])}
    BY <1>7 DEF TakeSample
  <2>2. due[e] = 0 /\ due'[e] >= Interval /\ fails' >= fails
    BY <1>7 DEF TakeSample
  <2>3. NewSample(nextNo[e]).left = Life
    BY DEF NewSample, Life
  <2>4. \A s \in out'[e] : s.left + Interval <= Life + due'[e]
    BY <1>4, <2>2
  <2>5. \A s \in kept : s.no \notin exempt => s.left + Interval <= NewSample(nextNo[e]).left
    BY <1>5, <2>2, <2>3
  <2>6. Paced(out'[e], due'[e], exempt)
    BY <1>5, <2>1, <2>4, <2>5 DEF Paced
  <2>7. Cardinality(exempt) <= fails'
    BY <1>1, <1>2, <1>3, <1>4, <2>2
  <2> QED
    BY <2>6, <2>7
<1>8. CASE FailSample(e)
  <2>1. PICK s \in out[e] :
          \/ out'[e] = Without(out[e], s.no) /\ due'[e] = 0
          \/ out'[e] = Without(out[e], s.no) \cup {NewSample(s.no)} /\ due'[e] >= Interval
    BY <1>8 DEF FailSample
  <2>2. fails' = fails + 1
    BY <1>8 DEF FailSample
  <2>3. CASE out'[e] = Without(out[e], s.no) \cup {NewSample(s.no)} /\ due'[e] >= Interval
    <3>1. \A t \in out'[e] : t.no \notin exempt \cup {s.no} => t \in out[e]
      BY <2>3, WithoutLess DEF NewSample
    <3>2. \A t \in out'[e] : t.left + Interval <= Life + due'[e]
      BY <1>4, <2>3
    <3>3. Paced(out'[e], due'[e], exempt \cup {s.no})
      BY <1>5, <3>1, <3>2 DEF Paced
    <3> QED
      BY <1>1, <1>2, <2>2, <3>3, ExemptOneMore
  <2>4. CASE out'[e] = Without(out[e], s.no) /\ due'[e] = 0
    <3>1. out'[e] \subseteq out[e]
      BY <2>4, WithoutLess
    <3>2. CASE \E late \in out'[e] : late.no \notin exempt /\ ~ (late.left + Interval <= Life)
      <4>1. PICK late \in out'[e] : late.no \notin exempt /\ ~ (late.left + Interval <= Life)
        BY <3>2
      <4>2. ASSUME NEW t \in out'[e], t.no \notin exempt \cup {late.no}
            PROVE  t.left + Interval <= Life + due'[e]
        <5>1. t # late /\ t \in out[e] /\ late \in out[e]
          BY <3>1, <4>2
        <5>2. t.left + Interval <= late.left \/ late.left + Interval <= t.left
          BY <1>5, <4>1, <4>2, <5>1
        <5> QED
          BY <1>2, <2>4, <4>1, <5>1, <5>2
      <4>3. Paced(out'[e], due'[e], exempt \cup {late.no})
        BY <1>5, <3>1, <4>2 DEF Paced
      <4> QED
        BY <1>1, <1>2, <1>4, <2>2, <4>3, ExemptOneMore
    <3>3. CASE ~ \E late \in out'[e] : late.no \notin exempt /\ ~ (late.left + Interval <= Life)
      <4>1. Paced(out'[e], due'[e], exempt)
        BY <1>2, <1>5, <2>4, <3>1, <3>3 DEF Paced
      <4> QED
        BY <1>1, <1>2, <1>3, <2>2, <4>1
    <3> QED
      BY <3>2, <3>3
  <2> QED
    BY <2>1, <2>3, <2>4
<1>9. CASE Spared(e)
  BY <1>1, <1>2, <1>3, <1>4, <1>9 DEF Spared
<1>10. CASE Tick
  <2>1. /\ \A s \in out'[e] : \E t \in out[e] : s.no = t.no /\ s.left = t.left - 1
        /\ fails' = fails /\ due'[e] = Less(due[e])
    BY <1>10, TickSamples
  <2>2. ASSUME NEW s \in out'[e], s.no \notin exempt
        PROVE  s.left + Interval <= Life + due'[e]
    <3>1. PICK t \in out[e] : s.no = t.no /\ s.left = t.left - 1
      BY <2>1
    <3>2. t.left + Interval <= Life + due[e]
      BY <1>5, <2>2, <3>1
    <3> QED
      BY <1>2, <2>1, <3>1, <3>2 DEF Less
  <2>3. ASSUME NEW s \in out'[e], NEW t \in out'[e], s.no \notin exempt, t.no \notin exempt, s # t
        PROVE  s.left + Interval <= t.left \/ t.left + Interval <= s.left
    <3>1. PICK u \in out[e] : s = [u EXCEPT !.left = @ - 1]
      BY <1>10 DEF Tick
    <3>2. PICK v \in out[e] : t = [v EXCEPT !.left = @ - 1]
      BY <1>10 DEF Tick
    <3>3. /\ u \in Sample /\ v \in Sample /\ u # v
          /\ s.no = u.no /\ s.left = u.left - 1 /\ t.no = v.no /\ t.left = v.left - 1
      BY <2>3, <3>1, <3>2 DEF FeedbackTypes, Sample
    <3>4. u.left + Interval <= v.left \/ v.left + Interval <= u.left
      BY <1>5, <2>3, <3>3
    <3> QED
      BY <1>2, <3>3, <3>4
  <2>4. Paced(out'[e], due'[e], exempt)
    BY <2>2, <2>3 DEF Paced
  <2> QED
    BY <1>1, <2>1, <2>4
<1> QED
  BY <1>6, <1>7, <1>8, <1>9, <1>10, StepChanges DEF Change

\* Quotient and remainder.
LEMMA DivMod ==
  ASSUME NEW M \in Nat \ {0}, NEW a \in Nat
  PROVE  /\ a \div M \in Nat /\ a % M \in 0..(M - 1)
         /\ a = (M * (a \div M)) + (a % M)
OBVIOUS

\* Quotients grow with the numbers, and differ if those are M apart.
LEMMA Quotients ==
  ASSUME NEW M \in Nat \ {0}, NEW a \in Nat, NEW b \in Nat
  PROVE  /\ a <= b => a \div M <= b \div M
         /\ a + M <= b => a \div M # b \div M
<1> DEFINE qa == a \div M
           qb == b \div M
           ra == a % M
           rb == b % M
<1>1. /\ qa \in Nat /\ qb \in Nat /\ ra \in 0..(M - 1) /\ rb \in 0..(M - 1)
      /\ a = (M * qa) + ra /\ b = (M * qb) + rb
  BY DivMod
<1> HIDE DEF qa, qb, ra, rb
<1>2. ASSUME a <= b PROVE qa <= qb
  <2> SUFFICES ASSUME qa >= qb + 1 PROVE FALSE
    BY <1>1
  <2>1. PICK d \in Nat : qa = qb + 1 + d
    BY <1>1
  <2>2. M * qa = (M * qb) + M + (M * d)
    BY <1>1, <2>1
  <2>3. M * d >= 0
    BY <2>1
  <2> QED
    BY <1>1, <1>2, <2>2, <2>3
<1>3. ASSUME a + M <= b PROVE qa # qb
  <2> SUFFICES ASSUME qa = qb PROVE FALSE
    OBVIOUS
  <2>1. M * qa = M * qb
    OBVIOUS
  <2> QED
    BY <1>1, <1>3, <2>1
<1> QED
  BY <1>2, <1>3 DEF qa, qb

\* Samples that are an interval apart are at most as many as intervals fit into
\* the life of one, and one.
LEMMA PacedFew ==
  ASSUME NEW held \in SUBSET Sample,
         \A s, t \in held : s # t => s.left + Interval <= t.left \/ t.left + Interval <= s.left
  PROVE  IsFiniteSet(held) /\ Cardinality(held) <= (Life \div Interval) + 1
<1> DEFINE K == Life \div Interval
           f == [s \in held |-> s.left \div Interval]
<1>1. K \in Nat
  BY DivMod
<1>2. \A s \in held : s.left \in Nat /\ s.left <= Life
  BY DEF Sample
<1>3. ASSUME NEW s \in held PROVE s.left \div Interval \in 0..K
  <2>1. s.left \in Nat /\ Life \in Nat /\ s.left <= Life
    BY <1>2
  <2>2. s.left \div Interval <= Life \div Interval
    BY <2>1, Quotients
  <2>3. s.left \div Interval \in Nat
    BY <2>1, DivMod
  <2> QED
    BY <1>1, <2>2, <2>3
<1>4. ASSUME NEW s \in held, NEW t \in held, s # t
      PROVE  s.left \div Interval # t.left \div Interval
  <2>1. s.left + Interval <= t.left \/ t.left + Interval <= s.left
    BY <1>4
  <2> QED
    BY <1>2, <2>1, Quotients
<1> HIDE DEF K
<1>5. f \in Injection(held, 0..K)
  BY <1>3, <1>4 DEF Injection, IsInjective
<1>6. IsFiniteSet(0..K) /\ Cardinality(0..K) = K + 1
  <2>1. 0 \in Int /\ K \in Int
    BY <1>1
  <2>2. IsFiniteSet(0..K) /\ Cardinality(0..K) = IF 0 > K THEN 0 ELSE K - 0 + 1
    BY ONLY <2>1, FS_Interval, Zenon
  <2> QED
    BY <1>1, <2>2
<1> HIDE DEF f
<1>7. IsFiniteSet(held) /\ Cardinality(held) <= Cardinality(0..K)
  BY ONLY <1>5, <1>6, FS_Injection
<1> QED
  BY <1>6, <1>7 DEF K

\* The exempt samples are as many as their numbers.
LEMMA ExemptFew ==
  ASSUME NEW held \in SUBSET Sample, NEW exempt \in SUBSET Numbers,
         \A s \in held : s.no \in exempt,
         \A s, t \in held : s.no = t.no => s = t
  PROVE  IsFiniteSet(held) /\ Cardinality(held) <= Cardinality(exempt)
<1> DEFINE f == [s \in held |-> s.no]
<1>1. f \in Injection(held, exempt)
  BY DEF Injection, IsInjective
<1>2. IsFiniteSet(exempt)
  BY FiniteNumbers
<1> HIDE DEF f
<1> QED
  BY ONLY <1>1, <1>2, FS_Injection

\* The limit, from the pace of the samples.
LEMMA OutstandingFew == ASSUME FeedbackInv PROVE MaxOutstanding
<1> SUFFICES ASSUME NEW e \in Endpoints
             PROVE  Cardinality(out[e]) <= Life \div Interval + 1 + fails
  BY DEF MaxOutstanding, Life
<1>1. PICK exempt \in SUBSET Numbers : Cardinality(exempt) <= fails /\ Paced(out[e], due[e], exempt)
  BY DEF FeedbackInv, Pacing
<1> DEFINE A == {s \in out[e] : s.no \in exempt}
           B == {s \in out[e] : s.no \notin exempt}
<1>2. out[e] \in SUBSET Sample /\ fails \in Nat /\ \A s, t \in out[e] : s.no = t.no => s = t
  BY DEF FeedbackInv, FeedbackTypes, Distinct
<1>3. IsFiniteSet(A) /\ Cardinality(A) <= Cardinality(exempt)
  BY <1>2, ExemptFew
<1>4. IsFiniteSet(B) /\ Cardinality(B) <= (Life \div Interval) + 1
  <2>1. \A s, t \in B : s # t => s.left + Interval <= t.left \/ t.left + Interval <= s.left
    BY <1>1 DEF Paced
  <2> QED
    BY <1>2, <2>1, PacedFew
<1>5. out[e] = A \cup B /\ A \cap B = {}
  OBVIOUS
<1> HIDE DEF A, B
<1>6. Cardinality(A \cup B) = Cardinality(A) + Cardinality(B) - Cardinality(A \cap B)
  BY <1>3, <1>4, FS_Union
<1>7. Cardinality({}) = 0
  BY FS_EmptySet
<1>8. Cardinality(A) \in Nat /\ Cardinality(B) \in Nat /\ Cardinality(exempt) \in Nat
  BY <1>3, <1>4, FS_CardinalityType, FiniteNumbers
<1>9. Life \div Interval \in Nat
  BY DivMod
<1>10. Cardinality(out[e]) = Cardinality(A) + Cardinality(B)
  <2>1. Cardinality(A \cap B) = 0
    BY ONLY <1>5, <1>7, Zenon
  <2>2. Cardinality(out[e]) = Cardinality(A \cup B)
    BY ONLY <1>5, Zenon
  <2> QED
    BY ONLY <1>6, <1>8, <2>1, <2>2, SMT
<1> DEFINE q == Life \div Interval
<1>11. q \in Nat /\ Cardinality(B) <= q + 1
  BY <1>4, <1>9
<1>12. Cardinality(out[e]) <= q + 1 + fails
  <2> HIDE DEF q
  <2> QED
    BY <1>1, <1>2, <1>3, <1>8, <1>10, <1>11
<1> QED
  BY <1>12

-----------------------------------------------------------------------------
(* The theorems. *)

\* The conjunction of types, depth of chains, observations, numbers and pace is
\* an invariant of the exchange of samples and replies.
THEOREM FeedbackInvariant == Spec => []FeedbackInv
<1>1. Init => FeedbackInv
  <2> SUFFICES ASSUME Init PROVE FeedbackInv
    OBVIOUS
  <2>1. FeedbackTypes
    BY DEF Init, FeedbackTypes, Sample
  <2>2. Chains /\ Distinct
    BY DEF Init, Chains, Distinct
  <2>3. Uncounted
    BY DEF Init, Uncounted
  <2>4. Pacing
    <3>1. {} \in SUBSET Numbers /\ Cardinality({}) <= fails
      BY FS_EmptySet DEF Init
    <3>2. \A e \in Endpoints : Paced(out[e], due[e], {})
      BY DEF Init, Paced
    <3> QED
      BY <3>1, <3>2 DEF Pacing
  <2> QED
    BY <2>1, <2>2, <2>3, <2>4 DEF FeedbackInv
<1>2. FeedbackInv /\ [Next]_vars => FeedbackInv'
  BY TypeStep, ChainStep, UncountedStep, DistinctStep, PacingStep DEF FeedbackInv
<1> QED
  BY <1>1, <1>2, PTL DEF Spec

\* A sample is observed once, whatever the order in which its answer, its
\* deadline and its local failure come (note_feedback in handle_endpoint_message
\* and expire_feedback).
THEOREM ObservedOnce == Spec => []CountedOnce
<1>1. FeedbackInv => CountedOnce
  BY DEF FeedbackInv, Uncounted, CountedOnce
<1> QED
  BY <1>1, FeedbackInvariant, PTL

\* A sample causes at most three replies (the reply_depth of the code).
THEOREM RepliesEnd == Spec => []ChainsEnd
<1>1. FeedbackInv => ChainsEnd
  BY DEF FeedbackInv, FeedbackTypes, Packets, ChainsEnd
<1> QED
  BY <1>1, FeedbackInvariant, PTL

\* The outstanding map is bounded by the timeout and the lateness of poll, the
\* interval, and the number of samples whose packets failed locally.
THEOREM OutstandingBounded == Spec => []MaxOutstanding
<1>1. FeedbackInv => MaxOutstanding
  BY OutstandingFew
<1> QED
  BY <1>1, FeedbackInvariant, PTL
=============================================================================
