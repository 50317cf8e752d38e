---------------------------- MODULE RoutePlanner ----------------------------
(***************************************************************************)
(* The route planner of crates/raynet-core/src/routing.rs with the route   *)
(* samples EndpointCore keeps for it: earliest-arrival plans over a        *)
(* directed acyclic graph of channels, reservations of virtual service     *)
(* time, a loss estimate per edge and a cooldown of the first edges.       *)
(*                                                                         *)
(* Nodes are numbered in topological order, 1 is this endpoint and         *)
(* Destination the last; an edge is <<node, index>>.  Times carry the      *)
(* factor FixedOne where the code's fixed point does.                      *)
(***************************************************************************)
EXTENDS Integers, Sequences, Functions

CONSTANTS
  Graph,        \* per node the sequence of its edges [channel, next, capacity, latency],
                \* hints of zero replaced by their defaults
  Sizes,        \* scheduled sizes in bits
  FixedOne,     \* FIXED_ONE
  LossOne,      \* LOSS_ONE
  CooldownInitial, CooldownMax,  \* LOCAL_COOLDOWN_INITIAL_MS, .._MAX_MS
  MaxTime,      \* bound: the clock
  MaxPlans      \* bound: packets that are planned

Destination == Len(Graph)
Edges == UNION {{<<n, i>> : i \in 1..Len(Graph[n])} : n \in 1..Destination}
EdgeAt(e) == Graph[e[1]][e[2]]
FirstEdges == {e \in Edges : e[1] = 1}

\* build_route: forward edges, one source, one sink.  The channels of a node are
\* distinct: the design asks for it and nothing checks it.  The code keeps a plan
\* as channels and finds the edges again by their channel, which is exact only
\* then; here a plan is kept as edges.
IsRouteGraph ==
  /\ Graph # <<>>
  /\ \A e \in Edges : EdgeAt(e).next \in (e[1] + 1)..Destination
  /\ \A n \in 1..(Destination - 1) : Graph[n] # <<>>
  /\ Graph[Destination] = <<>>
  /\ \A n \in 2..Destination : \E e \in Edges : EdgeAt(e).next = n
  /\ \A e, f \in Edges : e[1] = f[1] /\ EdgeAt(e).channel = EdgeAt(f).channel => e = f

ASSUME GraphAssumption == IsRouteGraph

ASSUME PlannerAssumption ==
  /\ {FixedOne, LossOne, CooldownInitial} \subseteq Nat \ {0}
  /\ {CooldownMax, MaxTime, MaxPlans} \subseteq Nat /\ CooldownInitial <= CooldownMax
  /\ Sizes \subseteq Nat \ {0}
  /\ Graph \in Seq(Seq([channel : Nat, next : Nat, capacity : Nat, latency : Nat]))
  /\ \A e \in Edges : EdgeAt(e).capacity > 0 /\ EdgeAt(e).latency > 0

VARIABLES
  now,       \* elapsed_ms
  edges,     \* the runtime state of each edge
  samples,   \* outstanding samples: plan and sent_at
  planned,   \* bound: number of plans made
  sending,   \* packets per first edge whose sending may still fail
  failedAt   \* history: the last local failure of each first edge, -1 before it

plannerVars == <<now, edges, samples, planned, sending, failedAt>>

Never == -1

NewEdge == [freeAt |-> 0, loss |-> 0, cooldown |-> 0, retry |-> CooldownInitial,
            sampled |-> Never, observed |-> Never]

PlannerInit ==
  /\ now = 0
  /\ edges = [e \in Edges |-> NewEdge]
  /\ samples = {}
  /\ planned = 0
  /\ sending = [e \in FirstEdges |-> 0]
  /\ failedAt = [e \in FirstEdges |-> Never]

-----------------------------------------------------------------------------
(* Cost of an edge. *)

Larger(a, b) == IF a >= b THEN a ELSE b
CeilDiv(a, b) == (a + b - 1) \div b

SerializationTime(e, bits) ==
  LET loss      == edges[e].loss
      penalty   == FixedOne + (15 * loss * loss * FixedOne) \div (LossOne * LossOne)
      effective == Larger(1, (EdgeAt(e).capacity * FixedOne) \div penalty)
  IN  CeilDiv(bits * FixedOne, effective)

Latency(e) == EdgeAt(e).latency * FixedOne

EdgeAllowed(e) == now >= edges[e].cooldown

\* Mutant: the reservations of earlier packets are ignored.
FinishNoQueue(e, arrival, bits) == arrival + SerializationTime(e, bits)

\* When a packet that reaches e's node at `arrival' has left it through e.
Finish(e, arrival, bits) == Larger(arrival, edges[e].freeAt) + SerializationTime(e, bits)

-----------------------------------------------------------------------------
(* Choosing a plan. *)

NoEdge == <<0, 0>>
Lexical(e, f) == e[1] < f[1] \/ (e[1] = f[1] /\ e[2] <= f[2])

\* The nodes the loop of sampling_edge marks reachable, after each node.
Reachable ==
  LET ahead(n) == {EdgeAt(e).next : e \in {f \in Edges : f[1] = n /\ EdgeAllowed(f)}}
      after[n \in 0..Destination] ==
        IF n = 0 THEN {1}
        ELSE IF n \in after[n - 1] THEN after[n - 1] \cup ahead(n) ELSE after[n - 1]
  IN  after[Destination]

\* Mutant: edges behind a cooling first edge are candidates too.
SamplingCandidatesAll == {e \in Edges : EdgeAllowed(e)}

SamplingCandidates ==
  LET nodes == Reachable
  IN  {e \in Edges : e[1] \in nodes /\ EdgeAllowed(e)}

\* sampling_edge: the least recently sampled candidate, the first of them.
SamplingEdge ==
  LET candidates == SamplingCandidates
  IN  IF candidates = {} THEN NoEdge
      ELSE CHOOSE e \in candidates : \A f \in candidates :
             \/ edges[e].sampled < edges[f].sampled
             \/ edges[e].sampled = edges[f].sampled /\ Lexical(e, f)

\* Best known way to a node in each of the two layers, layer 1 behind the
\* forced edge; at = Never stands for u64::MAX.
Unreached == [at |-> Never, layer |-> 0, via |-> NoEdge]

RelaxEdge(best, layer, e, forced, bits) ==
  LET from == best[e[1]][layer]
      to   == EdgeAt(e).next
      into == IF e = forced THEN 1 ELSE layer
      cand == Finish(e, from.at, bits) + Latency(e)
  IN  IF from.at = Never \/ ~ EdgeAllowed(e) THEN best
      ELSE IF best[to][into].at # Never /\ cand >= best[to][into].at THEN best
      ELSE [best EXCEPT ![to][into] = [at |-> cand, layer |-> layer, via |-> e]]

\* The loops over the layers and the edges of a node.  Nothing reaches layer 1
\* without a forced edge.
RelaxNode(best, n, forced, bits) ==
  LET k == Len(Graph[n])
      after[i \in 0..(2 * k)] ==
        IF i = 0 THEN best
        ELSE IF i <= k THEN RelaxEdge(after[i - 1], 0, <<n, i>>, forced, bits)
        ELSE RelaxEdge(after[i - 1], 1, <<n, i - k>>, forced, bits)
  IN  after[2 * k]

\* calculate_path: the earliest arrivals, from node to node.
Arrivals(forced, bits) ==
  LET start == [n \in 1..Destination |-> [layer \in {0, 1} |-> Unreached]]
      after[n \in 0..Destination] ==
        IF n = 0 THEN [start EXCEPT ![1][0].at = now * FixedOne]
        ELSE RelaxNode(after[n - 1], n, forced, bits)
  IN  after[Destination]

\* One step back over a predecessor.
StepBack(best, w) ==
  LET b == best[w.node][w.layer]
  IN  IF w.node = 1 THEN w
      ELSE [node |-> b.via[1], layer |-> b.layer, path |-> <<b.via>> \o w.path]

\* The walk back from the destination, <<>> if there is no plan.
CalculatePath(forced, bits) ==
  LET best == Arrivals(forced, bits)
      end  == [node |-> Destination, layer |-> IF forced = NoEdge THEN 0 ELSE 1, path |-> <<>>]
      walk[i \in 0..Destination] == IF i = 0 THEN end ELSE StepBack(best, walk[i - 1])
  IN  IF best[end.node][end.layer].at = Never THEN <<>> ELSE walk[Destination].path

\* reserve: book the next edge of the path from the cursor on.
Book(r, e, bits, sample) ==
  LET done == Finish(e, r.cursor, bits)
  IN  [cursor |-> done + Latency(e),
       edges  |-> [r.edges EXCEPT ![e].freeAt = done,
                                  ![e].sampled = IF sample THEN now ELSE @]]

Reserve(path, bits, sample) ==
  LET after[i \in 0..Len(path)] ==
        IF i = 0 THEN [cursor |-> now * FixedOne, edges |-> edges]
        ELSE Book(after[i - 1], path[i], bits, sample)
  IN  after[Len(path)].edges

-----------------------------------------------------------------------------
(* Steps. *)

\* build_route_plan for a packet; without a plan the packet is dropped.
BuildRoutePlan(bits, sample) ==
  /\ planned < MaxPlans
  /\ sample => SamplingCandidates # {}
  /\ LET path == CalculatePath(IF sample THEN SamplingEdge ELSE NoEdge, bits)
     IN  /\ path # <<>>
         /\ edges' = Reserve(path, bits, sample)
         /\ sending' = [sending EXCEPT ![path[1]] = @ + 1]
         /\ samples' = IF sample THEN samples \cup {[plan |-> path, sent |-> now]} ELSE samples
  /\ planned' = planned + 1
  /\ UNCHANGED <<now, failedAt>>

\* Mutant: half of the whole range is added.
LossAfterFailureWhole(loss) == loss + LossOne \div 2

LossAfterFailure(loss) == loss + (LossOne - loss) \div 2

\* What a local send failure makes of an edge's state.
AfterFailure(s) ==
  [s EXCEPT !.loss = IF now >= s.observed THEN LossAfterFailure(@) ELSE @,
            !.observed = IF now >= @ THEN now ELSE @,
            !.cooldown = now + s.retry,
            !.retry = IF 2 * @ <= CooldownMax THEN 2 * @ ELSE CooldownMax]

\* The channel worker reports that a packet did not leave over e; if it was a
\* sample, the sample ends.
NoteLocalSendFailure(e) ==
  /\ sending[e] > 0
  /\ sending' = [sending EXCEPT ![e] = @ - 1]
  /\ edges' = [edges EXCEPT ![e] = AfterFailure(@)]
  /\ failedAt' = [failedAt EXCEPT ![e] = now]
  /\ \E ended \in {{}} \cup {{s} : s \in {t \in samples : t.plan[1] = e}} :
       samples' = samples \ ended
  /\ UNCHANGED <<now, planned>>

\* Mutant: an observation is taken whatever the edge has seen since.
AcceptsAny(e, sent) == TRUE

Accepts(e, sent) == sent >= edges[e].observed

\* note_feedback: every edge of the plan that has seen nothing newer.
NoteFeedback(s, success) ==
  /\ s \in samples
  /\ samples' = samples \ {s}
  /\ edges' = [e \in Edges |->
       IF e \notin Range(s.plan) \/ ~ Accepts(e, s.sent) THEN edges[e]
       ELSE LET seen == [edges[e] EXCEPT
                           !.loss = IF success THEN (@ * 3) \div 4
                                    ELSE @ + (LossOne - @) \div 16,
                           !.observed = s.sent]
            IN  IF success /\ e = s.plan[1]
                THEN [seen EXCEPT !.cooldown = 0, !.retry = CooldownInitial]
                ELSE seen]
  /\ UNCHANGED <<now, planned, sending, failedAt>>

Elapse == now < MaxTime /\ now' = now + 1 /\ UNCHANGED <<edges, samples, planned, sending, failedAt>>

PlannerNext ==
  \/ \E bits \in Sizes, sample \in BOOLEAN : BuildRoutePlan(bits, sample)
  \/ \E e \in FirstEdges : NoteLocalSendFailure(e)
  \/ \E s \in samples, success \in BOOLEAN : NoteFeedback(s, success)
  \/ Elapse

PlannerSpec == PlannerInit /\ [][PlannerNext]_plannerVars

-----------------------------------------------------------------------------
(* Properties. *)

\* Types: the loss estimate stays a fraction of LossOne.
TypeOK ==
  /\ now \in 0..MaxTime /\ planned \in 0..MaxPlans
  /\ \A e \in Edges :
       /\ edges[e].loss \in 0..LossOne /\ edges[e].freeAt \in Nat
       /\ edges[e].cooldown \in 0..(MaxTime + CooldownMax)
       /\ edges[e].retry \in CooldownInitial..CooldownMax
       /\ {edges[e].sampled, edges[e].observed} \subseteq Never..MaxTime

\* Every path from this endpoint to the destination.
Paths ==
  {p \in UNION {[1..k -> Edges] : k \in 1..(Destination - 1)} :
     /\ p[1] \in FirstEdges /\ EdgeAt(p[Len(p)]).next = Destination
     /\ \A i \in 1..(Len(p) - 1) : EdgeAt(p[i]).next = p[i + 1][1]}

Usable(forced) ==
  {p \in Paths : (\A e \in Range(p) : EdgeAllowed(e)) /\ (forced = NoEdge \/ forced \in Range(p))}

\* When a packet that takes the path arrives.
ArrivalOver(path, bits) ==
  LET at[i \in 0..Len(path)] ==
        IF i = 0 THEN now * FixedOne
        ELSE LET e == path[i]
             IN  Larger(at[i - 1], edges[e].freeAt) + SerializationTime(e, bits) + Latency(e)
  IN  at[Len(path)]

\* calculate_path finds a path if there is one, with the forced edge on it, and
\* none arrives earlier, whatever was reserved, lost or is cooling.
PlanIsEarliest ==
  \A bits \in Sizes, forced \in {NoEdge, SamplingEdge} :
    LET path    == CalculatePath(forced, bits)
        usable  == Usable(forced)
        arrival == ArrivalOver(path, bits)
    IN  IF usable = {} THEN path = <<>>
        ELSE path \in usable /\ \A p \in usable : arrival <= ArrivalOver(p, bits)

\* No packet is dropped while a first edge is allowed: the edge that a sample
\* must take always has a way from here and on to the destination.
PlanIfAnyEdge ==
  (\E e \in FirstEdges : EdgeAllowed(e)) =>
    \A bits \in Sizes :
      /\ CalculatePath(NoEdge, bits) # <<>>
      /\ SamplingEdge # NoEdge /\ CalculatePath(SamplingEdge, bits) # <<>>

\* A success lifts a cooldown only if its packet was sent no earlier than the
\* last local failure: an old answer does not bring a dead edge back.
CooldownLiftedByNews ==
  [][\A e \in FirstEdges :
       edges'[e].cooldown < edges[e].cooldown =>
         \E s \in samples \ samples' : s.plan[1] = e /\ s.sent >= failedAt[e]]_plannerVars
=============================================================================
