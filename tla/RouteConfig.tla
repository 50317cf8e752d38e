----------------------------- MODULE RouteConfig -----------------------------
(***************************************************************************)
(* How an endpoint gets its route graph at start-up: the senders of the    *)
(* configured channels (channels in crates/raynet-shell/src/channels.rs),  *)
(* build_route in config.rs, which numbers the nodes of the configured     *)
(* edges in topological order, and route_graph in endpoint.rs, which falls *)
(* back to one edge per local channel.  A failed assertion stops the       *)
(* process.                                                                *)
(***************************************************************************)
EXTENDS Integers, FiniteSets, Sequences, SequencesExt, Relation

CONSTANTS
  Configs,           \* configurations: [senders, given, route]; without a
                     \* [[route]] section `given' is FALSE and route is <<>>
  DefaultCapacity,   \* DEFAULT_ROUTE_CAPACITY_KBPS
  DefaultLatency     \* DEFAULT_ROUTE_LATENCY_MS

VARIABLES
  config,   \* what the configuration file says
  phase,    \* "starting", "running" or "panicked"
  route     \* the graph the planner is created with

startVars == <<config, phase, route>>

StartInit == config \in Configs /\ phase = "starting" /\ route = <<>>

-----------------------------------------------------------------------------
(* build_route.  A node is its name until it gets its position. *)

AppendNew(names, n) == IF n \in Range(names) THEN names ELSE Append(names, n)

\* indexes: the nodes in the order in which the edges name them.
NodeNames(list) ==
  FoldLeft(LAMBDA names, e : AppendNew(AppendNew(names, e.from), e.to), <<>>, list)

OutEdges(list, n) == SelectSeq(list, LAMBDA e : e.from = n)

Indegree(list) ==
  [n \in Range(NodeNames(list)) |-> Cardinality({i \in DOMAIN list : list[i].to = n})]

Sources(list) == SelectSeq(NodeNames(list), LAMBDA n : Indegree(list)[n] = 0)
Sinks(list) == SelectSeq(NodeNames(list), LAMBDA n : OutEdges(list, n) = <<>>)

\* One round of the `ready' loop: take a node, release its successors.
VisitEdge(k, e) ==
  LET left == k.indegree[e.to] - 1
  IN  [k EXCEPT !.indegree[e.to] = left,
                !.ready = IF left = 0 THEN Append(@, e.to) ELSE @]

Visit(list, k) ==
  IF k.ready = <<>> THEN k
  ELSE FoldLeft(VisitEdge,
                [k EXCEPT !.ready = Tail(@), !.order = Append(@, Head(k.ready))],
                OutEdges(list, Head(k.ready)))

\* Mutant: the nodes keep the order in which they are named.
OrderAsNamed(list) == NodeNames(list)

\* A node becomes ready once, so a round per node empties the queue.
TopologicalOrder(list) ==
  FoldLeft(LAMBDA k, n : Visit(list, k),
           [ready |-> Sources(list), order |-> <<>>, indegree |-> Indegree(list)],
           NodeNames(list)).order

\* The assertions of build_route.
RouteAccepted(list) ==
  /\ list # <<>>
  /\ \A i \in DOMAIN list : list[i].from # list[i].to
  /\ Len(Sources(list)) = 1
  /\ Len(Sinks(list)) = 1
  /\ Len(TopologicalOrder(list)) = Len(NodeNames(list))

\* RoutePlanner::new: a hint of zero stands for the default.
PlannerEdge(channel, next, capacity, latency) ==
  [channel |-> channel, next |-> next,
   capacity |-> IF capacity = 0 THEN DefaultCapacity ELSE capacity,
   latency |-> IF latency = 0 THEN DefaultLatency ELSE latency]

BuildRoute(list) ==
  LET order       == TopologicalOrder(list)
      position(n) == CHOOSE p \in DOMAIN order : order[p] = n
      edge(e)     == PlannerEdge(e.channel, position(e.to), e.capacity, e.latency)
  IN  [p \in DOMAIN order |->
         [i \in DOMAIN OutEdges(list, order[p]) |-> edge(OutEdges(list, order[p])[i])]]

-----------------------------------------------------------------------------
(* route_graph and the start of the endpoint. *)

\* The keys of a BTreeMap.
ChannelIds(senders) == SetToSortSeq(Range(senders), <)

DefaultGraph(senders) ==
  << [i \in DOMAIN ChannelIds(senders) |-> PlannerEdge(ChannelIds(senders)[i], 2, 0, 0)], <<>> >>

\* channels() refuses two senders with one id.
ChannelsAccepted(senders) == Cardinality(Range(senders)) = Len(senders)

GraphFor(c) == IF c.given THEN BuildRoute(c.route) ELSE DefaultGraph(c.senders)

FirstHopsLocal(c) == \A i \in DOMAIN GraphFor(c)[1] : GraphFor(c)[1][i].channel \in Range(c.senders)

Run ==
  /\ phase = "starting"
  /\ ChannelsAccepted(config.senders)
  /\ config.given => RouteAccepted(config.route)
  /\ FirstHopsLocal(config)
  /\ phase' = "running"
  /\ route' = GraphFor(config)
  /\ UNCHANGED config

\* An endpoint without any edge has longest[0] = 0: with overflow checks
\* scheduled_packet_overhead panics, without them the endpoint runs.
Panic ==
  /\ phase = "starting"
  /\ \/ ~ ChannelsAccepted(config.senders)
     \/ config.given /\ ~ RouteAccepted(config.route)
     \/ (config.given => RouteAccepted(config.route)) /\ ~ FirstHopsLocal(config)
     \/ ~ config.given /\ config.senders = <<>>
  /\ phase' = "panicked"
  /\ UNCHANGED <<config, route>>

Start == Run \/ Panic

-----------------------------------------------------------------------------
(* Properties. *)

\* The configured edges as a relation between names and its closure.
Names(list) == {list[i].from : i \in DOMAIN list} \cup {list[i].to : i \in DOMAIN list}
Precedes(list) ==
  TransitiveClosure([x, y \in Names(list) |-> \E i \in DOMAIN list : list[i].from = x /\ list[i].to = y],
                    Names(list))

\* A route leads from one node over all others to one node, without a cycle.
WellFormed(list) ==
  LET before == Precedes(list)
  IN  /\ \A n \in Names(list) : ~ before[n, n]
      /\ \E s \in Names(list) : \A n \in Names(list) \ {s} : before[s, n]
      /\ \E t \in Names(list) : \A n \in Names(list) \ {t} : before[n, t]

\* The design: the channels of one node are distinct.
UniqueChannels(list) ==
  \A i, j \in DOMAIN list :
    list[i].from = list[j].from /\ list[i].channel = list[j].channel => i = j

\* Accepted means: a route whose first hops are local channels.
AcceptedAsConfigured ==
  phase = "running" <=>
    /\ ChannelsAccepted(config.senders) /\ WellFormed(config.route)
    /\ \A i \in DOMAIN config.route :
         (\A j \in DOMAIN config.route : config.route[j].to # config.route[i].from)
           => config.route[i].channel \in Range(config.senders)

\* The nodes, channels, hints and the order of the edges of a node are kept,
\* under a numbering in which every edge leads forward.
NumberedForward ==
  \E name \in [DOMAIN route -> Names(config.route)] :
    /\ \A n \in Names(config.route) : \E p \in DOMAIN route : name[p] = n
    /\ \A p \in DOMAIN route :
         LET written == OutEdges(config.route, name[p])
         IN  /\ Len(route[p]) = Len(written)
             /\ \A i \in DOMAIN written :
                  LET e == written[i]
                      f == route[p][i]
                  IN  /\ f.next > p
                      /\ PlannerEdge(f.channel, name[f.next], f.capacity, f.latency)
                           = PlannerEdge(e.channel, e.to, e.capacity, e.latency)

\* What build_route and route_graph promise the planner: a configured graph is
\* accepted exactly if it is a route from one node to one node without a
\* cycle, starting with local channels, and the planner gets that graph, in
\* an order in which packets only move forward; without a configured graph
\* every local channel leads to the destination.  Nothing is said of a graph
\* in which a node uses a channel twice: the design forbids it, build_route
\* accepts it like any other, and the planner takes the wrong edge for it.
GraphIsConfig ==
  [][phase' # phase =>
       IF config.given
       THEN UniqueChannels(config.route) =>
              AcceptedAsConfigured' /\ (phase' = "running" => NumberedForward')
       ELSE phase' = "running" =>
              {route'[1][i].channel : i \in DOMAIN route'[1]} = Range(config.senders)]_startVars
=============================================================================
