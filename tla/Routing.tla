------------------------------- MODULE Routing -------------------------------
(***************************************************************************)
(* An endpoint starts with one of several configurations and, if the       *)
(* start-up accepts it, plans its packets over the graph.  Plans are       *)
(* explored for the configuration whose graph is Graph.                    *)
(***************************************************************************)
EXTENDS RoutePlanner, RouteConfig

RoutingInit == StartInit /\ PlannerInit

Plan == phase = "running" /\ route = Graph /\ PlannerNext /\ UNCHANGED startVars

RoutingNext == (Start /\ UNCHANGED plannerVars) \/ Plan

RoutingSpec == RoutingInit /\ [][RoutingNext]_<<startVars, plannerVars>>
=============================================================================
