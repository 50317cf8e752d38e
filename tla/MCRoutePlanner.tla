--------------------------- MODULE MCRoutePlanner ---------------------------
(* Main: a graph with parallel channels, a shared downstream edge and a      *)
(* detour: two channels to a relay, a third over another relay, and one edge *)
(* between the relays, written in an order that is not topological.  Around  *)
(* it every list of up to three edges over three names, with one pair of     *)
(* parallel channels, local channels that are missing or given twice, and no *)
(* route at all.                                                             *)
EXTENDS Routing

E(from, to, channel, capacity, latency) ==
  [from |-> from, to |-> to, channel |-> channel, capacity |-> capacity, latency |-> latency]

Main ==
  << E("r", "d", 9, 2, 1), E("e", "q", 1, 4, 2), E("e", "q", 2, 2, 1), E("q", "r", 7, 4, 1),
     E("e", "r", 3, 1, 4), E("q", "d", 8, 2, 3) >>

\* The graph built from Main (Plan is enabled for no other).
P(channel, next, capacity, latency) ==
  [channel |-> channel, next |-> next, capacity |-> capacity, latency |-> latency]

MCGraph ==
  << <<P(1, 2, 4, 2), P(2, 2, 2, 1), P(3, 3, 1, 4)>>,
     <<P(7, 3, 4, 1), P(8, 4, 2, 3)>>,
     <<P(9, 4, 2, 1)>>,
     <<>> >>

Hop(from, to) == E(from, to, IF to = "a" THEN 1 ELSE IF to = "b" THEN 2 ELSE 3, 0, 0)
Small ==
  LET hops == {Hop(x, y) : x \in {"a", "b", "c"}, y \in {"a", "b", "c"}}
                \cup {E("a", "b", 4, 0, 0)}
  IN  UNION {[1..k -> hops] : k \in 0..3}

Given(senders, list) == [senders |-> senders, given |-> TRUE, route |-> list]

MCConfigs ==
  {Given(<<1, 2, 3>>, Main), Given(<<1, 3>>, Main), Given(<<1, 2, 3, 2>>, Main)}
    \cup {Given(<<2, 3, 4>>, list) : list \in Small}
    \cup {[senders |-> s, given |-> FALSE, route |-> <<>>] : s \in {<<>>, <<2>>, <<2, 1>>, <<1, 1>>}}
=============================================================================
