------------------------------- MODULE MCRelay -------------------------------
(* Two relays and an exit.  The endpoint's graph names r1 twice, so that a   *)
(* plan leads over r2 back to r1, and believes that r1 has channel 5.        *)
EXTENDS Relay

\* 1: to r1, 2: r1 to r2, 3: r2 to r1, 4: r1 to the exit, 5: r2 to the exit.
MCTo == <<"r1", "r2", "r1", "exit", "exit">>
MCLocal == [r1 |-> {2, 4}, r2 |-> {3, 5}]

Edge(channel, next) == [channel |-> channel, next |-> next]
MCGraph ==
  << <<Edge(1, 2)>>,
     <<Edge(2, 3), Edge(4, 5), Edge(5, 5)>>,
     <<Edge(5, 5), Edge(3, 4)>>,
     <<Edge(4, 5)>>,
     <<>> >>

\* r1 may use more than the entry, up to MaxPacket; r2 as much or too little.
MCMtus == {[r1 |-> 20, r2 |-> 16], [r1 |-> 17, r2 |-> 11]}

\* Two senders: a packet of one makes a relay give up the expired window of the other.
MCStamps == {[time |-> 3, id |-> 1, no |-> 0], [time |-> 2, id |-> 2, no |-> 1]}
=============================================================================
