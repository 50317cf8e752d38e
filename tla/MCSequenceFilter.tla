-------------------------- MODULE MCSequenceFilter --------------------------
(* A small instance of SequenceFilter: two senders whose packets span two    *)
(* windows, and a clock that crosses the wrap of the time stamp.             *)
EXTENDS SequenceFilter

CONSTANTS s1, s2

MCSeqIds == {s1, s2}

\* Each sender numbers its packets upwards while its clock runs; s2 is the
\* later incarnation, two windows are never filled by the same packets.
MCPackets ==
  {[id |-> s1, no |-> n, time |-> First + (n \div 2)] : n \in {0, 1, 2, 3, 5, 7, 8}}
    \cup {[id |-> s2, no |-> n, time |-> First + 1 + n] : n \in {0, 1, 5}}
=============================================================================
