---------------------------- MODULE MCForwardOut ----------------------------
(* A node with one reverse channel: all bounds are in the configuration.    *)
EXTENDS ReverseUdp
=============================================================================
