-------------------------- MODULE MCForwardChannels --------------------------
(* A node with several channels: all bounds are in the configuration.       *)
EXTENDS ForwardOut
=============================================================================
