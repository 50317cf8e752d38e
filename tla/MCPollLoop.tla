----------------------------- MODULE MCPollLoop -----------------------------
(* A small instance of PollLoop: all bounds are given in the configuration. *)
EXTENDS PollLoop
=============================================================================
