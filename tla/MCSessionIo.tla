---------------------------- MODULE MCSessionIo ----------------------------
(* Small instances of SessionIo: all bounds are in the configurations.     *)
EXTENDS SessionIo
=============================================================================
