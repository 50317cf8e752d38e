-------------------------------- MODULE MCKcp --------------------------------
(* Small instances of Kcp: all bounds are given in the configurations.       *)
EXTENDS Kcp
=============================================================================
