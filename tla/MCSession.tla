------------------------------ MODULE MCSession ------------------------------
(* Small instances of Session.  The client's window of one segment keeps a  *)
(* Close aside until its Open is acknowledged; the server's of two lets     *)
(* Data and Close overtake each other.                                      *)
EXTENDS Session

MCSendWindow == [client |-> 1, server |-> 2]
=============================================================================
