------------------------------- MODULE Stream -------------------------------
(***************************************************************************)
(* The abstract reliable stream a KCP session is meant to be: what one     *)
(* side reads is a growing prefix of what the other has written, extended  *)
(* by whole messages.  A message is a run of fragments; `last' marks its   *)
(* final one.                                                              *)
(***************************************************************************)
EXTENDS Naturals, Sequences, SequencesExt

VARIABLES sent, received

Init == sent = <<>> /\ received = <<>>

\* A message is appended to the stream.
Write ==
  /\ IsStrictPrefix(sent, sent')
  /\ sent'[Len(sent')].last
  /\ received' = received

\* Whole messages are read at the other side.
Deliver ==
  /\ IsStrictPrefix(received, received')
  /\ IsPrefix(received', sent)
  /\ received'[Len(received')].last
  /\ sent' = sent

Next == Write \/ Deliver

Spec == Init /\ [][Next]_<<sent, received>>
=============================================================================
