----------------------------- MODULE MCFeedback -----------------------------
(* Of two endpoints one sends session data and no keepalives, the other      *)
(* keepalives only; two packets of its own let a chain of replies go one     *)
(* further than allowed.                                                     *)
EXTENDS Feedback

MCKeepTicks == [A |-> 0, B |-> 2]
MCMaxNo == [A |-> 4, B |-> 2]
=============================================================================
