----------------------------- MODULE MCTriggers -----------------------------
(* One account and one id are enough: the pattern never matches. *)
EXTENDS Triggers

CONSTANTS u1, d1

OneUser == {u1}
OneId == {d1}
=============================================================================
