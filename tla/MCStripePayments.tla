-------------------------- MODULE MCStripePayments --------------------------
(* Two payments, and the constants the runs share: the cfg files choose the *)
(* accounts, the faults and how often events are delivered.                 *)
EXTENDS StripePayments

CONSTANTS u1, u2, c1, c2, x1, x2

OneUser == {u1}
TwoUsers == {u1, u2}
TwoCustomers == {c1, c2}
OnePush == {x1}
TwoPushes == {x1, x2}
ByFirst == [x \in {x1} |-> u1]
ByBoth == [x \in {x1, x2} |-> IF x = x1 THEN u1 ELSE u2]
=============================================================================
