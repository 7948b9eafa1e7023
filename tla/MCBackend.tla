----------------------------- MODULE MCBackend -----------------------------
(* One account, one payment and one payment method. *)
EXTENDS Backend

CONSTANTS u1, c1, c2, x1, m1

OneUser == {u1}
TwoCustomers == {c1, c2}
OnePush == {x1}
OneMethod == {m1}
ByFirst == [x \in {x1} |-> u1]
First == [m \in {m1} |-> u1]
=============================================================================
