------------------------------- MODULE MCBag -------------------------------
(* Two items of different chefs; $5.00 is a tie of Stripe's fee.             *)
EXTENDS Bag

CONSTANTS i1, i2, chefA, chefB, a1, a2, k1, k2, p1

Items == {i1, i2}
Chefs == [i \in {i1, i2} |-> IF i = i1 THEN chefA ELSE chefB]
Prices == [i \in {i1, i2} |-> IF i = i1 THEN 500 ELSE 1245]
TwoAdds == {a1, a2}
TwoClears == {k1, k2}
OnePlace == {p1}

\* Beside the adds, one clear and an order, or two clears, or one clear and requests
\* that fail, and then single pieces are added.
CallsNext ==
    /\ Next
    /\ clear'[k2].pc = "idle" \/ place'[p1].pc = "idle"
    /\ failed' = {} \/ /\ clear'[k2].pc = "idle" /\ place'[p1].pc = "idle"
                       /\ \A a \in AddCall : add'[a].quantity = 1
CallsSpec == Init /\ [][CallsNext]_vars /\ Fairness
=============================================================================
