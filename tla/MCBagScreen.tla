---------------------------- MODULE MCBagScreen ----------------------------
(* Two dishes of two chefs; one addition and two orders.                   *)
EXTENDS BagScreen

CONSTANTS i1, i2, chefA, chefB, a1, p1, p2

Items == {i1, i2}
Chefs == [i \in {i1, i2} |-> IF i = i1 THEN chefA ELSE chefB]
OneAdd == {a1}
TwoPlaces == {p1, p2}

\* The dishes may change places, so one of them is chosen first.  Orders are placed;
\* or the bag is cleared or changed elsewhere; or listeners fail, and the bag is
\* opened again.
ScreenInit == Init /\ chosen = i1
ScreenNext ==
    /\ Next
    /\ \/ extra' = {} /\ ~ended'
       \/ \A p \in PlaceCall : places'[p].pc = "idle"
    /\ ended' => extra' \subseteq {"open"}
ScreenSpec == ScreenInit /\ [][ScreenNext]_vars /\ Fairness
=============================================================================
