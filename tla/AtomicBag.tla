----------------------------- MODULE AtomicBag -----------------------------
(***************************************************************************)
(* What the bag promises to whoever uses it: an item is added in one step, *)
(* to the order and to its line together, with the fees computed from the  *)
(* order as it is at that step, and no addition overwrites another.        *)
(* Removing is not promised to be one step: lines and order go one by one. *)
(*                                                                         *)
(* Bag implements it.                                                      *)
(***************************************************************************)
EXTENDS Fees

CONSTANTS Item,         \* menu items
          ChefOf,       \* the chef who offers an item
          Price,        \* the price of an item, in cents
          MaxQuantity,  \* the most pieces one call adds
          NoChef        \* not a chef

ASSUME PriceType == Price \in [Item -> Nat]
ASSUME QuantityType == MaxQuantity \in Nat \ {0}
ASSUME NoChefType == \A i \in Item : ChefOf[i] # NoChef

VARIABLES order,  \* the document customers/{uid}/orders/{bag}
          items   \* its collection "items"

bagVars == <<order, items>>

Quantity == 1 .. MaxQuantity

\* A document that is not there: an order with no provider, an item with no pieces.
NoOrder == [provider |-> NoChef, subtotal |-> 0, serviceFee |-> 0, deliveryFee |-> 0,
            total |-> 0, quantity |-> 0]
NoItem == [total |-> 0, quantity |-> 0]

Exists(document) == document.quantity > 0

Cost(i, q) == Price[i] * q

\* A slip: an update adds up the delivery fees.
OrdersWithDeliveries(o, i, q) ==
    {[provider |-> IF Exists(o) THEN o.provider ELSE ChefOf[i],
      subtotal |-> fee.subtotal, serviceFee |-> fee.serviceFee,
      deliveryFee |-> o.deliveryFee + fee.deliveryFee, total |-> fee.total,
      quantity |-> o.quantity + q] : fee \in ServiceFee(Cost(i, q) + o.total)}

\* The order after an addition: updated on top of its own total, or new.  An
\* update leaves the provider and the delivery fee of the order as they are.
OrdersAfter(o, i, q) ==
    {[provider |-> IF Exists(o) THEN o.provider ELSE ChefOf[i],
      subtotal |-> fee.subtotal,
      serviceFee |-> fee.serviceFee,
      deliveryFee |-> IF Exists(o) THEN o.deliveryFee ELSE fee.deliveryFee,
      total |-> fee.total,
      quantity |-> o.quantity + q] : fee \in ServiceFee(Cost(i, q) + o.total)}

ItemAfter(line, i, q) ==
    [total |-> line.total + Cost(i, q), quantity |-> line.quantity + q]

Order == [provider : {NoChef} \cup {ChefOf[i] : i \in Item}, subtotal : Nat,
          serviceFee : Nat, deliveryFee : Nat, total : Nat, quantity : Nat]

BagTypeOK ==
    /\ order \in Order
    /\ items \in [Item -> [total : Nat, quantity : Nat]]

BagInit ==
    /\ order = NoOrder
    /\ items = [i \in Item |-> NoItem]

AddItem(i, q) ==
    /\ order' \in OrdersAfter(order, i, q)
    /\ items' = [items EXCEPT ![i] = ItemAfter(@, i, q)]

RemoveItem(i) ==
    /\ items' = [items EXCEPT ![i] = NoItem]
    /\ UNCHANGED order

RemoveOrder ==
    /\ order' = NoOrder
    /\ UNCHANGED items

BagNext ==
    \/ \E i \in Item, q \in Quantity : AddItem(i, q)
    \/ \E i \in Item : RemoveItem(i)
    \/ RemoveOrder

BagSpec == BagInit /\ [][BagNext]_bagVars
=============================================================================
