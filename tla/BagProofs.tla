----------------------------- MODULE BagProofs -----------------------------
(***************************************************************************)
(* Bounds of the fees and what adding to a bag in several steps costs; the *)
(* bag keeps its types and its total, and Bag implements AtomicBag.        *)
(***************************************************************************)
EXTENDS Bag, FiniteSetTheorems, TLAPS

\* Each fee is a natural number within half a cent of its exact value.
LEMMA StripeFeeBounds ==
    ASSUME NEW s \in Nat, NEW f \in StripeFee(s)
    PROVE  /\ f \in Nat
           /\ 1000 * f <= 29 * s + 30500
           /\ 1000 * f >= 29 * s + 29500
BY DEF StripeFee, Rounded

LEMMA PlatformFeeBounds ==
    ASSUME NEW s \in Nat, NEW f \in PlatformFee(s)
    PROVE  /\ f \in Nat
           /\ 10 * f <= s + 5
           /\ 10 * f >= s - 5
BY DEF PlatformFee, Rounded

\* All the amounts of a fee record are natural numbers.
LEMMA ServiceFeeType ==
    ASSUME NEW s \in Nat, NEW fee \in ServiceFee(s)
    PROVE  fee \in [subtotal : Nat, stripeFee : Nat, platformFee : Nat, serviceFee : Nat,
                    deliveryFee : Nat, total : Nat]
<1>1. PICK f \in StripeFee(s), p \in PlatformFee(s) :
        fee = [subtotal |-> s, stripeFee |-> f, platformFee |-> p, serviceFee |-> f + p,
               deliveryFee |-> DeliveryFee, total |-> s + f + p + DeliveryFee]
  BY DEF ServiceFee
<1>2. f \in Nat /\ p \in Nat
  BY StripeFeeBounds, PlatformFeeBounds
<1> QED
  BY <1>1, <1>2 DEF DeliveryFee

\* The total of a fee record.
LEMMA TotalOfFee ==
    ASSUME NEW s \in Nat, NEW fee \in ServiceFee(s)
    PROVE  /\ fee.total \in Nat
           /\ 1000 * fee.total <= 1129 * s + 61000
           /\ 1000 * fee.total >= 1129 * s + 59000
           /\ fee.total >= s + 60
<1>1. PICK f \in StripeFee(s), p \in PlatformFee(s) :
        fee = [subtotal |-> s, stripeFee |-> f, platformFee |-> p, serviceFee |-> f + p,
               deliveryFee |-> DeliveryFee, total |-> s + f + p + DeliveryFee]
  BY DEF ServiceFee
<1>2. /\ f \in Nat /\ 1000 * f <= 29 * s + 30500 /\ 1000 * f >= 29 * s + 29500
  BY StripeFeeBounds
<1>3. /\ p \in Nat /\ 10 * p <= s + 5 /\ 10 * p >= s - 5
  BY PlatformFeeBounds
<1>4. fee.total = s + f + p + 30
  BY <1>1 DEF DeliveryFee
<1> QED
  BY <1>2, <1>3, <1>4

\* Filling a bag in two additions costs at least 65 cents more than in one, for any
\* two amounts and whichever way ties are rounded: the second addition computes its
\* fees on a subtotal that contains the fees and the delivery of the first
\* (DataService.swift:260, Extension.swift:36-46).
THEOREM SplittingCostsMore ==
    ASSUME NEW a \in Nat, NEW b \in Nat, NEW first \in ServiceFee(a),
           NEW second \in ServiceFee(b + first.total), NEW whole \in ServiceFee(a + b)
    PROVE  second.total >= whole.total + 65
<1>1. first.total \in Nat /\ first.total >= a + 60
  BY TotalOfFee
<1>2. second.total \in Nat /\ 1000 * second.total >= 1129 * (b + first.total) + 59000
  BY <1>1, TotalOfFee
<1>3. whole.total \in Nat /\ 1000 * whole.total <= 1129 * (a + b) + 61000
  BY TotalOfFee
<1> QED
  BY <1>1, <1>2, <1>3

-----------------------------------------------------------------------------
(* The bag.                                                                *)

\* What a fee record adds up to.
LEMMA FeeAddsUp ==
    ASSUME NEW s \in Nat, NEW fee \in ServiceFee(s)
    PROVE  /\ fee.subtotal = s
           /\ fee.deliveryFee = DeliveryFee
           /\ fee.total = fee.subtotal + fee.serviceFee + fee.deliveryFee
<1>1. PICK f \in StripeFee(s), p \in PlatformFee(s) :
        fee = [subtotal |-> s, stripeFee |-> f, platformFee |-> p, serviceFee |-> f + p,
               deliveryFee |-> DeliveryFee, total |-> s + f + p + DeliveryFee]
  BY DEF ServiceFee
<1>2. f \in Nat /\ p \in Nat
  BY StripeFeeBounds, PlatformFeeBounds
<1> QED
  BY <1>1, <1>2 DEF DeliveryFee

LEMMA CostIsNat ==
    ASSUME NEW i \in Item, NEW q \in Quantity
    PROVE  Cost(i, q) \in Nat
<1>1. Price[i] \in Nat /\ q \in Nat
  BY PriceType, QuantityType DEF Quantity
<1> QED
  BY <1>1 DEF Cost

\* An order that is there has the one delivery fee and a total that is the sum of
\* its parts; one that is not is empty.
OrderAddsUp(o) ==
    \/ o = NoOrder
    \/ /\ Exists(o)
       /\ o.deliveryFee = DeliveryFee
       /\ o.total = o.subtotal + o.serviceFee + o.deliveryFee

\* Adding to an order gives an order, with a total that is the sum of its parts if
\* the one before had.
LEMMA OrdersAfterType ==
    ASSUME NEW o \in Order, NEW i \in Item, NEW q \in Quantity,
           NEW p \in OrdersAfter(o, i, q)
    PROVE  p \in Order /\ (OrderAddsUp(o) => OrderAddsUp(p))
<1>1. Cost(i, q) + o.total \in Nat
  BY CostIsNat DEF Order
<1>2. PICK fee \in ServiceFee(Cost(i, q) + o.total) :
        p = [provider |-> IF Exists(o) THEN o.provider ELSE ChefOf[i],
             subtotal |-> fee.subtotal, serviceFee |-> fee.serviceFee,
             deliveryFee |-> IF Exists(o) THEN o.deliveryFee ELSE fee.deliveryFee,
             total |-> fee.total, quantity |-> o.quantity + q]
  BY DEF OrdersAfter
<1>3. fee \in [subtotal : Nat, stripeFee : Nat, platformFee : Nat, serviceFee : Nat,
               deliveryFee : Nat, total : Nat]
  BY <1>1, ServiceFeeType
<1>4. /\ fee.deliveryFee = DeliveryFee
      /\ fee.total = fee.subtotal + fee.serviceFee + fee.deliveryFee
  BY <1>1, FeeAddsUp
<1>5. q \in Nat /\ q > 0 /\ o.quantity \in Nat
  BY QuantityType DEF Quantity, Order
<1>6. p \in Order
  BY <1>2, <1>3, <1>5 DEF Order
<1>7. OrderAddsUp(o) => OrderAddsUp(p)
  <2> SUFFICES ASSUME OrderAddsUp(o) PROVE OrderAddsUp(p)
    OBVIOUS
  <2>1. p.deliveryFee = DeliveryFee
    BY <1>2, <1>4 DEF OrderAddsUp, NoOrder, Exists
  <2>2. p.total = p.subtotal + p.serviceFee + p.deliveryFee
    BY <1>2, <1>4, <2>1
  <2>3. Exists(p)
    BY <1>2, <1>5 DEF Exists
  <2> QED
    BY <2>1, <2>2, <2>3 DEF OrderAddsUp
<1> QED
  BY <1>6, <1>7

LEMMA NoDocumentsTyped == NoOrder \in Order /\ NoItem \in ItemDoc
BY DEF NoOrder, NoItem, Order, ItemDoc

LEMMA ItemAfterType ==
    ASSUME NEW line \in ItemDoc, NEW i \in Item, NEW q \in Quantity
    PROVE  ItemAfter(line, i, q) \in ItemDoc
<1>1. Cost(i, q) \in Nat /\ q \in Nat
  BY CostIsNat, QuantityType DEF Quantity
<1> QED
  BY <1>1 DEF ItemAfter, ItemDoc

-----------------------------------------------------------------------------
(* The invariant, action by action                                          *)

BagInv == TypeOK /\ OrderAddsUp(order)

LEMMA BagStarts == Init => BagInv
<1> SUFFICES ASSUME Init PROVE BagInv
  OBVIOUS
<1>1. OrderAddsUp(order) /\ BagTypeOK
  BY NoDocumentsTyped DEF Init, BagInit, OrderAddsUp, BagTypeOK, ItemDoc
<1>2. add \in [AddCall -> AddState]
  BY NoDocumentsTyped, QuantityType, RetriesType DEF Init, AddState, Quantity, OrderDoc
<1> QED
  BY <1>1, <1>2 DEF Init, BagInv, TypeOK, ClearState, PlaceState, NoPayment

\* A step of an add that leaves the bag alone keeps the invariant.
LEMMA AddKeepsInv ==
    ASSUME BagInv, NEW a \in AddCall,
           UNCHANGED <<bagVars, clear, place, payments, mixed>>,
           failed' \in SUBSET {"add", "clear"}, add' \in [AddCall -> AddState]
    PROVE  BagInv'
BY DEF BagInv, TypeOK, BagTypeOK, bagVars, OrderAddsUp

LEMMA RetryTyped ==
    ASSUME BagInv, NEW a \in AddCall, RetryOrFail(a) \/ Fail(a) \/ Succeed(a)
    PROVE  add' \in [AddCall -> AddState]
<1>1. add \in [AddCall -> AddState] /\ add[a] \in AddState
  BY DEF BagInv, TypeOK
<1>2. add[a].left > 0 => add[a].left - 1 \in 0 .. Retries
  BY <1>1, RetriesType DEF AddState
<1> QED
  BY <1>1, <1>2 DEF RetryOrFail, Fail, Succeed, AddState

LEMMA CommitKeepsInv ==
    ASSUME BagInv, NEW a \in AddCall, Commit(a)
    PROVE  /\ BagInv'
           /\ AddItem(add[a].item, add[a].quantity)
           /\ add[a].item \in Item /\ add[a].quantity \in Quantity
<1> DEFINE i == add[a].item
           q == add[a].quantity
<1>1. add[a] \in AddState /\ i \in Item /\ q \in Quantity
  BY DEF BagInv, TypeOK, AddState
<1>2. order \in Order /\ items \in [Item -> ItemDoc] /\ OrderAddsUp(order)
  BY DEF BagInv, TypeOK, BagTypeOK, ItemDoc
<1>3. /\ order' \in OrdersAfter(order, i, q)
      /\ items' = [items EXCEPT ![i] = ItemAfter(items[i], i, q)]
  BY DEF Commit, ReadsAreCurrent
<1>4. order' \in Order /\ OrderAddsUp(order)'
  <2>1. order' \in Order /\ (OrderAddsUp(order) => OrderAddsUp(order'))
    BY <1>1, <1>2, <1>3, OrdersAfterType
  <2> QED
    BY <1>2, <2>1 DEF OrderAddsUp, Exists, NoOrder
<1>5. items' \in [Item -> ItemDoc]
  <2>1. ItemAfter(items[i], i, q) \in ItemDoc
    BY <1>1, <1>2, ItemAfterType
  <2> QED
    BY <1>2, <1>3, <2>1
<1>6. add' \in [AddCall -> AddState]
  BY RetryTyped DEF Commit
<1>7. mixed' \in BOOLEAN /\ failed' \in SUBSET {"add", "clear"}
  BY DEF Commit, BagInv, TypeOK
<1>8. BagInv'
  BY <1>4, <1>5, <1>6, <1>7 DEF BagInv, TypeOK, BagTypeOK, Commit, ItemDoc
<1>9. AddItem(i, q)
  BY <1>3 DEF AddItem
<1> QED
  BY <1>1, <1>8, <1>9

LEMMA AddStepKeepsInv ==
    ASSUME BagInv, NEW a \in AddCall,
           (\E q \in Quantity : StartAdd(a, q)) \/ AddItemToOrder(a)
    PROVE  BagInv'
<1>1. add \in [AddCall -> AddState] /\ add[a] \in AddState
  BY DEF BagInv, TypeOK
<1>2. order \in OrderDoc /\ items \in [Item -> ItemDoc]
  BY DEF BagInv, TypeOK, BagTypeOK, ItemDoc, OrderDoc
<1>3. failed' \in SUBSET {"add", "clear"}
  BY DEF BagInv, TypeOK, StartAdd, AddItemToOrder, ReadOrder, ReadItem, Commit, CommitRefused,
         ReadFails
<1>4. CASE \E q \in Quantity : StartAdd(a, q)
  <2>1. PICK q \in Quantity : StartAdd(a, q)
    BY <1>4
  <2>2. /\ [add[a] EXCEPT !.pc = "readOrder", !.quantity = q] \in AddState
        /\ [add[a] EXCEPT !.pc = "silent"] \in AddState
    BY <1>1, <2>1 DEF AddState
  <2>3. \/ add' = [add EXCEPT ![a] = [add[a] EXCEPT !.pc = "readOrder", !.quantity = q]]
        \/ add' = [add EXCEPT ![a] = [add[a] EXCEPT !.pc = "silent"]]
    BY <1>1, <2>1 DEF StartAdd
  <2>4. add' \in [AddCall -> AddState]
    BY <1>1, <2>2, <2>3
  <2> QED
    BY <2>1, <2>4, <1>3, AddKeepsInv DEF StartAdd
<1>5. CASE ReadOrder(a)
  <2>1. add' \in [AddCall -> AddState]
    BY <1>1, <1>2, <1>5 DEF ReadOrder, AddState
  <2> QED
    BY <1>5, <2>1, <1>3, AddKeepsInv DEF ReadOrder
<1>6. CASE ReadItem(a)
  <2>1. items[add[a].item] \in ItemDoc
    BY <1>1, <1>2 DEF AddState
  <2>2. add' \in [AddCall -> AddState]
    BY <1>1, <1>6, <2>1 DEF ReadItem, AddState
  <2> QED
    BY <1>6, <2>2, <1>3, AddKeepsInv DEF ReadItem
<1>7. CASE Commit(a)
  BY <1>7, CommitKeepsInv
<1>8. CASE CommitRefused(a)
  <2>1. add' \in [AddCall -> AddState]
    BY <1>8, RetryTyped DEF CommitRefused
  <2> QED
    BY <1>8, <2>1, <1>3, AddKeepsInv DEF CommitRefused
<1>9. CASE ReadFails(a)
  <2>1. CASE Fail(a)
    <3>1. add' \in [AddCall -> AddState]
      BY <2>1, RetryTyped
    <3> QED
      BY <1>9, <3>1, <1>3, AddKeepsInv DEF ReadFails
  <2>2. CASE ~Fail(a)
    <3>1. add[a].left > 0 /\ add[a].left - 1 \in 0 .. Retries
      BY <1>1, <1>9, <2>2, RetriesType DEF ReadFails, AddState
    <3>2. add' \in [AddCall -> AddState]
      BY <1>1, <1>9, <2>2, <3>1 DEF ReadFails, AddState
    <3> QED
      BY <1>9, <3>2, <1>3, AddKeepsInv DEF ReadFails
  <2> QED
    BY <2>1, <2>2
<1> QED
  BY <1>4, <1>5, <1>6, <1>7, <1>8, <1>9 DEF AddItemToOrder

LEMMA ClearStepKeepsInv ==
    ASSUME BagInv, NEW k \in ClearCall, StartClear(k) \/ ClearOrder(k)
    PROVE  BagInv' /\ [BagNext]_bagVars
<1>1. clear \in [ClearCall -> ClearState] /\ clear[k] \in ClearState
  BY DEF BagInv, TypeOK
<1>2. CASE StartClear(k) \/ ListItems(k)
  <2>1. clear' \in [ClearCall -> ClearState]
    BY <1>1, <1>2 DEF StartClear, ListItems, ClearGoto, ClearState
  <2> QED
    BY <1>2, <2>1 DEF StartClear, ListItems, BagInv, TypeOK, BagTypeOK, bagVars, OrderAddsUp
<1>3. CASE DeleteItem(k)
  <2>1. PICK i \in clear[k].listed :
          /\ clear' = [clear EXCEPT ![k].listed = @ \ {i}]
          /\ items' = [items EXCEPT ![i] = NoItem] \/ UNCHANGED items
    BY <1>3 DEF DeleteItem
  <2>2. i \in Item /\ clear' \in [ClearCall -> ClearState]
    BY <1>1, <2>1 DEF ClearState
  <2>3. items \in [Item -> ItemDoc] /\ items' \in [Item -> ItemDoc]
    BY <2>1, NoDocumentsTyped DEF BagInv, TypeOK, BagTypeOK, ItemDoc
  <2>4. BagInv'
    BY <1>3, <2>2, <2>3 DEF DeleteItem, BagInv, TypeOK, BagTypeOK, OrderAddsUp, ItemDoc
  <2>5. RemoveItem(i) \/ UNCHANGED bagVars
    BY <1>3, <2>1 DEF DeleteItem, RemoveItem, bagVars
  <2> QED
    BY <2>2, <2>4, <2>5 DEF BagNext
<1>4. CASE DeleteOrder(k)
  <2>1. clear' \in [ClearCall -> ClearState]
    BY <1>1, <1>4 DEF DeleteOrder, ClearGoto, ClearState
  <2>2. order' = NoOrder \/ order' = order
    BY <1>4 DEF DeleteOrder
  <2>3. order' \in Order /\ OrderAddsUp(order)'
    BY <2>2, NoDocumentsTyped DEF BagInv, TypeOK, BagTypeOK, OrderAddsUp
  <2>4. BagInv'
    BY <1>4, <2>1, <2>3 DEF DeleteOrder, BagInv, TypeOK, BagTypeOK
  <2> QED
    BY <1>4, <2>2, <2>4 DEF DeleteOrder, BagNext, RemoveOrder, bagVars
<1> QED
  BY <1>2, <1>3, <1>4 DEF ClearOrder

LEMMA PlaceStepKeepsInv ==
    ASSUME BagInv, NEW p \in PlaceCall, StartPlace(p) \/ PlaceOrder(p)
    PROVE  BagInv' /\ UNCHANGED bagVars
<1>1. place \in [PlaceCall -> PlaceState] /\ place[p] \in PlaceState
  BY DEF BagInv, TypeOK
<1>2. order \in Order
  BY DEF BagInv, TypeOK, BagTypeOK
<1>3. UNCHANGED <<bagVars, add, clear, mixed, failed>>
  BY DEF StartPlace, PlaceOrder, ReadBag, CreateToken, WritePayment
<1>4. place' \in [PlaceCall -> PlaceState]
  <2>1. CASE StartPlace(p)
    BY <1>1, <1>2, <2>1 DEF StartPlace, PlaceState, Order
  <2>2. CASE ReadBag(p)
    BY <1>1, <1>2, <2>2 DEF ReadBag, PlaceGoto, PlaceState, Order
  <2>3. CASE CreateToken(p) \/ WritePayment(p)
    BY <1>1, <2>3 DEF CreateToken, WritePayment, PlaceGoto, PlaceState
  <2> QED
    BY <2>1, <2>2, <2>3 DEF PlaceOrder
<1>5. payments' \in [PlaceCall ->
            [destination : {NoChef} \cup {ChefOf[i] : i \in Item}, subtotal : Nat, total : Nat]]
  BY <1>1 DEF BagInv, TypeOK, StartPlace, PlaceOrder, ReadBag, CreateToken, WritePayment, PlaceState
<1> QED
  BY <1>3, <1>4, <1>5 DEF BagInv, TypeOK, BagTypeOK, OrderAddsUp, bagVars

-----------------------------------------------------------------------------
(* The theorems                                                             *)

\* Every step keeps the invariant and is a step of AtomicBag or leaves its
\* variables alone.
LEMMA BagStep ==
    ASSUME BagInv, [Next]_vars
    PROVE  BagInv' /\ [BagNext]_bagVars
<1>1. CASE \E a \in AddCall : (\E q \in Quantity : StartAdd(a, q)) \/ AddItemToOrder(a)
  <2>1. PICK a \in AddCall : (\E q \in Quantity : StartAdd(a, q)) \/ AddItemToOrder(a)
    BY <1>1
  <2>2. BagInv'
    BY <2>1, AddStepKeepsInv
  <2>3. CASE Commit(a)
    BY <2>3, CommitKeepsInv DEF BagNext
  <2>4. CASE ~Commit(a)
    <3>1. UNCHANGED bagVars
      BY <2>1, <2>4 DEF AddItemToOrder, StartAdd, ReadOrder, ReadItem, CommitRefused, ReadFails
    <3> QED
      BY <2>2, <3>1
  <2> QED
    BY <2>3, <2>4
<1>2. CASE \E k \in ClearCall : StartClear(k) \/ ClearOrder(k)
  BY <1>2, ClearStepKeepsInv
<1>3. CASE \E p \in PlaceCall : StartPlace(p) \/ PlaceOrder(p)
  BY <1>3, PlaceStepKeepsInv
<1>4. CASE UNCHANGED vars
  BY <1>4 DEF vars, calls, bagVars, BagInv, TypeOK, BagTypeOK, OrderAddsUp
<1> QED
  BY <1>1, <1>2, <1>3, <1>4 DEF Next

LEMMA BagInvariant == Spec => []BagInv
<1>1. BagInv /\ [Next]_vars => BagInv'
  BY BagStep
<1> QED
  BY <1>1, BagStarts, PTL DEF Spec

\* The documents and the calls keep their types.
THEOREM BagTypeCorrect == Spec => []TypeOK
<1>1. BagInv => TypeOK
  BY DEF BagInv
<1> QED
  BY <1>1, BagInvariant, PTL

\* The total of the order is the sum of its subtotal, service fee and delivery fee,
\* whatever calls overlap, for any items, prices and number of calls.
THEOREM TotalAddsUp == Spec => []TotalIsSumOfParts
<1>1. BagInv => TotalIsSumOfParts
  BY DEF BagInv, OrderAddsUp, TotalIsSumOfParts, NoOrder
<1> QED
  BY <1>1, BagInvariant, PTL

\* An addition takes effect in one step, on the order as it is at that step, with
\* conflicts, retries, lost replies and clears around it: Bag implements AtomicBag.
THEOREM BagImplementsAtomicBag == Spec => BagSpec
<1>1. Init => BagInit
  BY DEF Init
<1>2. BagInv /\ [Next]_vars => [BagNext]_bagVars
  BY BagStep
<1> QED
  BY <1>1, <1>2, BagInvariant, PTL DEF Spec, BagSpec

-----------------------------------------------------------------------------
(* Sums over finite sets                                                    *)

First(s) == CHOOSE x \in s : TRUE

\* f adds up q over every subset of S, one element after the other.
AddsUp(f, q, S) ==
    f = [s \in SUBSET S |-> IF s = {} THEN 0 ELSE q[First(s)] + f[s \ {First(s)}]]

LEMMA FirstIsIn == \A s : s # {} => First(s) \in s
BY DEF First

\* What holds of a set whenever it holds of its strict subsets holds of every finite set:
\* among the subsets of a finite set that are in Bad one has no subset in Bad.
LEMMA LeastSubset ==
    ASSUME NEW S, IsFiniteSet(S), NEW Bad \in SUBSET (SUBSET S), Bad # {}
    PROVE  \E s \in Bad : \A t \in SUBSET s : t # s => t \notin Bad
<1>1. FiniteSubsetsOf(S) = SUBSET S
    BY FS_FiniteSubsetsOfFinite
<1>2. IsWellFoundedOn(StrictSubsetOrdering(S), SUBSET S)
    BY <1>1, FS_StrictSubsetOrderingWellFounded
<1>3. PICK s \in Bad : \A t \in Bad : <<t, s>> \notin StrictSubsetOrdering(S)
    BY <1>2, WFMin
<1>4. ASSUME NEW t \in SUBSET s, t # s, t \in Bad PROVE FALSE
    BY <1>3, <1>4 DEF StrictSubsetOrdering
<1>5. QED
    BY <1>4

\* Two such functions agree where both are defined.
LEMMA AddsUpAgree ==
    ASSUME NEW S, IsFiniteSet(S), NEW T, NEW q, NEW r, NEW f, NEW g,
           AddsUp(f, q, S), AddsUp(g, r, T), \A x \in S \cap T : q[x] = r[x]
    PROVE  \A s \in SUBSET (S \cap T) : f[s] = g[s]
<1> DEFINE Bad == {s \in SUBSET (S \cap T) : f[s] # g[s]}
<1> SUFFICES ASSUME Bad # {} PROVE FALSE
    OBVIOUS
<1>0. Bad \in SUBSET (SUBSET (S \cap T))
    OBVIOUS
<1>1. PICK s \in Bad : \A t \in SUBSET s : t # s => t \notin Bad
    <2>1. IsFiniteSet(S \cap T)
        <3>1. S \cap T \in SUBSET S
            OBVIOUS
        <3> QED
            BY <3>1, FS_Subset
    <2> HIDE DEF Bad
    <2> QED
        BY <2>1, <1>0, LeastSubset
<1>2. s \in SUBSET S /\ s \in SUBSET T /\ f[s] # g[s]
    BY <1>1
<1>3. s # {}
    BY <1>2 DEF AddsUp
<1>4. First(s) \in s /\ q[First(s)] = r[First(s)]
    BY <1>2, <1>3, FirstIsIn
<1>5. f[s \ {First(s)}] = g[s \ {First(s)}]
    BY <1>1, <1>2, <1>4
<1>6. /\ f[s] = q[First(s)] + f[s \ {First(s)}]
      /\ g[s] = r[First(s)] + g[s \ {First(s)}]
    BY <1>2, <1>3 DEF AddsUp
<1> QED
    BY <1>2, <1>4, <1>5, <1>6

\* Every natural number is in a set that has 0 and with each number the next one.
LEMMA AllNumbers ==
    ASSUME NEW Good \in SUBSET Nat, 0 \in Good, \A n \in Good : n + 1 \in Good
    PROVE  Good = Nat
<1> DEFINE R == OpToRel(<, Nat)
           Bad == Nat \ Good
<1>1. \A x, y \in Nat : x < y => <<x, y>> \in R
    BY DEF OpToRel
<1>2. IsWellFoundedOn(R, Nat)
    BY NatLessThanWellFounded
<1> SUFFICES ASSUME Bad # {} PROVE FALSE
    OBVIOUS
<1>3. Bad \subseteq Nat
    OBVIOUS
<1> HIDE DEF R, Bad
<1>4. PICK n \in Bad : \A m \in Bad : ~ (<<m, n>> \in R)
    BY <1>2, <1>3, WFMin
<1>5. n \in Nat /\ n \notin Good
    BY <1>4 DEF Bad
<1>6. n # 0 /\ n - 1 \in Nat /\ n - 1 < n /\ (n - 1) + 1 = n
    BY <1>5
<1>7. n - 1 \notin Good
    BY <1>5, <1>6
<1>8. n - 1 \in Bad
    BY <1>6, <1>7 DEF Bad
<1> QED
    BY <1>1, <1>4, <1>5, <1>6, <1>8

\* There is one: it grows from the sets of at most n elements to those of n + 1.
LEMMA AddsUpExists ==
    ASSUME NEW S, IsFiniteSet(S), NEW q
    PROVE  \E f : AddsUp(f, q, S)
<1> DEFINE Upto(n) == {s \in SUBSET S : Cardinality(s) <= n}
           Rest(s) == s \ {First(s)}
           AddsUpto(f, n) == f = [s \in Upto(n) |->
                        IF s = {} THEN 0 ELSE q[First(s)] + f[Rest(s)]]
           Good == {n \in Nat : \E f : AddsUpto(f, n)}
<1>c. \A s \in SUBSET S : /\ IsFiniteSet(s) /\ Cardinality(s) \in Nat
                          /\ Cardinality(s) <= Cardinality(S)
                          /\ s # {} => /\ Rest(s) \in SUBSET S
                                       /\ Cardinality(Rest(s)) = Cardinality(s) - 1
                          /\ Cardinality(s) = 0 <=> s = {}
    <2> SUFFICES ASSUME NEW s \in SUBSET S
                 PROVE  /\ IsFiniteSet(s) /\ Cardinality(s) \in Nat
                        /\ Cardinality(s) <= Cardinality(S)
                        /\ s # {} => /\ Rest(s) \in SUBSET S
                                     /\ Cardinality(Rest(s)) = Cardinality(s) - 1
                        /\ Cardinality(s) = 0 <=> s = {}
        OBVIOUS
    <2>1. IsFiniteSet(s) /\ Cardinality(s) <= Cardinality(S)
        BY FS_Subset
    <2>2. Cardinality(s) \in Nat
        BY <2>1, FS_CardinalityType
    <2>3. s # {} => Cardinality(Rest(s)) = Cardinality(s) - 1
        BY <2>1, FirstIsIn, FS_RemoveElement
    <2>4. Cardinality(s) = 0 <=> s = {}
        BY <2>1, FS_EmptySet
    <2> QED
        BY <2>1, <2>2, <2>3, <2>4
<1>1. 0 \in Good
    <2> DEFINE f == [s \in Upto(0) |-> 0]
    <2>1. ASSUME NEW s \in Upto(0) PROVE s = {}
        <3>1. s \in SUBSET S /\ Cardinality(s) <= 0
            OBVIOUS
        <3>t. Cardinality(s) \in Nat
            BY <1>c, <3>1
        <3>2. Cardinality(s) = 0
            BY <3>t, <3>1
        <3> QED
            BY <1>c, <3>1, <3>2
    <2>2. AddsUpto(f, 0)
        BY <2>1
    <2> QED
        BY <2>2
<1>2. ASSUME NEW n \in Good PROVE n + 1 \in Good
    <2>0. n \in Nat /\ n + 1 \in Nat
        OBVIOUS
    <2>1. PICK f : AddsUpto(f, n)
        OBVIOUS
    <2> DEFINE g == [s \in Upto(n + 1) |-> IF s = {} THEN 0 ELSE q[First(s)] + f[Rest(s)]]
    <2>2. \A s \in Upto(n + 1) : s # {} => Rest(s) \in Upto(n) /\ Rest(s) \in Upto(n + 1)
        BY <1>c, <2>0
    <2>3. ASSUME NEW s \in Upto(n) PROVE s \in Upto(n + 1)
        <3>1. s \in SUBSET S /\ Cardinality(s) <= n
            OBVIOUS
        <3>t. Cardinality(s) \in Nat
            BY <1>c, <3>1
        <3>2. Cardinality(s) <= n + 1
            BY <3>t, <2>0, <3>1
        <3> QED
            BY <3>1, <3>2
    <2>4. \A s \in Upto(n) : g[s] = f[s]
        BY <2>1, <2>3
    <2>5. AddsUpto(g, n + 1)
        BY <2>2, <2>4
    <2> HIDE DEF g, AddsUpto
    <2> QED
        BY <2>0, <2>5
<1>3. Good = Nat
    <2> HIDE DEF Good
    <2>1. Good \in SUBSET Nat
        BY DEF Good
    <2> QED
        BY <1>1, <1>2, <2>1, AllNumbers
<1>4. PICK f : AddsUpto(f, Cardinality(S))
    <2>1. Cardinality(S) \in Good
        BY <1>3, FS_CardinalityType
    <2> HIDE DEF AddsUpto
    <2> QED
        BY <2>1
<1>5. Upto(Cardinality(S)) = SUBSET S
    BY <1>c
<1> QED
    BY <1>4, <1>5 DEF AddsUp

LEMMA PiecesAddUp ==
    ASSUME NEW S, IsFiniteSet(S), NEW q
    PROVE  \E f : AddsUp(f, q, S) /\ Pieces(q, S) = f[S]
<1> DEFINE f == CHOOSE f : AddsUp(f, q, S)
<1>1. AddsUp(f, q, S)
    BY AddsUpExists
<1>2. Pieces(q, S) = f[S]
    BY DEF Pieces, MapThenSumSet, MapThenFoldSet, AddsUp, First
<1>3. QED
    BY <1>1, <1>2

LEMMA PiecesOfNone == \A q : Pieces(q, {}) = 0
<1> SUFFICES ASSUME NEW q PROVE Pieces(q, {}) = 0
    OBVIOUS
<1>1. PICK f : AddsUp(f, q, {}) /\ Pieces(q, {}) = f[{}]
    BY FS_EmptySet, PiecesAddUp
<1> QED
    BY <1>1 DEF AddsUp

\* The sum of a set is that of its first element and of the rest.
LEMMA PiecesStep ==
    ASSUME NEW S, IsFiniteSet(S), S # {}, NEW q
    PROVE  Pieces(q, S) = q[First(S)] + Pieces(q, S \ {First(S)})
<1> DEFINE T == S \ {First(S)}
<1>1. IsFiniteSet(T) /\ T \in SUBSET (S \cap T)
    BY FS_RemoveElement, FS_Subset
<1>2. PICK f : AddsUp(f, q, S) /\ Pieces(q, S) = f[S]
    BY PiecesAddUp
<1>3. PICK g : AddsUp(g, q, T) /\ Pieces(q, T) = g[T]
    BY <1>1, PiecesAddUp
<1>4. f[T] = g[T]
    <2> HIDE DEF T
    <2>1. \A s \in SUBSET (S \cap T) : f[s] = g[s]
        BY <1>2, <1>3, AddsUpAgree
    <2> QED
        BY <2>1, <1>1
<1>5. f[S] = q[First(S)] + f[T]
    BY <1>2 DEF AddsUp
<1> QED
    BY <1>2, <1>3, <1>4, <1>5

\* The sum depends on nothing but what is added up.
LEMMA PiecesAgree ==
    ASSUME NEW S, IsFiniteSet(S), NEW q, NEW r, \A x \in S : q[x] = r[x]
    PROVE  Pieces(q, S) = Pieces(r, S)
<1>1. PICK f : AddsUp(f, q, S) /\ Pieces(q, S) = f[S]
    BY PiecesAddUp
<1>2. PICK g : AddsUp(g, r, S) /\ Pieces(r, S) = g[S]
    BY PiecesAddUp
<1>3. \A s \in SUBSET (S \cap S) : f[s] = g[s]
    BY <1>1, <1>2, AddsUpAgree
<1> QED
    BY <1>1, <1>2, <1>3

LEMMA PiecesType ==
    ASSUME NEW S, IsFiniteSet(S), NEW q, \A x \in S : q[x] \in Nat
    PROVE  Pieces(q, S) \in Nat
<1> DEFINE Bad == {s \in SUBSET S : Pieces(q, s) \notin Nat}
<1> SUFFICES ASSUME Bad # {} PROVE FALSE
    OBVIOUS
<1>0. Bad \in SUBSET (SUBSET S)
    OBVIOUS
<1>1. PICK s \in Bad : \A t \in SUBSET s : t # s => t \notin Bad
    <2> HIDE DEF Bad
    <2> QED
        BY <1>0, LeastSubset
<1>2. s \in SUBSET S /\ IsFiniteSet(s) /\ Pieces(q, s) \notin Nat
    BY <1>1, FS_Subset
<1>3. s # {}
    BY <1>2, PiecesOfNone
<1>4. First(s) \in s
    BY <1>3, FirstIsIn
<1>5. q[First(s)] \in Nat /\ Pieces(q, s \ {First(s)}) \in Nat
    BY <1>1, <1>2, <1>4
<1>6. Pieces(q, s) = q[First(s)] + Pieces(q, s \ {First(s)})
    BY <1>2, <1>3, PiecesStep
<1> QED
    BY <1>2, <1>5, <1>6

\* The sum of a set is that of any of its elements and of the rest.
LEMMA PiecesRemove ==
    ASSUME NEW S, IsFiniteSet(S), NEW q, \A x \in S : q[x] \in Nat, NEW x \in S
    PROVE  Pieces(q, S) = q[x] + Pieces(q, S \ {x})
<1> DEFINE Bad == {s \in SUBSET S : \E y \in s : Pieces(q, s) # q[y] + Pieces(q, s \ {y})}
<1> SUFFICES ASSUME Bad # {} PROVE FALSE
    OBVIOUS
<1>0. Bad \in SUBSET (SUBSET S)
    OBVIOUS
<1>1. PICK s \in Bad : \A t \in SUBSET s : t # s => t \notin Bad
    <2> HIDE DEF Bad
    <2> QED
        BY <1>0, LeastSubset
<1>2. PICK y \in s : Pieces(q, s) # q[y] + Pieces(q, s \ {y})
    BY <1>1
<1>3. s \in SUBSET S /\ IsFiniteSet(s) /\ s # {}
    BY <1>1, <1>2, FS_Subset
<1> DEFINE c == First(s)
           rest == (s \ {c}) \ {y}
<1>4. c \in s /\ Pieces(q, s) = q[c] + Pieces(q, s \ {c})
    BY <1>3, FirstIsIn, PiecesStep
<1>5. c # y
    BY <1>2, <1>4
<1>6. Pieces(q, s \ {c}) = q[y] + Pieces(q, rest)
    <2>1. s \ {c} \notin Bad /\ s \ {c} \in SUBSET S /\ y \in s \ {c}
        BY <1>1, <1>3, <1>4, <1>5
    <2> QED
        BY <2>1
<1>7. Pieces(q, s \ {y}) = q[c] + Pieces(q, rest)
    <2>1. s \ {y} \notin Bad /\ s \ {y} \in SUBSET S /\ c \in s \ {y}
        BY <1>1, <1>3, <1>4, <1>5
    <2>2. (s \ {y}) \ {c} = rest
        OBVIOUS
    <2> QED
        BY <2>1, <2>2
<1>8. q[c] \in Nat /\ q[y] \in Nat /\ Pieces(q, rest) \in Nat
    <2>1. rest \in SUBSET S /\ IsFiniteSet(rest)
        BY <1>3, FS_Subset
    <2>2. \A z \in rest : q[z] \in Nat
        BY <2>1
    <2> HIDE DEF rest
    <2> QED
        BY <2>1, <2>2, <1>3, <1>4, PiecesType
<1> HIDE DEF c, rest
<1> QED
    BY <1>2, <1>4, <1>6, <1>7, <1>8

\* What changes at one element changes the sum by as much.
LEMMA PiecesChange ==
    ASSUME NEW S, IsFiniteSet(S), NEW q, NEW r, NEW x \in S,
           \A y \in S : q[y] \in Nat /\ r[y] \in Nat,
           \A y \in S \ {x} : q[y] = r[y]
    PROVE  Pieces(r, S) = Pieces(q, S) - q[x] + r[x]
<1>1. IsFiniteSet(S \ {x}) /\ S \ {x} \in SUBSET S
    BY FS_Subset
<1>2. Pieces(q, S \ {x}) \in Nat
    BY <1>1, PiecesType
<1>3. Pieces(q, S \ {x}) = Pieces(r, S \ {x})
    BY <1>1, PiecesAgree
<1>4. Pieces(q, S) = q[x] + Pieces(q, S \ {x}) /\ Pieces(r, S) = r[x] + Pieces(r, S \ {x})
    BY PiecesRemove
<1>5. q[x] \in Nat /\ r[x] \in Nat
    OBVIOUS
<1> QED
    BY <1>2, <1>3, <1>4, <1>5

LEMMA PiecesOfNothing ==
    ASSUME NEW S, IsFiniteSet(S), NEW q, \A x \in S : q[x] = 0
    PROVE  Pieces(q, S) = 0
<1> DEFINE Bad == {s \in SUBSET S : Pieces(q, s) # 0}
<1> SUFFICES ASSUME Bad # {} PROVE FALSE
    OBVIOUS
<1>0. Bad \in SUBSET (SUBSET S)
    OBVIOUS
<1>1. PICK s \in Bad : \A t \in SUBSET s : t # s => t \notin Bad
    <2> HIDE DEF Bad
    <2> QED
        BY <1>0, LeastSubset
<1>2. s \in SUBSET S /\ IsFiniteSet(s) /\ Pieces(q, s) # 0
    BY <1>1, FS_Subset
<1>3. s # {}
    BY <1>2, PiecesOfNone
<1>4. First(s) \in s
    BY <1>3, FirstIsIn
<1>5. q[First(s)] = 0 /\ Pieces(q, s \ {First(s)}) = 0
    BY <1>1, <1>2, <1>4
<1>6. Pieces(q, s) = q[First(s)] + Pieces(q, s \ {First(s)})
    BY <1>2, <1>3, PiecesStep
<1> QED
    BY <1>2, <1>5, <1>6

-----------------------------------------------------------------------------
(* The quantity of the order and the pieces of its items                    *)

\* A clear that is half way has on its list every item that is still there, unless an
\* add fell into its middle or a request of a clear failed; so the order that it then
\* deletes has none left.
QuantityInv ==
    /\ BagInv
    /\ QuantityAgrees
    /\ ~mixed /\ "clear" \notin failed =>
         \A k \in ClearCall : HalfWay(k) =>
            \A i \in Item : Exists(items[i]) => i \in clear[k].listed

\* A step that leaves the bag alone and the clears where they are.
LEMMA QuantityUntouched ==
    ASSUME QuantityInv, BagInv', UNCHANGED <<order, items, clear, mixed>>,
           failed \subseteq failed'
    PROVE  QuantityInv'
BY DEF QuantityInv, QuantityAgrees, Whole, HalfWay, ItemsQuantity, Exists

LEMMA ItemsTyped ==
    ASSUME BagInv
    PROVE  /\ items \in [Item -> ItemDoc]
           /\ \A i \in Item : items[i] \in ItemDoc /\ items[i].quantity \in Nat
           /\ order.quantity \in Nat
BY DEF BagInv, TypeOK, BagTypeOK, ItemDoc, Order

LEMMA CommitKeepsQuantity ==
    ASSUME QuantityInv, NEW a \in AddCall, Commit(a)
    PROVE  QuantityInv'
<1> DEFINE j == add[a].item
           q == add[a].quantity
           was == [i \in Item |-> items[i].quantity]
           is == [i \in Item |-> items'[i].quantity]
<1>1. BagInv /\ BagInv' /\ j \in Item /\ q \in Nat /\ q > 0
  BY CommitKeepsInv, QuantityType DEF QuantityInv, Quantity
<1>2. order'.quantity = order.quantity + q
  BY DEF Commit, ReadsAreCurrent, OrdersAfter
<1>3. items' = [items EXCEPT ![j] = ItemAfter(items[j], j, q)]
  BY DEF Commit, ReadsAreCurrent
<1>4. \A i \in Item : items[i] \in ItemDoc /\ was[i] \in Nat /\ is[i] \in Nat
  <2>1. items' \in [Item -> ItemDoc]
    BY <1>1 DEF BagInv, TypeOK, BagTypeOK, ItemDoc
  <2> QED
    BY <1>1, <2>1, ItemsTyped DEF ItemDoc
<1>5. is[j] = was[j] + q /\ \A i \in Item \ {j} : was[i] = is[i]
  BY <1>1, <1>3, ItemsTyped DEF ItemAfter
<1>6. Pieces(is, Item) = Pieces(was, Item) - was[j] + is[j]
  <2> HIDE DEF was, is, j
  <2> QED
    BY <1>1, <1>4, <1>5, PiecesChange, ItemsFinite
<1>7. Pieces(was, Item) \in Nat
  <2> HIDE DEF was
  <2> QED
    BY <1>4, PiecesType, ItemsFinite
<1>8. Pieces(is, Item) = Pieces(was, Item) + q
  <2> HIDE DEF was, is
  <2> QED
    BY <1>1, <1>4, <1>5, <1>6, <1>7
<1>9. QuantityAgrees'
  <2> SUFFICES ASSUME Whole' PROVE (order.quantity = ItemsQuantity)'
    BY DEF QuantityAgrees
  <2>1. Whole
    BY DEF Commit, Whole, HalfWay
  <2>2. order.quantity = Pieces(was, Item)
    BY <2>1 DEF QuantityInv, QuantityAgrees, ItemsQuantity
  <2>3. ItemsQuantity' = Pieces(is, Item)
    BY DEF ItemsQuantity
  <2> HIDE DEF was, is
  <2> QED
    BY <1>2, <1>8, <2>2, <2>3
<1>10. ~mixed' => \A k \in ClearCall : ~HalfWay(k)'
  BY DEF Commit, HalfWay
<1> QED
  BY <1>1, <1>9, <1>10 DEF QuantityInv

LEMMA ClearKeepsQuantity ==
    ASSUME QuantityInv, NEW k \in ClearCall, StartClear(k) \/ ClearOrder(k)
    PROVE  QuantityInv'
<1>1. BagInv /\ BagInv' /\ clear[k] \in ClearState
  BY ClearStepKeepsInv DEF QuantityInv, BagInv, TypeOK
<1>2. clear \in [ClearCall -> ClearState]
  BY <1>1 DEF BagInv, TypeOK
<1>3. CASE StartClear(k)
  <2>1. UNCHANGED <<order, items, mixed, failed>>
    BY <1>3 DEF StartClear, bagVars
  <2>2. clear' = [clear EXCEPT ![k].pc = "list"] /\ clear[k].pc = "idle"
    BY <1>3 DEF StartClear, ClearGoto
  <2>3. \A l \in ClearCall : /\ HalfWay(l)' <=> HalfWay(l)
                             /\ clear'[l].listed = clear[l].listed
    BY <1>2, <2>2 DEF HalfWay
  <2>4. Whole' <=> Whole
    BY <2>1, <2>3 DEF Whole
  <2>5. ItemsQuantity' = ItemsQuantity
    BY <2>1 DEF ItemsQuantity
  <2> QED
    BY <1>1, <2>1, <2>3, <2>4, <2>5 DEF QuantityInv, QuantityAgrees
<1>4. CASE ListItems(k)
  <2>1. UNCHANGED <<order, items, mixed>> /\ failed \subseteq failed'
    BY <1>4 DEF ListItems, bagVars
  <2>2. CASE "clear" \in failed'
    BY <1>1, <2>2 DEF QuantityInv, QuantityAgrees, Whole
  <2>3. CASE "clear" \notin failed'
    <3>1. clear' = [clear EXCEPT ![k] =
                        [pc |-> "delete", listed |-> {i \in Item : Exists(items[i])}]]
      BY <1>4, <2>3 DEF ListItems
    <3>2. HalfWay(k)' /\ ~Whole'
      BY <1>2, <3>1 DEF HalfWay, Whole
    <3>3. \A l \in ClearCall : l # k => clear'[l] = clear[l]
      BY <1>2, <3>1
    <3>4. \A i \in Item : Exists(items'[i]) => i \in clear'[k].listed
      BY <1>2, <2>1, <3>1 DEF Exists
    <3>5. \A l \in ClearCall : ~mixed' /\ "clear" \notin failed' /\ HalfWay(l)' =>
              \A i \in Item : Exists(items'[i]) => i \in clear'[l].listed
      <4> SUFFICES ASSUME NEW l \in ClearCall, ~mixed', "clear" \notin failed', HalfWay(l)', l # k
                   PROVE  \A i \in Item : Exists(items'[i]) => i \in clear'[l].listed
        BY <3>4
      <4>1. clear'[l] = clear[l] /\ items' = items /\ ~mixed /\ "clear" \notin failed /\ HalfWay(l)
        BY <2>1, <3>3 DEF HalfWay
      <4> QED
        BY <4>1 DEF QuantityInv
    <3> QED
      BY <1>1, <3>2, <3>5 DEF QuantityInv, QuantityAgrees, Exists
  <2> QED
    BY <2>2, <2>3
<1>5. CASE DeleteItem(k)
  <2>1. PICK j \in clear[k].listed :
          /\ clear' = [clear EXCEPT ![k].listed = @ \ {j}]
          /\ \/ items' = [items EXCEPT ![j] = NoItem] /\ UNCHANGED failed
             \/ Fails /\ UNCHANGED items /\ failed' = failed \cup {"clear"}
    BY <1>5 DEF DeleteItem
  <2>2. clear[k].pc = "delete" /\ UNCHANGED <<order, mixed>>
    BY <1>5 DEF DeleteItem
  <2>3. HalfWay(k)' /\ ~Whole'
    BY <1>2, <2>1, <2>2 DEF HalfWay, Whole
  <2>4. CASE "clear" \in failed'
    BY <1>1, <2>4 DEF QuantityInv, QuantityAgrees, Whole
  <2>5. CASE "clear" \notin failed'
    <3>1. items' = [items EXCEPT ![j] = NoItem] /\ UNCHANGED failed
      BY <2>1, <2>5
    <3>2. \A i \in Item : Exists(items'[i]) => Exists(items[i]) /\ i # j
      BY <1>1, <3>1, ItemsTyped DEF Exists, NoItem
    <3>3. \A l \in ClearCall : HalfWay(l)' => HalfWay(l) /\ clear[l].listed \subseteq clear'[l].listed \cup {j}
      BY <1>2, <2>1 DEF HalfWay
    <3>4. ASSUME NEW l \in ClearCall, ~mixed', HalfWay(l)', NEW i \in Item, Exists(items'[i])
          PROVE  i \in clear'[l].listed
      <4>1. ~mixed /\ "clear" \notin failed /\ HalfWay(l) /\ Exists(items[i])
        BY <2>2, <2>5, <3>1, <3>2, <3>3, <3>4
      <4>2. i \in clear[l].listed
        BY <4>1 DEF QuantityInv
      <4> QED
        BY <3>2, <3>3, <3>4, <4>2
    <3> QED
      BY <1>1, <2>3, <3>4 DEF QuantityInv, QuantityAgrees, Exists
  <2> QED
    BY <2>4, <2>5
<1>6. CASE DeleteOrder(k)
  <2>1. CASE "clear" \in failed'
    BY <1>1, <2>1 DEF QuantityInv, QuantityAgrees, Whole
  <2>2. CASE "clear" \notin failed'
    <3>1. /\ order' = NoOrder /\ clear' = [clear EXCEPT ![k].pc = "done"] /\ UNCHANGED failed
          /\ clear[k].pc = "delete" /\ clear[k].listed = {} /\ UNCHANGED <<items, mixed>>
      BY <1>6, <2>2 DEF DeleteOrder, ClearGoto
    <3>2. \A l \in ClearCall : HalfWay(l)' => HalfWay(l) /\ clear'[l].listed = clear[l].listed
      BY <1>2, <3>1 DEF HalfWay
    <3>3. ~mixed => \A i \in Item : ~Exists(items[i])
      BY <2>2, <3>1 DEF QuantityInv, HalfWay
    <3>4. QuantityAgrees'
      <4> SUFFICES ASSUME Whole' PROVE (order.quantity = ItemsQuantity)'
        BY DEF QuantityAgrees
      <4> DEFINE is == [i \in Item |-> items'[i].quantity]
      <4>1. \A i \in Item : ~Exists(items[i]) /\ items[i].quantity \in Nat
        BY <1>1, <3>1, <3>3, ItemsTyped DEF Whole
      <4>2. \A i \in Item : is[i] = 0
        BY <3>1, <4>1 DEF Exists
      <4>3. ItemsQuantity' = Pieces(is, Item)
        BY DEF ItemsQuantity
      <4> HIDE DEF is
      <4>4. Pieces(is, Item) = 0
        BY <4>2, PiecesOfNothing, ItemsFinite
      <4> QED
        BY <3>1, <4>3, <4>4 DEF NoOrder
    <3> QED
      BY <1>1, <3>1, <3>2, <3>3, <3>4 DEF QuantityInv, Exists
  <2> QED
    BY <2>1, <2>2
<1> QED
  BY <1>3, <1>4, <1>5, <1>6 DEF ClearOrder

LEMMA QuantityStarts == Init => QuantityInv
<1> SUFFICES ASSUME Init PROVE QuantityInv
  OBVIOUS
<1> DEFINE was == [i \in Item |-> items[i].quantity]
<1>1. \A i \in Item : was[i] = 0
  BY DEF Init, BagInit, NoItem
<1>2. ItemsQuantity = Pieces(was, Item)
  BY DEF ItemsQuantity
<1> HIDE DEF was
<1>3. ItemsQuantity = 0
  BY <1>1, <1>2, PiecesOfNothing, ItemsFinite
<1>4. order.quantity = 0 /\ \A k \in ClearCall : ~HalfWay(k)
  BY DEF Init, BagInit, NoOrder, HalfWay
<1> QED
  BY <1>3, <1>4, BagStarts DEF QuantityInv, QuantityAgrees

LEMMA QuantityStep ==
    ASSUME QuantityInv, [Next]_vars
    PROVE  QuantityInv'
<1>1. BagInv /\ BagInv' /\ failed \in SUBSET {"add", "clear"}
  BY BagStep DEF QuantityInv, BagInv, TypeOK
<1>2. ASSUME NEW a \in AddCall, (\E q \in Quantity : StartAdd(a, q)) \/ AddItemToOrder(a)
      PROVE  QuantityInv'
  <2>1. CASE Commit(a)
    BY <2>1, CommitKeepsQuantity
  <2>2. CASE ~Commit(a)
    <3>1. UNCHANGED <<order, items, clear, mixed>> /\ failed \subseteq failed'
      BY <1>2, <2>2 DEF AddItemToOrder, StartAdd, ReadOrder, ReadItem, CommitRefused,
                        ReadFails, bagVars
    <3> QED
      BY <1>1, <3>1, QuantityUntouched
  <2> QED
    BY <2>1, <2>2
<1>3. ASSUME NEW k \in ClearCall, StartClear(k) \/ ClearOrder(k)
      PROVE  QuantityInv'
  BY <1>3, ClearKeepsQuantity
<1>4. ASSUME NEW p \in PlaceCall, StartPlace(p) \/ PlaceOrder(p)
      PROVE  QuantityInv'
  <2>1. UNCHANGED <<order, items, clear, mixed>> /\ failed \subseteq failed'
    BY <1>4 DEF StartPlace, PlaceOrder, ReadBag, CreateToken, WritePayment, bagVars
  <2> QED
    BY <1>1, <2>1, QuantityUntouched
<1>5. CASE UNCHANGED vars
  <2>1. UNCHANGED <<order, items, clear, mixed>> /\ failed \subseteq failed'
    BY <1>5 DEF vars, calls, bagVars
  <2> QED
    BY <1>1, <2>1, QuantityUntouched
<1> QED
  BY <1>2, <1>3, <1>4, <1>5 DEF Next

\* The quantity on the order is the number of pieces in its items, for any finite set of
\* items and any number of calls that add, clear and place beside each other, with
\* requests of adds that fail and commits whose reply is lost; unless an add fell into
\* the middle of a clear (DataService.swift:267-289, 331-345).
THEOREM QuantityIsItems == Spec => []QuantityAgrees
<1>1. QuantityInv /\ [Next]_vars => QuantityInv'
  BY QuantityStep
<1>2. QuantityInv => QuantityAgrees
  BY DEF QuantityInv
<1> QED
  BY <1>1, <1>2, QuantityStarts, PTL DEF Spec

-----------------------------------------------------------------------------
(* What the bag holds while nobody clears it                                *)

Undisturbed == (\A k \in ClearCall : clear[k].pc = "idle") /\ "add" \notin failed

\* What an add has reported follows from where it is, when its requests were answered.
ToldAt(pc) == IF pc = "done" THEN {"success"} ELSE IF pc = "failed" THEN {"failure"} ELSE {}

AddedOf(i) == {a \in Added : add[a].item = i}
Sizes == [a \in AddCall |-> add[a].quantity]

HoldsInv ==
    /\ BagInv
    /\ IsFiniteSet(Added)
    /\ Undisturbed =>
         /\ \A i \in Item : items[i].quantity = Pieces(Sizes, AddedOf(i))
         /\ \A a \in AddCall : add[a].told = ToldAt(add[a].pc)

LEMMA AddTyped ==
    ASSUME BagInv
    PROVE  /\ add \in [AddCall -> AddState]
           /\ \A a \in AddCall : /\ add[a] \in AddState
                                 /\ add[a].item \in Item
                                 /\ add[a].quantity \in Nat
BY QuantityType DEF BagInv, TypeOK, AddState, Quantity

\* An add that reports no success changes no sum.
LEMMA NothingAdded ==
    ASSUME HoldsInv, BagInv', UNCHANGED items, Undisturbed' => Undisturbed,
           Added' = Added,
           \A a \in AddCall : add'[a].item = add[a].item,
           \A a \in Added : add'[a].quantity = add[a].quantity,
           Undisturbed' => \A a \in AddCall : add'[a].told = ToldAt(add'[a].pc)
    PROVE  HoldsInv'
<1>1. ASSUME NEW i \in Item PROVE Pieces(Sizes, AddedOf(i)) = Pieces(Sizes', AddedOf(i)')
  <2>1. AddedOf(i)' = AddedOf(i)
    BY DEF AddedOf, Added
  <2>2. IsFiniteSet(AddedOf(i))
    <3>1. AddedOf(i) \in SUBSET Added
      BY DEF AddedOf
    <3> QED
      BY <3>1, FS_Subset DEF HoldsInv
  <2>3. \A a \in AddedOf(i) : Sizes[a] = Sizes'[a]
    BY DEF AddedOf, Added, Sizes
  <2> QED
    BY <2>1, <2>2, <2>3, PiecesAgree
<1>2. Undisturbed' => \A i \in Item : items'[i].quantity = Pieces(Sizes', AddedOf(i)')
  BY <1>1 DEF HoldsInv
<1> QED
  BY <1>2 DEF HoldsInv

\* Where an add goes when it starts again or gives up.
LEMMA RetryReports ==
    ASSUME BagInv, NEW a \in AddCall, add[a].told = {}, RetryOrFail(a) \/ Fail(a)
    PROVE  /\ \A b \in AddCall : b # a => add'[b] = add[b]
           /\ add'[a].told = ToldAt(add'[a].pc)
           /\ add'[a].item = add[a].item /\ add'[a].quantity = add[a].quantity
<1>1. add \in [AddCall -> AddState] /\ add[a] \in AddState
  BY AddTyped
<1>2. CASE Fail(a)
  BY <1>1, <1>2 DEF Fail, ToldAt, AddState
<1>3. CASE ~Fail(a)
  <2>1. add' = [add EXCEPT ![a].pc = "readOrder", ![a].left = @ - 1]
    BY <1>3 DEF RetryOrFail
  <2> QED
    BY <1>1, <2>1 DEF ToldAt, AddState
<1> QED
  BY <1>2, <1>3

LEMMA AddStepKeepsHolds ==
    ASSUME HoldsInv, NEW a \in AddCall,
           (\E q \in Quantity : StartAdd(a, q)) \/ AddItemToOrder(a)
    PROVE  HoldsInv'
<1>1. /\ BagInv /\ BagInv' /\ clear' = clear /\ failed \subseteq failed'
      /\ add \in [AddCall -> AddState] /\ add[a] \in AddState
      /\ add' \in [AddCall -> AddState]
  <2>1. BagInv /\ BagInv'
    BY AddStepKeepsInv DEF HoldsInv
  <2>2. clear' = clear /\ failed \subseteq failed'
    BY DEF StartAdd, AddItemToOrder, ReadOrder, ReadItem, Commit, CommitRefused, ReadFails
  <2> QED
    BY <2>1, <2>2 DEF BagInv, TypeOK
<1>2. Undisturbed' => Undisturbed
  BY <1>1 DEF Undisturbed
<1>3. \A b \in AddCall : b # a => add'[b] = add[b]
  BY <1>1 DEF StartAdd, AddItemToOrder, ReadOrder, ReadItem, Commit, CommitRefused, ReadFails,
              Succeed, RetryOrFail, Fail
<1>4. add'[a].item = add[a].item
  <2>1. CASE (\E q \in Quantity : StartAdd(a, q)) \/ ReadOrder(a) \/ ReadItem(a)
    BY <1>1, <2>1 DEF StartAdd, ReadOrder, ReadItem, AddState
  <2>2. CASE Commit(a) \/ CommitRefused(a) \/ ReadFails(a)
    BY <1>1, <2>2 DEF Commit, CommitRefused, ReadFails, Succeed, RetryOrFail, Fail, AddState
  <2> QED
    BY <2>1, <2>2 DEF AddItemToOrder
<1>5. Undisturbed => \A b \in AddCall : add[b].told = ToldAt(add[b].pc)
  BY DEF HoldsInv
<1>6. CASE ~Undisturbed'
  <2>1. Added' \subseteq Added \cup {a}
    BY <1>3 DEF Added
  <2>2. IsFiniteSet(Added \cup {a})
    BY FS_AddElement DEF HoldsInv
  <2>3. IsFiniteSet(Added')
    BY <2>1, <2>2, FS_Subset
  <2> QED
    BY <1>1, <1>6, <2>3 DEF HoldsInv
<1>7. CASE Undisturbed' /\ ~Commit(a)
  <2>1. UNCHANGED items
    BY <1>7 DEF StartAdd, AddItemToOrder, ReadOrder, ReadItem, CommitRefused, ReadFails, bagVars
  <2>2. add[a].told = ToldAt(add[a].pc)
    BY <1>2, <1>5, <1>7
  <2>3. add[a].told = {}
    BY <1>7, <2>2 DEF StartAdd, AddItemToOrder, ReadOrder, ReadItem, CommitRefused, ReadFails, ToldAt
  <2>4. add'[a].told = ToldAt(add'[a].pc)
    <3>1. CASE \E q \in Quantity : StartAdd(a, q)
      <4>1. PICK q \in Quantity : StartAdd(a, q)
        BY <3>1
      <4>2. \/ add' = [add EXCEPT ![a] = [add[a] EXCEPT !.pc = "readOrder", !.quantity = q]]
            \/ add' = [add EXCEPT ![a] = [add[a] EXCEPT !.pc = "silent"]]
        BY <1>1, <4>1 DEF StartAdd
      <4>3. add'[a] \in {[add[a] EXCEPT !.pc = "readOrder", !.quantity = q],
                         [add[a] EXCEPT !.pc = "silent"]}
        BY <1>1, <4>2
      <4>4. add'[a].pc \in {"readOrder", "silent"} /\ add'[a].told = {}
        BY <1>1, <2>3, <4>3 DEF AddState
      <4> QED
        BY <4>4 DEF ToldAt
    <3>2. CASE ReadOrder(a) \/ ReadItem(a)
      <4>1. add'[a].pc \in {"readItem", "commit"} /\ add'[a].told = add[a].told
        BY <1>1, <3>2 DEF ReadOrder, ReadItem, AddState
      <4> QED
        BY <2>3, <4>1 DEF ToldAt
    <3>3. CASE CommitRefused(a)
      BY <1>1, <2>3, <3>3, RetryReports DEF CommitRefused
    <3>4. ~ReadFails(a)
      BY <1>7 DEF ReadFails, Undisturbed
    <3> QED
      BY <1>7, <3>1, <3>2, <3>3, <3>4 DEF AddItemToOrder
  <2>5. "success" \notin add'[a].told
    <3>1. CASE \E q \in Quantity : StartAdd(a, q)
      <4>1. PICK q \in Quantity : StartAdd(a, q)
        BY <3>1
      <4>2. \/ add' = [add EXCEPT ![a] = [add[a] EXCEPT !.pc = "readOrder", !.quantity = q]]
            \/ add' = [add EXCEPT ![a] = [add[a] EXCEPT !.pc = "silent"]]
        BY <1>1, <4>1 DEF StartAdd
      <4>3. add'[a] \in {[add[a] EXCEPT !.pc = "readOrder", !.quantity = q],
                         [add[a] EXCEPT !.pc = "silent"]}
        BY <1>1, <4>2
      <4>4. add'[a].pc \in {"readOrder", "silent"} /\ add'[a].told = {}
        BY <1>1, <2>3, <4>3 DEF AddState
      <4> QED
        BY <4>4
    <3>2. CASE ReadOrder(a) \/ ReadItem(a)
      BY <1>1, <2>3, <3>2 DEF ReadOrder, ReadItem, AddState
    <3>3. CASE CommitRefused(a)
      <4>1. add'[a].told \in {{}, {"failure"}}
        BY <1>1, <2>3, <3>3 DEF CommitRefused, RetryOrFail, Fail, AddState
      <4> QED
        BY <4>1
    <3>4. ~ReadFails(a)
      BY <1>7 DEF ReadFails, Undisturbed
    <3> QED
      BY <1>7, <3>1, <3>2, <3>3, <3>4 DEF AddItemToOrder
  <2>6. Added' = Added /\ a \notin Added
    BY <1>3, <2>3, <2>5 DEF Added
  <2>7. \A b \in AddCall : add'[b].told = ToldAt(add'[b].pc)
    BY <1>2, <1>3, <1>5, <1>7, <2>4
  <2>8. \A b \in Added : add'[b].quantity = add[b].quantity
    BY <1>3, <2>6 DEF Added
  <2> QED
    BY <1>1, <1>2, <1>3, <1>4, <2>1, <2>6, <2>7, <2>8, NothingAdded
<1>8. CASE Undisturbed' /\ Commit(a)
  <2>1. Succeed(a) /\ add[a].pc = "commit"
    BY <1>8 DEF Commit, Undisturbed
  <2>2. add[a].told = {}
    BY <1>2, <1>5, <1>8, <2>1 DEF ToldAt
  <2>3. /\ add'[a].told = {"success"} /\ add'[a].pc = "done"
        /\ \A b \in AddCall : add'[b].quantity = add[b].quantity /\ add'[b].item = add[b].item
    BY <1>1, <2>1, <2>2 DEF Succeed
  <2>4. Added' = Added \cup {a} /\ a \notin Added
    BY <1>3, <2>2, <2>3 DEF Added
  <2>5. IsFiniteSet(Added')
    BY <2>4, FS_AddElement DEF HoldsInv
  <2>6. \A b \in AddCall : add'[b].told = ToldAt(add'[b].pc)
    BY <1>2, <1>3, <1>5, <1>8, <2>3 DEF ToldAt
  <2>7. items' = [items EXCEPT ![add[a].item] = ItemAfter(items[add[a].item], add[a].item, add[a].quantity)]
    BY <1>8 DEF Commit, ReadsAreCurrent
  <2>8. Sizes' = Sizes /\ \A b \in AddCall : Sizes[b] = add[b].quantity /\ Sizes[b] \in Nat
    BY <1>1, <2>3, AddTyped DEF Sizes
  <2>9. ASSUME NEW i \in Item
        PROVE  items'[i].quantity = Pieces(Sizes, AddedOf(i)')
    <3>0. items[i].quantity = Pieces(Sizes, AddedOf(i)) /\ items[i].quantity \in Nat
      BY <1>1, <1>2, <1>8, ItemsTyped DEF HoldsInv
    <3>1. CASE i # add[a].item
      <4>1. AddedOf(i)' = AddedOf(i)
        BY <2>3, <2>4, <3>1 DEF AddedOf, Added
      <4>2. items'[i] = items[i]
        BY <1>1, <2>7, <3>1, ItemsTyped
      <4> QED
        BY <3>0, <4>1, <4>2
    <3>2. CASE i = add[a].item
      <4> DEFINE T == AddedOf(i)'
      <4>1. T = AddedOf(i) \cup {a} /\ a \notin AddedOf(i)
        BY <2>3, <2>4, <3>2 DEF AddedOf, Added
      <4>2. T \in SUBSET Added' /\ T \in SUBSET AddCall
        BY DEF AddedOf, Added
      <4> HIDE DEF T
      <4>3. IsFiniteSet(T) /\ \A b \in T : Sizes[b] \in Nat
        BY <2>5, <2>8, <4>2, FS_Subset
      <4>4. T \ {a} = AddedOf(i) /\ a \in T
        BY <4>1
      <4>5. Pieces(Sizes, T) = Sizes[a] + Pieces(Sizes, AddedOf(i))
        BY <4>3, <4>4, PiecesRemove
      <4>6. items'[i].quantity = items[i].quantity + add[a].quantity
        BY <1>1, <2>7, <3>2, ItemsTyped DEF ItemAfter
      <4>7. items'[i].quantity = Pieces(Sizes, T)
        BY <2>8, <3>0, <4>5, <4>6
      <4> QED
        BY <4>7 DEF T
    <3> QED
      BY <3>1, <3>2
  <2> QED
    BY <1>1, <2>5, <2>6, <2>8, <2>9 DEF HoldsInv
<1> QED
  BY <1>6, <1>7, <1>8

LEMMA HoldsStarts == Init => HoldsInv
<1> SUFFICES ASSUME Init PROVE HoldsInv
  OBVIOUS
<1>1. \A a \in AddCall : add[a].told = {} /\ add[a].pc = "idle"
  BY DEF Init
<1>2. Added = {} /\ \A i \in Item : AddedOf(i) = {}
  BY <1>1 DEF Added, AddedOf
<1>3. \A i \in Item : items[i].quantity = 0
  BY DEF Init, BagInit, NoItem
<1>4. IsFiniteSet(Added)
  BY <1>2, FS_EmptySet
<1>5. \A i \in Item : items[i].quantity = Pieces(Sizes, AddedOf(i))
  BY <1>2, <1>3, PiecesOfNone
<1> QED
  BY <1>1, <1>4, <1>5, BagStarts DEF HoldsInv, ToldAt

LEMMA HoldsStep ==
    ASSUME HoldsInv, [Next]_vars
    PROVE  HoldsInv'
<1>1. BagInv /\ BagInv'
  BY BagStep DEF HoldsInv
<1>2. ASSUME NEW a \in AddCall, (\E q \in Quantity : StartAdd(a, q)) \/ AddItemToOrder(a)
      PROVE  HoldsInv'
  BY <1>2, AddStepKeepsHolds
<1>3. ASSUME NEW k \in ClearCall, StartClear(k) \/ ClearOrder(k)
      PROVE  HoldsInv'
  <2>1. clear \in [ClearCall -> ClearState]
    BY <1>1 DEF BagInv, TypeOK
  <2>2. add' = add
    BY <1>3 DEF StartClear, ClearOrder, ListItems, DeleteItem, DeleteOrder
  <2>3. clear'[k].pc # "idle"
    <3>1. CASE DeleteItem(k)
      <4>1. clear[k].pc = "delete" /\ \E l : clear' = [clear EXCEPT ![k].listed = l]
        BY <3>1 DEF DeleteItem
      <4> QED
        BY <2>1, <4>1 DEF ClearState
    <3>2. CASE ~DeleteItem(k)
      BY <1>3, <2>1, <3>2 DEF StartClear, ClearOrder, ListItems, DeleteOrder, ClearGoto, ClearState
    <3> QED
      BY <3>1, <3>2
  <2>4. ~Undisturbed' /\ Added' = Added
    BY <2>2, <2>3 DEF Undisturbed, Added
  <2> QED
    BY <1>1, <2>4 DEF HoldsInv
<1>4. ASSUME UNCHANGED <<order, items, add, clear, failed>>
      PROVE  HoldsInv'
  <2>1. Added' = Added /\ (Undisturbed' <=> Undisturbed)
    BY <1>4 DEF Added, Undisturbed
  <2> QED
    BY <1>1, <1>4, <2>1, NothingAdded DEF HoldsInv
<1>5. ASSUME NEW p \in PlaceCall, StartPlace(p) \/ PlaceOrder(p)
      PROVE  HoldsInv'
  <2>1. UNCHANGED <<order, items, add, clear, failed>>
    BY <1>5 DEF StartPlace, PlaceOrder, ReadBag, CreateToken, WritePayment, bagVars
  <2> QED
    BY <1>4, <2>1
<1>6. CASE UNCHANGED vars
  BY <1>4, <1>6 DEF vars, calls, bagVars
<1> QED
  BY <1>2, <1>3, <1>5, <1>6 DEF Next

\* While nobody clears the bag it holds what the adds that reported success put in, each
\* once, and no add reports both, for any set of calls, however many overlap and however
\* often each is run again (DataService.swift:227-331).
THEOREM BagHolds == Spec => []BagHoldsWhatWasAdded
<1>1. HoldsInv /\ [Next]_vars => HoldsInv'
  BY HoldsStep
<1>2. HoldsInv => BagHoldsWhatWasAdded
  <2>1. \A a : Cardinality(ToldAt(a)) <= 1
    <3>1. Cardinality({"success"}) = 1 /\ Cardinality({"failure"}) = 1
      BY FS_Singleton
    <3>2. Cardinality({}) = 0
      BY FS_EmptySet
    <3> QED
      BY <3>1, <3>2 DEF ToldAt
  <2> QED
    BY <2>1 DEF HoldsInv, BagHoldsWhatWasAdded, Undisturbed, Sizes, AddedOf
<1> QED
  BY <1>1, <1>2, HoldsStarts, PTL DEF Spec
=============================================================================
