-------------------------------- MODULE Bag --------------------------------
(***************************************************************************)
(* The bag of src/LidoraClient/Lidora/Services/DataService.swift: the      *)
(* order document, its items, and the payments placed from it.             *)
(*                                                                         *)
(* Calls of addItemToOrder, clearOrder and placeOrder from one or several  *)
(* devices run beside each other, one request to Firestore or Stripe at a  *)
(* time.  Adding is an optimistic transaction of the Firestore client; the *)
(* other two are plain reads and writes.                                   *)
(***************************************************************************)
EXTENDS AtomicBag, FiniteSetsExt

CONSTANTS AddCall, ClearCall, PlaceCall,  \* the calls that may be made, each once
          Retries,   \* how often the client runs a failed transaction again
          LostAck,   \* TRUE: a commit may be applied and its reply lost
          Fails,     \* TRUE: a request of an add or a clear may fail
          PlaceFails \* TRUE: a request of a placed order may fail

ASSUME RetriesType == Retries \in Nat
ASSUME ItemsFinite == IsFiniteSet(Item)
ASSUME FaultsType == {LostAck, Fails, PlaceFails} \subseteq BOOLEAN

VARIABLES add,      \* calls of addItemToOrder
          clear,    \* calls of clearOrder
          place,    \* calls of placeOrder
          payments, \* the documents customers/{uid}/payments/{token}, by call
          mixed,    \* an add took effect while a clear was half way  (history)
          failed    \* an add, a clear lost a request or a reply  (history)

calls == <<add, clear, place>>
vars == <<bagVars, calls, payments, mixed, failed>>

OrderDoc == Order
ItemDoc == [total : Nat, quantity : Nat]
NoPayment == [destination |-> NoChef, subtotal |-> 0, total |-> 0]

AddState == [pc : {"idle", "readOrder", "readItem", "commit", "done", "failed", "silent"},
             item : Item, quantity : Quantity, left : 0 .. Retries,
             order : OrderDoc, line : ItemDoc, told : SUBSET {"success", "failure"}]
ClearState == [pc : {"idle", "list", "delete", "done", "failed"}, listed : SUBSET Item]
PlaceState == [pc : {"idle", "read", "token", "write", "done", "failed", "silent"},
               destination : {NoChef} \cup {ChefOf[i] : i \in Item},
               subtotal : Nat, total : Nat]

TypeOK ==
    /\ BagTypeOK
    /\ add \in [AddCall -> AddState]
    /\ clear \in [ClearCall -> ClearState]
    /\ place \in [PlaceCall -> PlaceState]
    /\ payments \in [PlaceCall ->
            [destination : {NoChef} \cup {ChefOf[i] : i \in Item}, subtotal : Nat, total : Nat]]
    /\ mixed \in BOOLEAN /\ failed \subseteq {"add", "clear"}

Init ==
    /\ BagInit
    /\ add \in [AddCall -> {[pc |-> "idle", item |-> i, quantity |-> 1, left |-> Retries,
                             order |-> NoOrder, line |-> NoItem, told |-> {}] : i \in Item}]
    /\ clear = [k \in ClearCall |-> [pc |-> "idle", listed |-> {}]]
    /\ place = [p \in PlaceCall |->
            [pc |-> "idle", destination |-> NoChef, subtotal |-> 0, total |-> 0]]
    /\ payments = [p \in PlaceCall |-> NoPayment]
    /\ mixed = FALSE /\ failed = {}

-----------------------------------------------------------------------------
(* addItemToOrder                                                          *)

\* The item and the quantity the user chose.  If the item or its chef lacks a field,
\* the call returns and calls nobody back.
StartAdd(a, q) ==
    /\ add[a].pc = "idle"
    /\ \/ add' = [add EXCEPT ![a].pc = "readOrder", ![a].quantity = q]
       \/ add' = [add EXCEPT ![a].pc = "silent"]
    /\ UNCHANGED <<bagVars, clear, place, payments, mixed, failed>>

\* transaction.getDocument(ref)
ReadOrder(a) ==
    /\ add[a].pc = "readOrder"
    /\ add' = [add EXCEPT ![a].pc = "readItem", ![a].order = order]
    /\ UNCHANGED <<bagVars, clear, place, payments, mixed, failed>>

\* transaction.getDocument(itemRef)
ReadItem(a) ==
    /\ add[a].pc = "readItem"
    /\ add' = [add EXCEPT ![a].pc = "commit", ![a].line = items[add[a].item]]
    /\ UNCHANGED <<bagVars, clear, place, payments, mixed, failed>>

\* complete(true, nil)
Succeed(a) == add' = [add EXCEPT ![a].pc = "done", ![a].told = @ \cup {"success"}]

\* complete(false, error), for the last time.
Fail(a) == add' = [add EXCEPT ![a].pc = "failed", ![a].told = @ \cup {"failure"}]

\* A slip: the retries are not counted.
RetryForever(a) == add' = [add EXCEPT ![a].pc = "readOrder"]

\* The client runs the update block again, or has no retries left.
RetryOrFail(a) ==
    \/ /\ add[a].left > 0
       /\ add' = [add EXCEPT ![a].pc = "readOrder", ![a].left = @ - 1]
    \/ add[a].left = 0 /\ Fail(a)

\* A slip: plain reads and writes in the place of a transaction.
Unchecked(a) == TRUE

\* Both documents are as they were read.  The commit compares versions where this
\* compares values: they differ for a document that was deleted and made again
\* with the same values, where the client runs the block again to the same effect.
ReadsAreCurrent(a) == order = add[a].order /\ items[add[a].item] = add[a].line

\* The items were listed, the order is still to be deleted.
HalfWay(k) == clear[k].pc = "delete"

\* Both writes in one commit, computed from what was read.
Commit(a) ==
    LET i == add[a].item  q == add[a].quantity IN
    /\ add[a].pc = "commit"
    /\ ReadsAreCurrent(a)
    /\ order' \in OrdersAfter(add[a].order, i, q)
    /\ items' = [items EXCEPT ![i] = ItemAfter(add[a].line, i, q)]
    /\ mixed' = (mixed \/ \E k \in ClearCall : HalfWay(k))
    /\ \/ Succeed(a) /\ UNCHANGED failed
       \/ LostAck /\ RetryOrFail(a) /\ failed' = failed \cup {"add"}
    /\ UNCHANGED <<clear, place, payments>>

\* The commit is refused because a document changed, or the request fails, for
\* good or not.
CommitRefused(a) ==
    /\ add[a].pc = "commit"
    /\ \/ ~ReadsAreCurrent(a) /\ RetryOrFail(a) /\ UNCHANGED failed
       \/ Fails /\ (RetryOrFail(a) \/ Fail(a)) /\ failed' = failed \cup {"add"}
    /\ UNCHANGED <<bagVars, clear, place, payments, mixed>>

\* A read throws: complete(false, fetchError), at once, and then the client runs
\* the block again all the same unless the error is for good.
ReadFails(a) ==
    /\ Fails
    /\ add[a].pc \in {"readOrder", "readItem"}
    /\ \/ /\ add[a].left > 0
          /\ add' = [add EXCEPT ![a].pc = "readOrder", ![a].left = @ - 1,
                                ![a].told = @ \cup {"failure"}]
       \/ Fail(a)
    /\ UNCHANGED <<bagVars, clear, place, payments, mixed>>
    /\ failed' = failed \cup {"add"}

AddItemToOrder(a) ==
    ReadOrder(a) \/ ReadItem(a) \/ Commit(a) \/ CommitRefused(a) \/ ReadFails(a)

-----------------------------------------------------------------------------
(* clearOrder                                                              *)

ClearGoto(k, pc) == clear' = [clear EXCEPT ![k].pc = pc]

StartClear(k) ==
    /\ clear[k].pc = "idle"
    /\ Exists(order)
    /\ ClearGoto(k, "list")
    /\ UNCHANGED <<bagVars, add, place, payments, mixed, failed>>

\* ref.collection("items").getDocuments; snapshot! of an error ends the app.
ListItems(k) ==
    /\ clear[k].pc = "list"
    /\ \/ /\ clear' = [clear EXCEPT ![k] =
                    [pc |-> "delete", listed |-> {i \in Item : Exists(items[i])}]]
          /\ UNCHANGED failed
       \/ Fails /\ ClearGoto(k, "failed") /\ failed' = failed \cup {"clear"}
    /\ UNCHANGED <<bagVars, add, place, payments, mixed>>

\* document.reference.delete(): nobody looks at whether it failed.
DeleteItem(k) ==
    /\ clear[k].pc = "delete"
    /\ \E i \in clear[k].listed :
        /\ clear' = [clear EXCEPT ![k].listed = @ \ {i}]
        /\ \/ items' = [items EXCEPT ![i] = NoItem] /\ UNCHANGED failed
           \/ Fails /\ UNCHANGED items /\ failed' = failed \cup {"clear"}
    /\ UNCHANGED <<order, add, place, payments, mixed>>

\* A slip: the order is deleted and the call is over before the items are.
DeleteOrderFirst(k) ==
    /\ clear[k].pc = "delete"
    /\ order' = NoOrder
    /\ ClearGoto(k, "done")
    /\ UNCHANGED <<items, add, place, payments, mixed, failed>>

\* ref.delete, sent after the deletes of the items.
DeleteOrder(k) ==
    /\ clear[k].pc = "delete"
    /\ clear[k].listed = {}
    /\ \/ order' = NoOrder /\ ClearGoto(k, "done") /\ UNCHANGED failed
       \/ /\ Fails /\ UNCHANGED order /\ ClearGoto(k, "failed")
          /\ failed' = failed \cup {"clear"}
    /\ UNCHANGED <<items, add, place, payments, mixed>>

ClearOrder(k) == ListItems(k) \/ DeleteItem(k) \/ DeleteOrder(k)

-----------------------------------------------------------------------------
(* placeOrder and completeCharge                                           *)

PlaceGoto(p, pc) == place' = [place EXCEPT ![p].pc = pc]

\* The destination is that of the order on the screen, as last seen.
StartPlace(p) ==
    /\ place[p].pc = "idle"
    /\ Exists(order)
    /\ place' = [place EXCEPT ![p].pc = "read", ![p].destination = order.provider]
    /\ UNCHANGED <<bagVars, add, clear, payments, mixed, failed>>

\* ref.getDocument: without a document, or on an error, no callback is called.
ReadBag(p) ==
    /\ place[p].pc = "read"
    /\ \/ /\ Exists(order)
          /\ place' = [place EXCEPT ![p].pc = "token", ![p].subtotal = order.subtotal,
                                    ![p].total = order.total]
       \/ /\ ~Exists(order) \/ PlaceFails
          /\ PlaceGoto(p, "silent")
    /\ UNCHANGED <<bagVars, add, clear, payments, mixed, failed>>

\* createToken: a card whose document lacks a field returns without a callback.
CreateToken(p) ==
    /\ place[p].pc = "token"
    /\ \E pc \in {"write", "failed", "silent"} : PlaceGoto(p, pc)
    /\ UNCHANGED <<bagVars, add, clear, payments, mixed, failed>>

\* RefPayments.document(token.tokenId).setData; the bag is left as it is.
WritePayment(p) ==
    /\ place[p].pc = "write"
    /\ \/ /\ payments' = [payments EXCEPT ![p] =
                [destination |-> place[p].destination, subtotal |-> place[p].subtotal,
                 total |-> place[p].total]]
          /\ PlaceGoto(p, "done")
       \/ PlaceFails /\ PlaceGoto(p, "failed") /\ UNCHANGED payments
    /\ UNCHANGED <<bagVars, add, clear, mixed, failed>>

PlaceOrder(p) == ReadBag(p) \/ CreateToken(p) \/ WritePayment(p)

-----------------------------------------------------------------------------

Next ==
    \/ \E a \in AddCall : (\E q \in Quantity : StartAdd(a, q)) \/ AddItemToOrder(a)
    \/ \E k \in ClearCall : StartClear(k) \/ ClearOrder(k)
    \/ \E p \in PlaceCall : StartPlace(p) \/ PlaceOrder(p)

Spec == Init /\ [][Next]_vars

\* A call that was started goes on: its requests are answered.
Fairness ==
    /\ \A a \in AddCall : WF_vars(AddItemToOrder(a))
    /\ \A k \in ClearCall : WF_vars(ClearOrder(k))

FairSpec == Spec /\ Fairness

-----------------------------------------------------------------------------
(* Properties                                                              *)

\* The pieces that q gives for the members of S, together.
Pieces(q, S) == MapThenSumSet(LAMBDA x : q[x], S)

ItemsQuantity == Pieces([i \in Item |-> items[i].quantity], Item)

\* The adds that reported success.
Added == {a \in AddCall : "success" \in add[a].told}

\* No add took effect half way through a clear, none is half way, and none failed.
Whole == ~mixed /\ "clear" \notin failed /\ \A k \in ClearCall : ~HalfWay(k)

\* The quantity on the order is the number of pieces in its items, whatever calls
\* overlapped and whatever requests of adds failed, unless an add fell into the middle
\* of a clear (DataService.swift:267-289, 331-345: the two documents are written
\* together but deleted apart).
QuantityAgrees == Whole => order.quantity = ItemsQuantity

\* The total shown is the sum of the lines shown above it (CardSection.swift:84-94),
\* after any number of updates that leave the delivery fee alone.
TotalIsSumOfParts ==
    order.total = order.subtotal + order.serviceFee + order.deliveryFee

\* While nobody clears the bag, it holds what the adds that reported success put
\* in, each once, and nothing of the ones that did not, whatever overlapped and
\* however many attempts it took; and an add never reports both.  Needs the
\* requests to be answered: when the reply of a commit is lost the client runs the
\* transaction again, after a failed read it reports failure and goes on.
BagHoldsWhatWasAdded ==
    (\A k \in ClearCall : clear[k].pc = "idle") /\ "add" \notin failed =>
        /\ \A i \in Item : items[i].quantity =
                Pieces([a \in AddCall |-> add[a].quantity], {a \in Added : add[a].item = i})
        /\ \A a \in AddCall : Cardinality(add[a].told) <= 1

\* Adding and clearing end, with success or failure: a transaction that keeps
\* losing to others gives up (transaction_runner.cc:35, 97-106).  Only an add of an
\* item that lacks a field, or whose chef does, tells nobody (DataService.swift:241).
CallsEnd ==
    /\ \A a \in AddCall :
        add[a].pc # "idle" ~>
            \/ add[a].pc = "silent" /\ add[a].told = {}
            \/ add[a].pc \in {"done", "failed"} /\ add[a].told # {}
    /\ \A k \in ClearCall : clear[k].pc = "list" ~> clear[k].pc \in {"done", "failed"}
=============================================================================
