--------------------------- MODULE StripePayments ---------------------------
(***************************************************************************)
(* createStripePayment and confirmStripePayment of                         *)
(* src/Functions/functions/index.js: a client adds the document            *)
(* stripe_customers/{uid}/payments/{pushId}; the first function charges    *)
(* it, the second one reconfirms it after 3D Secure.                       *)
(*                                                                         *)
(* The functions run in instances that share nothing: each invocation      *)
(* keeps its own program counter and locals, and touches the document, the *)
(* customer's document and Stripe one await at a time.  Events are         *)
(* delivered at least once.  The customer documents change under it as     *)
(* CustomerDirectory allows.                                               *)
(***************************************************************************)
EXTENDS CustomerDirectory, Naturals

CONSTANTS Push,           \* the payment documents, by pushId
          UserOf,         \* the account whose collection a document is in
          MaxDeliveries,  \* how often the creation of one document is delivered
          Redelivered,    \* TRUE: an update event may be delivered again
          NetworkFails,   \* TRUE: a call to Stripe may lose its request or its reply
          WriteFails,     \* TRUE: a Firestore write may fail or never be sent
          Crashes,        \* TRUE: an instance may be stopped in the middle
          None            \* no value

ASSUME UserOfType == UserOf \in [Push -> User]
ASSUME DeliveriesType == MaxDeliveries \in Nat \ {0}
ASSUME FaultsType == {Redelivered, NetworkFails, WriteFails, Crashes} \subseteq BOOLEAN

VARIABLES doc,         \* the payment document
          invocation,  \* the onCreate invocations: one per delivery
          ledger,      \* the payment intents at Stripe, by the invocation that made them
          updates,     \* update events to deliver: after.status was requires_confirmation
          unawaited    \* writes confirmStripePayment started and did not wait for

paymentVars == <<doc, invocation, ledger, updates, unawaited>>
vars == <<paymentVars, directoryVars>>

\* One delivery of the creation of a document: <<pushId, delivery number>>.
Invocation == Push \X (1 .. MaxDeliveries)

\* A slip: a key of its own for every delivery.
KeyPerDelivery(i) == i

\* "const idempotencyKey = context.params.pushId" (index.js:75)
IdempotencyKey(i) == i[1]

ASSUME NoneIsNoValue == None \notin Customer \cup {NoDoc, Undefined} \cup Invocation

IntentStatus == {"requires_payment_method", "requires_action",
                 "requires_confirmation", "succeeded"}

\* What a confirmation answers at once; the first stands for whatever Stripe
\* refuses for what the request says: a declined card, a bad amount.
Outcome == {"requires_payment_method", "requires_action", "succeeded"}

\* status: now, "none" when the invocation has made no intent; reply: what its
\* creation answered, which Stripe keeps and answers again to every request with
\* the same key.
Intent == [status : IntentStatus \cup {"none"}, reply : Outcome \cup {"none"},
           customer : Customer \cup {Undefined, None}]

\* "absent" when there is no document, "new" while it has no payment status.
Document == [status : IntentStatus \cup {"absent", "new"},
             intent : Invocation \cup {None}, error : BOOLEAN]

Pc == {"waiting", "lookup", "pay", "save", "report", "done"}

InvocationState == [pc : Pc, customer : Customer \cup {Undefined, None},
                    payment : Invocation \cup {None}]

TypeOK ==
    /\ DirectoryTypeOK
    /\ doc \in [Push -> Document]
    /\ invocation \in [Invocation -> InvocationState]
    /\ ledger \in [Invocation -> Intent]
    /\ updates \subseteq Invocation
    /\ unawaited \subseteq Push \X Invocation \X Outcome

Init ==
    /\ DirectoryInit
    /\ doc = [x \in Push |-> [status |-> "absent", intent |-> None, error |-> FALSE]]
    /\ invocation = [i \in Invocation |->
                        [pc |-> "waiting", customer |-> None, payment |-> None]]
    /\ ledger = [i \in Invocation |->
                    [status |-> "none", reply |-> "none", customer |-> None]]
    /\ updates = {}
    /\ unawaited = {}

-----------------------------------------------------------------------------
(* The document and the events its updates raise.                          *)

\* set(payment): the whole document becomes the intent's fields.
Saved(i, status) == [status |-> status, intent |-> i, error |-> FALSE]

\* set({ error }, { merge: true })
Reported(d) == [d EXCEPT !.error = TRUE]

\* A slip: the update is not acted on.
WriteUnnoticed(x, d) == doc' = [doc EXCEPT ![x] = d] /\ UNCHANGED updates

\* The document is written; an update to requires_confirmation is the only one
\* confirmStripePayment acts on (index.js:110), so it is the only one kept.
Write(x, d) ==
    /\ doc' = [doc EXCEPT ![x] = d]
    /\ updates' = IF d.status = "requires_confirmation"
                  THEN updates \cup {d.intent} ELSE updates

-----------------------------------------------------------------------------
(* The client, as the functions see it (it is not in src/).                *)

\* The client adds the document: amount, currency, payment_method.
Request(x) ==
    /\ doc[x].status = "absent"
    /\ doc' = [doc EXCEPT ![x].status = "new"]
    /\ UNCHANGED <<invocation, ledger, updates, unawaited, directoryVars>>

\* The client sees requires_action, performs 3D Secure, and writes the intent
\* it gets back into the document.
Authenticate(x) ==
    /\ doc[x].status = "requires_action"
    /\ ledger[doc[x].intent].status = "requires_action"
    /\ ledger' = [ledger EXCEPT ![doc[x].intent].status = "requires_confirmation"]
    /\ Write(x, Saved(doc[x].intent, "requires_confirmation"))
    /\ UNCHANGED <<invocation, unawaited, directoryVars>>

-----------------------------------------------------------------------------
(* createStripePayment                                                     *)

Goto(i, pc) == invocation' = [invocation EXCEPT ![i].pc = pc]

\* The creation event reaches an instance.
Deliver(i) ==
    /\ invocation[i].pc = "waiting"
    /\ doc[i[1]].status # "absent"
    /\ Goto(i, "lookup")
    /\ UNCHANGED <<doc, ledger, updates, unawaited, directoryVars>>

\* A slip: the customer is kept in a variable that the invocations share, and the
\* lookup of another account overtakes this one.
LookupShared(i) ==
    /\ invocation[i].pc = "lookup"
    /\ \E u \in User :
        IF field[u] = NoDoc
        THEN Goto(i, "report")
        ELSE invocation' = [invocation EXCEPT ![i].pc = "pay", ![i].customer = field[u]]
    /\ UNCHANGED <<doc, ledger, updates, unawaited, directoryVars>>

\* A slip: a missing document is not an error.
LookupUnchecked(i) ==
    /\ invocation[i].pc = "lookup"
    /\ invocation' = [invocation EXCEPT ![i].pc = "pay", ![i].customer = field[UserOf[i[1]]]]
    /\ UNCHANGED <<doc, ledger, updates, unawaited, directoryVars>>

\* (await snap.ref.parent.parent.get()).data().customer_id: a TypeError when
\* there is no document.
Lookup(i) ==
    LET found == field[UserOf[i[1]]] IN
    /\ invocation[i].pc = "lookup"
    /\ IF found = NoDoc
       THEN Goto(i, "report")
       ELSE invocation' = [invocation EXCEPT ![i].pc = "pay", ![i].customer = found]
    /\ UNCHANGED <<doc, ledger, updates, unawaited, directoryVars>>

Made(i) == ledger[i].status # "none"

\* The intent Stripe already holds under the key of a request.
Replayed(i) == {j \in Invocation : Made(j) /\ IdempotencyKey(j) = IdempotencyKey(i)}

\* stripe.paymentIntents.create returns intent j, or throws: a declined card
\* is an error, and so is a reply that is lost.
Answer(i, j, reply) ==
    \/ /\ reply # "requires_payment_method"
       /\ invocation' = [invocation EXCEPT ![i].pc = "save", ![i].payment = j]
    \/ /\ reply = "requires_payment_method" \/ NetworkFails
       /\ Goto(i, "report")

\* A key Stripe has not seen: an intent is made and confirmed at once.
PayFresh(i) ==
    /\ invocation[i].pc = "pay"
    /\ Replayed(i) = {}
    /\ invocation[i].customer \notin deleted
    /\ \E reply \in Outcome :
        /\ ledger' = [ledger EXCEPT ![i] =
                        [status |-> reply, reply |-> reply,
                         customer |-> invocation[i].customer]]
        /\ Answer(i, i, reply)
    /\ UNCHANGED <<doc, updates, unawaited, directoryVars>>

\* A key Stripe has seen: the first answer again, when the parameters are the
\* same; the customer is the only one that can differ between two deliveries.
PayReplay(i) ==
    /\ invocation[i].pc = "pay"
    /\ \E j \in Replayed(i) :
        /\ ledger[j].customer = invocation[i].customer
        /\ Answer(i, j, ledger[j].reply)
    /\ UNCHANGED <<doc, ledger, updates, unawaited, directoryVars>>

\* Stripe refuses, or the request is lost: other parameters under a known key, a
\* customer that is deleted, no customer, or another request with the key in flight.
PayRefused(i) ==
    /\ invocation[i].pc = "pay"
    /\ \/ \E j \in Replayed(i) : ledger[j].customer # invocation[i].customer
       \/ invocation[i].customer \in deleted \cup {Undefined}
       \/ \E j \in Invocation \ {i} : /\ invocation[j].pc = "pay"
                                      /\ IdempotencyKey(j) = IdempotencyKey(i)
       \/ NetworkFails
    /\ Goto(i, "report")
    /\ UNCHANGED <<doc, ledger, updates, unawaited, directoryVars>>

\* A slip: the error is written after every payment (a finally, not a catch).
SaveThenReport(i) ==
    /\ invocation[i].pc = "save"
    /\ Write(i[1], Saved(invocation[i].payment, ledger[invocation[i].payment].reply))
    /\ Goto(i, "report")
    /\ UNCHANGED <<ledger, unawaited, directoryVars>>

\* await snap.ref.set(payment): inside the try, so a failure is reported, also
\* that of a write which was applied and whose reply was lost.
Save(i) ==
    /\ invocation[i].pc = "save"
    /\ LET j == invocation[i].payment IN
       \/ /\ Write(i[1], Saved(j, ledger[j].reply))
          /\ \/ Goto(i, "done")
             \/ WriteFails /\ Goto(i, "report")
       \/ /\ WriteFails
          /\ Goto(i, "report")
          /\ UNCHANGED <<doc, updates>>
    /\ UNCHANGED <<ledger, unawaited, directoryVars>>

\* A slip: the error is logged and not written.
ReportNothing(i) ==
    /\ invocation[i].pc = "report"
    /\ Goto(i, "done")
    /\ UNCHANGED <<doc, ledger, updates, unawaited, directoryVars>>

\* await snap.ref.set({ error: ... }, { merge: true })
Report(i) ==
    /\ invocation[i].pc = "report"
    /\ \/ Write(i[1], Reported(doc[i[1]]))
       \/ WriteFails /\ UNCHANGED <<doc, updates>>
    /\ Goto(i, "done")
    /\ UNCHANGED <<ledger, unawaited, directoryVars>>

\* The instance is stopped: the function is not retried (package.json sets no
\* failure policy), only an event delivered again starts over.
Crash(i) ==
    /\ Crashes
    /\ invocation[i].pc \in {"lookup", "pay", "save", "report"}
    /\ Goto(i, "done")
    /\ UNCHANGED <<doc, ledger, updates, unawaited, directoryVars>>

CreateStripePayment(i) ==
    \/ Deliver(i) \/ Lookup(i) \/ PayFresh(i) \/ PayReplay(i) \/ PayRefused(i)
    \/ Save(i) \/ Report(i)

-----------------------------------------------------------------------------
(* confirmStripePayment                                                    *)

Consume(i) ==
    \/ updates' = updates \ {i}
    \/ Redelivered /\ UNCHANGED updates

\* stripe.paymentIntents.confirm(change.after.data().id), and the write of what
\* it returns, which the function starts and does not await.
Confirm(i) ==
    /\ i \in updates
    /\ ledger[i].status = "requires_confirmation"
    /\ \E status \in Outcome :
        /\ ledger' = [ledger EXCEPT ![i].status = status]
        /\ \/ /\ status # "requires_payment_method"
              /\ unawaited' = unawaited \cup {<<i[1], i, status>>}
           \/ /\ status = "requires_payment_method" \/ NetworkFails
              /\ UNCHANGED unawaited
    /\ Consume(i)
    /\ UNCHANGED <<doc, invocation, directoryVars>>

\* Stripe throws: the intent is past confirmation, or the request is lost.
\* Nothing catches the error and the document keeps its status.
ConfirmRefused(i) ==
    /\ i \in updates
    /\ ledger[i].status # "requires_confirmation" \/ NetworkFails \/ Crashes
    /\ Consume(i)
    /\ UNCHANGED <<doc, invocation, ledger, unawaited, directoryVars>>

\* Slips: the status written is not the answer's; the write is sent again.
FlushAsPaid(w) ==
    /\ w \in unawaited
    /\ Write(w[1], Saved(w[2], "succeeded"))
    /\ unawaited' = unawaited \ {w}
    /\ UNCHANGED <<invocation, ledger, directoryVars>>

FlushAgain(w) ==
    /\ w \in unawaited
    /\ Write(w[1], Saved(w[2], w[3]))
    /\ UNCHANGED <<invocation, ledger, unawaited, directoryVars>>

\* change.after.ref.set(payment): done some time after the function returned.
FlushConfirmed(w) ==
    /\ w \in unawaited
    /\ Write(w[1], Saved(w[2], w[3]))
    /\ unawaited' = unawaited \ {w}
    /\ UNCHANGED <<invocation, ledger, directoryVars>>

\* The instance is frozen or reused before the write was sent.
LoseConfirmed(w) ==
    /\ WriteFails
    /\ w \in unawaited
    /\ unawaited' = unawaited \ {w}
    /\ UNCHANGED <<doc, invocation, ledger, updates, directoryVars>>

-----------------------------------------------------------------------------

\* The account functions and the deletion of accounts (StripeCustomers).
Directory == DirectoryNext /\ UNCHANGED paymentVars

PaymentStep ==
    \/ \E x \in Push : Request(x) \/ Authenticate(x)
    \/ \E i \in Invocation : CreateStripePayment(i) \/ Crash(i)
    \/ \E i \in Invocation : Confirm(i) \/ ConfirmRefused(i)
    \/ \E w \in Push \X Invocation \X Outcome : FlushConfirmed(w) \/ LoseConfirmed(w)

Next == PaymentStep \/ Directory

Spec == Init /\ [][Next]_vars

\* The platform delivers every event and runs what it delivered.  Clients finish
\* 3D Secure or not as they like, and nothing makes an unawaited write happen.
Fairness ==
    /\ \A i \in Invocation : WF_vars(CreateStripePayment(i))
    /\ \A i \in Invocation : WF_vars(Confirm(i) \/ ConfirmRefused(i))

FairSpec == Spec /\ Fairness

-----------------------------------------------------------------------------
(* Properties                                                              *)

Charged(i) == ledger[i].status = "succeeded"

\* However often an event is delivered, a reply is lost or an instance stops,
\* one payment document is charged at most once (index.js:73-75: the push id is
\* the idempotency key "to protect against double charges").
AtMostOneCharge ==
    \A i, j \in Invocation : Charged(i) /\ Charged(j) /\ i[1] = j[1] => i = j

\* A payment the document calls succeeded was charged, and charged for this
\* document: the document is never ahead of Stripe, late and repeated writes
\* (index.js:89, 114) included.
DocNeverAhead ==
    \A x \in Push :
        doc[x].status = "succeeded" =>
            /\ doc[x].intent[1] = x
            /\ Charged(doc[x].intent)

\* Money comes from the customer of the account the document belongs to, or from
\* no customer at all, even when the customer documents change between the
\* lookup and the charge (index.js:72-80).
ChargedToOwner ==
    \A i \in Invocation :
        ledger[i].customer \in Customer =>
            madeFor[ledger[i].customer] = UserOf[i[1]]

\* What makes the three properties above inductive.

\* One key, one intent.
OneIntentPerPush ==
    \A i, j \in Invocation : Made(i) /\ Made(j) /\ i[1] = j[1] => i = j

\* An invocation charges the customer of its own account, and has an intent of
\* its own document to save; an intent that was answered is there, and one that
\* was answered as succeeded stays so.
LocalsAreOwn ==
    \A i \in Invocation :
        /\ invocation[i].customer \in Customer =>
                madeFor[invocation[i].customer] = UserOf[i[1]]
        /\ invocation[i].pc = "save" =>
                /\ invocation[i].payment \in Invocation
                /\ invocation[i].payment[1] = i[1]
                /\ ledger[invocation[i].payment].reply \in {"succeeded", "requires_action"}
        /\ ledger[i].reply = "succeeded" => Charged(i)
        /\ Made(i) <=> ledger[i].reply # "none"

\* A write that is still to come carries an intent of its document, and says
\* succeeded only of one that is.
WritesAreOwn ==
    \A w \in unawaited : w[2][1] = w[1] /\ (w[3] = "succeeded" => Charged(w[2]))

\* A document with a payment status carries an intent of its own.
DocsAreOwn ==
    \A x \in Push :
        doc[x].status \in IntentStatus =>
            doc[x].intent \in Invocation /\ doc[x].intent[1] = x

\* The inductive invariant of the payments: it implies AtMostOneCharge,
\* DocNeverAhead and ChargedToOwner (index.js:66-116).
PaymentsInv ==
    /\ TypeOK /\ DirectoryInv
    /\ OneIntentPerPush /\ LocalsAreOwn /\ WritesAreOwn /\ DocsAreOwn
    /\ DocNeverAhead /\ ChargedToOwner

\* A document that shows an error and no payment was not charged: what the user
\* sees as a failure did not take money.  Needs a network that answers, writes
\* that arrive and one delivery: the code itself cannot tell a lost reply from
\* a refused charge (index.js:90-95).
ErrorMeansUncharged ==
    \A x \in Push :
        doc[x].error => \A i \in Invocation : i[1] = x => ~Charged(i)

\* A payment that succeeded is never shown as anything else again.  A creation
\* event delivered late writes the first answer over the final one, so this
\* holds only when every event is delivered once (index.js:89).
SuccessSticks ==
    [][\A x \in Push :
        doc[x].status = "succeeded" =>
            /\ doc'[x].status = "succeeded"
            /\ ~doc'[x].error]_vars

\* Every payment document the client adds is answered, with a status or with an
\* error (index.js:88-95), when instances are not stopped and writes arrive.
Answered ==
    \A x \in Push :
        doc[x].status = "new" ~> (doc[x].status # "new" \/ doc[x].error)

\* "When 3D Secure is performed, we need to reconfirm the payment"
\* (index.js:102-103): an authenticated intent does not stay unconfirmed.
Reconfirmed ==
    \A i \in Invocation :
        ledger[i].status = "requires_confirmation" ~>
            ledger[i].status # "requires_confirmation"
=============================================================================
