-------------------------- MODULE StripeCustomers --------------------------
(***************************************************************************)
(* createStripeCustomer, addPaymentMethodDetails and cleanupUser of        *)
(* src/Functions/functions/index.js: the customer document                 *)
(* stripe_customers/{uid} and its payment_methods from the creation of an  *)
(* account to its deletion.                                                *)
(*                                                                         *)
(* Every invocation advances one await at a time, beside every other one;  *)
(* nothing orders the three functions but the events that start them.      *)
(***************************************************************************)
EXTENDS CustomerDirectory, Naturals

CONSTANTS Method,         \* payment method documents, by pushId
          OwnerOf,        \* the account whose collection a document is in
          MaxDeliveries,  \* how often one event is delivered
          Fails,          \* TRUE: a call to Stripe or Firestore may throw
          None            \* no value

ASSUME OwnerOfType == OwnerOf \in [Method -> User]
ASSUME DeliveriesType == MaxDeliveries \in Nat \ {0}
ASSUME FailsType == Fails \in BOOLEAN
ASSUME NoneIsNoValue == None \notin Customer \cup {NoDoc, Undefined}

VARIABLES secret,     \* the customer whose SetupIntent secret the document holds
          account,    \* the Firebase account
          method,     \* the payment method documents
          attached,   \* the customer a payment method was attached to at Stripe
          creation,   \* invocations of createStripeCustomer
          addition,   \* invocations of addPaymentMethodDetails
          cleanup,    \* invocations of cleanupUser
          deletes     \* deletes of methods that cleanupUser started and did not await

functionVars == <<creation, addition, cleanup, deletes>>
vars == <<directoryVars, secret, account, method, attached, functionVars>>

Delivery == 1 .. MaxDeliveries

Invocations(T, Pc) == [T \X Delivery -> [pc : Pc, customer : Customer \cup {None}]]
Waiting(T) == [i \in T \X Delivery |-> [pc |-> "waiting", customer |-> None]]


TypeOK ==
    /\ DirectoryTypeOK
    /\ secret \in [User -> Customer \cup {None}]
    /\ account \in [User -> {"none", "live", "gone"}]
    /\ method \in [Method -> {"absent", "id", "details", "error", "both"}]
    /\ attached \in [Method -> Customer \cup {None}]
    /\ creation \in Invocations(User, {"waiting", "intent", "store", "done", "failed"})
    /\ addition \in Invocations(Method,
            {"waiting", "retrieve", "save", "intent", "merge", "report", "done"})
    /\ cleanup \in Invocations(User,
            {"waiting", "read", "delete", "list", "drop", "done", "failed"})
    /\ deletes \subseteq Method

Init ==
    /\ DirectoryInit
    /\ secret = [u \in User |-> None]
    /\ account = [u \in User |-> "none"]
    /\ method = [m \in Method |-> "absent"]
    /\ attached = [m \in Method |-> None]
    /\ creation = Waiting(User)
    /\ addition = Waiting(Method)
    /\ cleanup = Waiting(User)
    /\ deletes = {}

-----------------------------------------------------------------------------
(* The user: Firebase Auth and the client (not in src/Functions).          *)

SignUp(u) ==
    /\ account[u] = "none"
    /\ account' = [account EXCEPT ![u] = "live"]
    /\ UNCHANGED <<directoryVars, secret, method, attached, functionVars>>

DeleteAccount(u) ==
    /\ account[u] = "live"
    /\ account' = [account EXCEPT ![u] = "gone"]
    /\ UNCHANGED <<directoryVars, secret, method, attached, functionVars>>

\* The client saves a card with the secret of the document, which attaches it
\* to the secret's customer, and adds a document with the id it gets.
AddMethod(m) ==
    LET u == OwnerOf[m] IN
    /\ account[u] = "live"
    /\ attached[m] = None
    /\ secret[u] # None
    /\ secret[u] \notin deleted
    /\ attached' = [attached EXCEPT ![m] = secret[u]]
    /\ method' = [method EXCEPT ![m] = "id"]
    /\ UNCHANGED <<directoryVars, secret, account, functionVars>>

-----------------------------------------------------------------------------
(* createStripeCustomer                                                    *)

CreationAt(i, pc) == creation[i].pc = pc
CreationGoto(i, pc) == creation' = [creation EXCEPT ![i].pc = pc]

\* The account's creation event; stripe.customers.create has no idempotency key,
\* so that every delivery makes a customer of its own.
MakeCustomer(i) ==
    /\ CreationAt(i, "waiting")
    /\ account[i[1]] # "none"
    /\ \E c \in Customer :
        /\ madeFor[c] = Nobody
        /\ madeFor' = [madeFor EXCEPT ![c] = i[1]]
        /\ creation' = [creation EXCEPT ![i] = [pc |-> "intent", customer |-> c]]
    /\ UNCHANGED <<field, deleted, secret, account, method, attached, addition, cleanup, deletes>>

\* A slip: the document is written while there is no SetupIntent yet.
StoreWhileMaking(i) ==
    /\ CreationAt(i, "intent")
    /\ field' = [field EXCEPT ![i[1]] = creation[i].customer]
    /\ CreationGoto(i, "store")
    /\ UNCHANGED <<madeFor, deleted, secret, account, method, attached, addition, cleanup, deletes>>

\* A slip: the document is not written.
IntentThenReturn(i) ==
    /\ CreationAt(i, "intent")
    /\ CreationGoto(i, "done")
    /\ UNCHANGED <<directoryVars, secret, account, method, attached, addition, cleanup, deletes>>

\* stripe.setupIntents.create({ customer })
MakeFirstIntent(i) ==
    /\ CreationAt(i, "intent")
    /\ creation[i].customer \notin deleted
    /\ CreationGoto(i, "store")
    /\ UNCHANGED <<directoryVars, secret, account, method, attached, addition, cleanup, deletes>>

\* A slip: the intent is kept in a variable that the invocations share.
StoreShared(i) ==
    /\ CreationAt(i, "store")
    /\ field' = [field EXCEPT ![i[1]] = creation[i].customer]
    /\ \E j \in User \X Delivery :
        /\ CreationAt(j, "store")
        /\ secret' = [secret EXCEPT ![i[1]] = creation[j].customer]
    /\ CreationGoto(i, "done")
    /\ UNCHANGED <<madeFor, deleted, account, method, attached, addition, cleanup, deletes>>

\* doc(user.uid).set({ customer_id, setup_secret }): replaces the document.
StoreDocument(i) ==
    /\ CreationAt(i, "store")
    /\ field' = [field EXCEPT ![i[1]] = creation[i].customer]
    /\ secret' = [secret EXCEPT ![i[1]] = creation[i].customer]
    /\ CreationGoto(i, "done")
    /\ UNCHANGED <<madeFor, deleted, account, method, attached, addition, cleanup, deletes>>

\* An await throws, or the instance stops; nothing catches it or starts over.
CreationFails(i) ==
    /\ Fails
    /\ creation[i].pc \in {"intent", "store"}
    /\ CreationGoto(i, "failed")
    /\ UNCHANGED <<directoryVars, secret, account, method, attached, addition, cleanup, deletes>>

CreateStripeCustomer(i) == MakeCustomer(i) \/ MakeFirstIntent(i) \/ StoreDocument(i)

-----------------------------------------------------------------------------
(* addPaymentMethodDetails                                                 *)

AdditionAt(i, pc) == addition[i].pc = pc
AdditionGoto(i, pc) == addition' = [addition EXCEPT ![i].pc = pc]

\* The creation event of a method document.
DeliverMethod(i) ==
    /\ AdditionAt(i, "waiting")
    /\ attached[i[1]] # None
    /\ AdditionGoto(i, "retrieve")
    /\ UNCHANGED <<directoryVars, secret, account, method, attached, creation, cleanup, deletes>>

\* paymentMethods.retrieve: deleting a customer detaches its methods.
Retrieve(i) ==
    LET c == attached[i[1]] IN
    /\ AdditionAt(i, "retrieve")
    /\ addition' = [addition EXCEPT
            ![i] = [pc |-> "save", customer |-> IF c \in deleted THEN None ELSE c]]
    /\ UNCHANGED <<directoryVars, secret, account, method, attached, creation, cleanup, deletes>>

\* snap.ref.set(paymentMethod): creates the document again if it was deleted.
SaveDetails(i) ==
    /\ AdditionAt(i, "save")
    /\ method' = [method EXCEPT ![i[1]] = "details"]
    /\ AdditionGoto(i, "intent")
    /\ UNCHANGED <<directoryVars, secret, account, attached, creation, cleanup, deletes>>

\* setupIntents.create({ customer: paymentMethod.customer })
MakeNextIntent(i) ==
    /\ AdditionAt(i, "intent")
    /\ IF addition[i].customer \in Customer \ deleted
       THEN AdditionGoto(i, "merge") ELSE AdditionGoto(i, "report")
    /\ UNCHANGED <<directoryVars, secret, account, method, attached, creation, cleanup, deletes>>

\* A slip: the document is replaced.
SetSecret(i) ==
    LET u == OwnerOf[i[1]] IN
    /\ AdditionAt(i, "merge")
    /\ secret' = [secret EXCEPT ![u] = addition[i].customer]
    /\ field' = [field EXCEPT ![u] = Undefined]
    /\ AdditionGoto(i, "done")
    /\ UNCHANGED <<madeFor, deleted, account, method, attached, creation, cleanup, deletes>>

\* snap.ref.parent.parent.set({ setup_secret }, { merge: true }): makes a document
\* without customer_id when there is none.
MergeSecret(i) ==
    LET u == OwnerOf[i[1]] IN
    /\ AdditionAt(i, "merge")
    /\ secret' = [secret EXCEPT ![u] = addition[i].customer]
    /\ field' = [field EXCEPT ![u] = IF @ = NoDoc THEN Undefined ELSE @]
    /\ AdditionGoto(i, "done") \/ (Fails /\ AdditionGoto(i, "report"))
    /\ UNCHANGED <<madeFor, deleted, account, method, attached, creation, cleanup, deletes>>

\* Any await of the try block throws, or the instance stops.
AdditionFails(i) ==
    /\ Fails
    /\ \/ /\ addition[i].pc \in {"retrieve", "save", "intent", "merge"}
          /\ AdditionGoto(i, "report")
       \/ /\ addition[i].pc \in {"retrieve", "save", "intent", "merge", "report"}
          /\ AdditionGoto(i, "done")
    /\ UNCHANGED <<directoryVars, secret, account, method, attached, creation, cleanup, deletes>>

\* catch: snap.ref.set({ error }, { merge: true })
ReportMethod(i) ==
    /\ AdditionAt(i, "report")
    /\ method' = [method EXCEPT
            ![i[1]] = IF @ \in {"details", "both"} THEN "both" ELSE "error"]
    /\ AdditionGoto(i, "done")
    /\ UNCHANGED <<directoryVars, secret, account, attached, creation, cleanup, deletes>>

AddPaymentMethodDetails(i) ==
    \/ DeliverMethod(i) \/ Retrieve(i) \/ SaveDetails(i) \/ MakeNextIntent(i)
    \/ MergeSecret(i) \/ ReportMethod(i)

-----------------------------------------------------------------------------
(* cleanupUser                                                             *)

CleanupAt(i, pc) == cleanup[i].pc = pc
CleanupGoto(i, pc) == cleanup' = [cleanup EXCEPT ![i].pc = pc]

DeliverDeletion(i) ==
    /\ CleanupAt(i, "waiting")
    /\ account[i[1]] = "gone"
    /\ CleanupGoto(i, "read")
    /\ UNCHANGED <<directoryVars, secret, account, method, attached, creation, addition, deletes>>

\* (await dbRef.doc(user.uid).get()).data(): a TypeError without a document, and
\* an error from Stripe's client without a customer_id.
ReadCustomer(i) ==
    LET found == field[i[1]] IN
    /\ CleanupAt(i, "read")
    /\ IF found \in Customer
       THEN cleanup' = [cleanup EXCEPT ![i] = [pc |-> "delete", customer |-> found]]
       ELSE CleanupGoto(i, "failed")
    /\ UNCHANGED <<directoryVars, secret, account, method, attached, creation, addition, deletes>>

\* A slip: an error of the call is swallowed.
DeleteOrIgnore(i) ==
    LET c == cleanup[i].customer IN
    /\ CleanupAt(i, "delete")
    /\ \/ deleted' = deleted \cup {c}
       \/ Fails /\ UNCHANGED deleted
    /\ CleanupGoto(i, "list")
    /\ UNCHANGED <<field, madeFor, secret, account, method, attached, creation, addition, deletes>>

\* stripe.customers.del: an error for a customer that is deleted already.
DeleteAtStripe(i) ==
    LET c == cleanup[i].customer IN
    /\ CleanupAt(i, "delete")
    /\ deleted' = deleted \cup {c}
    /\ IF c \in deleted THEN CleanupGoto(i, "failed") ELSE CleanupGoto(i, "list")
    /\ UNCHANGED <<field, madeFor, secret, account, method, attached, creation, addition, deletes>>

\* The query for payment_methods, and a delete of each that is not awaited.
ListMethods(i) ==
    /\ CleanupAt(i, "list")
    /\ deletes' = deletes \cup {m \in Method : OwnerOf[m] = i[1] /\ method[m] # "absent"}
    /\ CleanupGoto(i, "drop")
    /\ UNCHANGED <<directoryVars, secret, account, method, attached, creation, addition>>

\* A slip: the document is left.
DropNothing(i) ==
    /\ CleanupAt(i, "drop")
    /\ CleanupGoto(i, "done")
    /\ UNCHANGED <<directoryVars, secret, account, method, attached, creation, addition, deletes>>

\* await dbRef.doc(user.uid).delete()
DropCustomer(i) ==
    /\ CleanupAt(i, "drop")
    /\ field' = [field EXCEPT ![i[1]] = NoDoc]
    /\ secret' = [secret EXCEPT ![i[1]] = None]
    /\ CleanupGoto(i, "done")
    /\ UNCHANGED <<madeFor, deleted, account, method, attached, creation, addition, deletes>>

CleanupFails(i) ==
    /\ Fails
    /\ cleanup[i].pc \in {"read", "delete", "list", "drop"}
    /\ CleanupGoto(i, "failed")
    /\ UNCHANGED <<directoryVars, secret, account, method, attached, creation, addition, deletes>>

\* An unawaited delete reaches Firestore, or never does.
FlushDelete(m) ==
    /\ m \in deletes
    /\ deletes' = deletes \ {m}
    /\ \/ method' = [method EXCEPT ![m] = "absent"]
       \/ Fails /\ UNCHANGED method
    /\ UNCHANGED <<directoryVars, secret, account, attached, creation, addition, cleanup>>

CleanupUser(i) ==
    \/ DeliverDeletion(i) \/ ReadCustomer(i) \/ DeleteAtStripe(i) \/ ListMethods(i)
    \/ DropCustomer(i)

-----------------------------------------------------------------------------

Next ==
    \/ \E u \in User : SignUp(u) \/ DeleteAccount(u)
    \/ \E m \in Method : AddMethod(m) \/ FlushDelete(m)
    \/ \E i \in User \X Delivery :
        \/ CreateStripeCustomer(i) \/ CreationFails(i)
        \/ CleanupUser(i) \/ CleanupFails(i)
    \/ \E i \in Method \X Delivery : AddPaymentMethodDetails(i) \/ AdditionFails(i)

Spec == Init /\ [][Next]_vars

\* Every event is delivered and every invocation that started goes on.
Fairness ==
    /\ \A i \in User \X Delivery : WF_vars(CreateStripeCustomer(i)) /\ WF_vars(CleanupUser(i))
    /\ \A i \in Method \X Delivery : WF_vars(AddPaymentMethodDetails(i))

FairSpec == Spec /\ Fairness

-----------------------------------------------------------------------------
(* Properties                                                              *)

\* The secret a document offers to the client belongs to a customer of the same
\* account, so that a card saved with it is attached to that account, whichever
\* function wrote it last (index.js:27, 52).
SecretOfOwnCustomer ==
    \A u \in User : secret[u] # None => madeFor[secret[u]] = u

\* What makes SecretOfOwnCustomer inductive: every customer an invocation or a
\* payment method carries was made for the account it works for.
CreationsOwn ==
    \A i \in User \X Delivery :
        /\ creation[i].pc \in {"intent", "store"} => creation[i].customer \in Customer
        /\ creation[i].customer \in Customer => madeFor[creation[i].customer] = i[1]

CleanupsOwn ==
    \A i \in User \X Delivery :
        /\ cleanup[i].pc = "delete" => cleanup[i].customer \in Customer
        /\ cleanup[i].customer \in Customer => madeFor[cleanup[i].customer] = i[1]

AdditionsOwn ==
    \A i \in Method \X Delivery :
        /\ addition[i].pc \in {"retrieve", "save", "intent", "merge"} => attached[i[1]] # None
        /\ addition[i].pc = "merge" => addition[i].customer \in Customer
        /\ addition[i].customer \in Customer =>
                madeFor[addition[i].customer] = OwnerOf[i[1]]

AttachedOwn ==
    \A m \in Method : attached[m] # None => madeFor[attached[m]] = OwnerOf[m]

OwnLocals == CreationsOwn /\ CleanupsOwn /\ AdditionsOwn /\ AttachedOwn

\* The inductive invariant of the account functions (index.js:20-61, 122-134).
CustomersInv == TypeOK /\ DirectoryInv /\ SecretOfOwnCustomer /\ OwnLocals

Holds(i, c) == creation[i].customer = c /\ creation[i].pc \in {"intent", "store"}

\* No Stripe customer is forgotten: one that was made for an account is deleted,
\* or the document leads to it, or the invocation that made it is on its way to
\* store it.  Needs calls that do not throw and one delivery.
NoForgottenCustomer ==
    \A c \in Customer :
        madeFor[c] # Nobody =>
            \/ c \in deleted
            \/ field[madeFor[c]] = c
            \/ \E i \in User \X Delivery : Holds(i, c)

Cleaned(u) ==
    /\ field[u] = NoDoc
    /\ \A c \in Customer : madeFor[c] = u => c \in deleted

\* Nothing of the account is under way, and its customer is stored.
Settled(u) ==
    /\ field[u] \in Customer
    /\ \A i \in User \X Delivery : i[1] = u => creation[i].pc = "done"
    /\ \A i \in Method \X Delivery :
        OwnerOf[i[1]] = u /\ attached[i[1]] # None => addition[i].pc = "done"
    /\ \A i \in User \X Delivery : i[1] = u => cleanup[i].pc = "waiting"

\* The deletion of an account whose functions have all finished is cleaned up.
SettledAccountsAreCleaned ==
    \A u \in User : account[u] = "gone" /\ Settled(u) ~> Cleaned(u)

\* "When a user deletes their account, clean up after them" (index.js:120):
\* stated of every deletion, whatever is under way.
DeletedAccountsAreCleaned ==
    \A u \in User : account[u] = "gone" ~> Cleaned(u)

=============================================================================
