------------------------------ MODULE Backend ------------------------------
(***************************************************************************)
(* All the functions of src/Functions/functions/index.js that use Stripe,  *)
(* on one set of documents and one Stripe account: StripePayments with the *)
(* steps of StripeCustomers in the place of CustomerDirectory.             *)
(***************************************************************************)
EXTENDS StripePayments

CONSTANTS Method, OwnerOf, Fails,
          AccountDeliveries  \* how often an event of an account is delivered

VARIABLES secret, account, method, attached, creation, addition, cleanup, deletes

accountVars == <<secret, account, method, attached, creation, addition, cleanup, deletes>>
backendVars == <<vars, accountVars>>

ASSUME MethodsType == OwnerOf \in [Method -> User]
ASSUME AccountDeliveriesType == AccountDeliveries \in Nat \ {0}
ASSUME FailsType == Fails \in BOOLEAN

Accounts == INSTANCE StripeCustomers WITH MaxDeliveries <- AccountDeliveries

BackendInit == Init /\ Accounts!Init

\* A payment document is added by a user who is signed in.
BackendPayment ==
    /\ PaymentStep
    /\ \A x \in Push : doc[x].status = "absent" /\ account[UserOf[x]] # "live" => doc'[x] = doc[x]
    /\ UNCHANGED accountVars

BackendAccount == Accounts!Next /\ UNCHANGED paymentVars

BackendSpec == BackendInit /\ [][BackendPayment \/ BackendAccount]_backendVars

-----------------------------------------------------------------------------

\* A payment is made with the customer the account's document names, or one that
\* another delivery of the account's creation stored or a cleanup dropped since:
\* an invocation never holds on to a customer that was not stored (index.js:72).
CustomersInUseWereStored ==
    \A i \in Invocation :
        invocation[i].customer \in Customer =>
            \E k \in User \X Accounts!Delivery :
                /\ k[1] = UserOf[i[1]]
                /\ creation[k].customer = invocation[i].customer
                /\ creation[k].pc = "done"

\* A document goes only after its customer went at Stripe, wherever the cleanup or
\* any other function throws (index.js:125, 132): the reference is not lost while
\* the customer it names lives.  Needs events that are delivered once.
DeletedBeforeDropped ==
    [][\A u \in User :
        field[u] \in Customer /\ field'[u] = NoDoc => field[u] \in deleted]_backendVars

\* "Delete the customers payments & payment methods in firestore" (index.js:126):
\* when the cleanup of an account is done and its deletes have reached Firestore,
\* the documents are gone.
CleanupLeavesNoPayments ==
    \A x \in Push, d \in Accounts!Delivery :
        cleanup[<<UserOf[x], d>>].pc = "done" => doc[x].status = "absent"
=============================================================================
