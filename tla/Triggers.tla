------------------------------ MODULE Triggers ------------------------------
(***************************************************************************)
(* How the client and the functions meet: the client writes documents      *)
(* (src/LidoraClient/Lidora/Services/DataService.swift), Firestore starts  *)
(* the functions whose document pattern matches                            *)
(* (src/Functions/functions/index.js).  A path is                          *)
(* <<collection, uid, subcollection, id>>.                                 *)
(***************************************************************************)
CONSTANTS User, Id

VARIABLES documents,  \* the paths of the documents that exist
          started     \* <<function, path>> of the functions that were started

vars == <<documents, started>>

Path == {"customers", "stripe_customers"} \X User \X {"payment_methods", "payments"} \X Id

\* RefPaymentsMethods, RefPayments
RefPaymentsMethods(u) == <<"customers", u, "payment_methods">>
RefPayments(u) == <<"customers", u, "payments">>

\* functions.firestore.document('...').onCreate
Pattern == [addPaymentMethodDetails |-> <<"stripe_customers", "payment_methods">>,
            createStripePayment     |-> <<"stripe_customers", "payments">>]

Matches(f, path) == Pattern[f] = <<path[1], path[3]>>

Init == documents = {} /\ started = {}

\* A document that is there is merged into: setData(_, merge: true).
Set(reference, id) ==
    /\ documents' = documents \cup {<<reference[1], reference[2], reference[3], id>>}
    /\ UNCHANGED started

AddPaymentMethod(u) == \E id \in Id : Set(RefPaymentsMethods(u), id)
CompleteCharge(u) == \E id \in Id : Set(RefPayments(u), id)

\* A document was created whose path matches the function's pattern.
Start(f) ==
    \E path \in documents :
        /\ Matches(f, path)
        /\ started' = started \cup {<<f, path>>}
        /\ UNCHANGED documents

Next ==
    \/ \E u \in User : AddPaymentMethod(u) \/ CompleteCharge(u)
    \/ \E f \in DOMAIN Pattern : Start(f)

FairSpec ==
    /\ Init /\ [][Next]_vars
    /\ \A f \in DOMAIN Pattern, path \in Path :
        WF_vars(Start(f) /\ <<f, path>> \in started')

\* "When adding the payment method ID on the client, this function is triggered"
\* (index.js:34-35): addPaymentMethodDetails is started for every payment method
\* the client adds.
AddedMethodsStartTheFunction ==
    \A path \in Path :
        path \in documents /\ path[3] = "payment_methods" ~>
            <<"addPaymentMethodDetails", path>> \in started
=============================================================================
