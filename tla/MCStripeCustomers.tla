------------------------- MODULE MCStripeCustomers -------------------------
(* Small sets for the account functions; the cfg files choose among them. *)
EXTENDS StripeCustomers, TLC

CONSTANTS u1, u2, c1, c2, m1, m2

OneUser == {u1}
TwoUsers == {u1, u2}
TwoCustomers == {c1, c2}
OneMethod == {m1}
TwoMethods == {m1, m2}
First == [m \in {m1} |-> u1]
Both == [m \in {m1, m2} |-> IF m = m1 THEN u1 ELSE u2]

\* Two accounts; of the second one only the creation, which is delivered once and
\* does not throw, beside everything that can happen to the first.
TwoAccountsNext ==
    \/ \E u \in User : SignUp(u)
    \/ DeleteAccount(u1)
    \/ \E m \in Method : AddMethod(m) \/ FlushDelete(m)
    \/ \E i \in {u1} \X Delivery :
        \/ CreateStripeCustomer(i) \/ CreationFails(i)
        \/ CleanupUser(i) \/ CleanupFails(i)
    \/ CreateStripeCustomer(<<u2, 1>>)
    \/ \E i \in Method \X Delivery : AddPaymentMethodDetails(i) \/ AdditionFails(i)

TwoAccountsSpec == Init /\ [][TwoAccountsNext]_vars

\* Customers are interchangeable: Stripe picks their ids.
AnyCustomer == Permutations(Customer)
=============================================================================
