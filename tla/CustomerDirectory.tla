------------------------- MODULE CustomerDirectory -------------------------
(***************************************************************************)
(* What the rest of the backend may rely on about the documents            *)
(* stripe_customers/{uid} and the Stripe customers behind them, whatever   *)
(* the order in which the account functions of                             *)
(* src/Functions/functions/index.js run, fail and are delivered again.     *)
(*                                                                         *)
(* This is the abstract specification: StripeCustomers (the functions step *)
(* by step) implements it, and StripePayments uses it as its environment.  *)
(***************************************************************************)

CONSTANTS User,      \* Firebase accounts, by uid
          Customer   \* the customer objects Stripe may create

VARIABLES field,     \* what reading data().customer_id of the user's document gives
          madeFor,   \* the account a Stripe customer was created for
          deleted    \* customers deleted at Stripe

directoryVars == <<field, madeFor, deleted>>

\* A missing document, and a document that has no customer_id field.
NoDoc     == "NoDoc"
Undefined == "Undefined"
Nobody    == "Nobody"

ASSUME CustomersAreNotMarks == Customer \cap {NoDoc, Undefined, Nobody} = {}
ASSUME UsersAreNotMarks     == Nobody \notin User

DirectoryTypeOK ==
    /\ field \in [User -> Customer \cup {NoDoc, Undefined}]
    /\ madeFor \in [Customer -> User \cup {Nobody}]
    /\ deleted \subseteq Customer

DirectoryInit ==
    /\ field = [u \in User |-> NoDoc]
    /\ madeFor = [c \in Customer |-> Nobody]
    /\ deleted = {}

\* Stripe creates a customer for a new account.
CreateCustomer(u) ==
    \E c \in Customer :
        /\ madeFor[c] = Nobody
        /\ madeFor' = [madeFor EXCEPT ![c] = u]
        /\ UNCHANGED <<field, deleted>>

\* The document is written with a customer that was created for that account.
StoreCustomer(u) ==
    \E c \in Customer :
        /\ madeFor[c] = u
        /\ field' = [field EXCEPT ![u] = c]
        /\ UNCHANGED <<madeFor, deleted>>

\* A merge into the document creates it when it is not there.
TouchDocument(u) ==
    /\ field[u] = NoDoc
    /\ field' = [field EXCEPT ![u] = Undefined]
    /\ UNCHANGED <<madeFor, deleted>>

\* Stripe deletes a customer of the account.
DeleteCustomer(u) ==
    \E c \in Customer :
        /\ madeFor[c] = u
        /\ deleted' = deleted \cup {c}
        /\ UNCHANGED <<field, madeFor>>

DropDocument(u) ==
    /\ field' = [field EXCEPT ![u] = NoDoc]
    /\ UNCHANGED <<madeFor, deleted>>

DirectoryNext ==
    \E u \in User :
        \/ CreateCustomer(u)
        \/ StoreCustomer(u)
        \/ TouchDocument(u)
        \/ DeleteCustomer(u)
        \/ DropDocument(u)

DirectorySpec == DirectoryInit /\ [][DirectoryNext]_directoryVars

\* A document never names the customer of another account: the lookup
\* createStripePayment makes before a charge (index.js:72) returns a customer
\* that createStripeCustomer made for the account in the document's path.
OwnCustomer ==
    \A u \in User : field[u] \in Customer => madeFor[field[u]] = u

\* Only a customer that exists can be deleted at Stripe, and the account it
\* was made for never changes (index.js:21, 125).
DeletedWereMade == \A c \in deleted : madeFor[c] # Nobody

\* The inductive invariant.
DirectoryInv == DirectoryTypeOK /\ OwnCustomer /\ DeletedWereMade
=============================================================================
