---------------------- MODULE CustomerDirectoryProofs ----------------------
(***************************************************************************)
(* The invariants of CustomerDirectory, for any accounts and customers.    *)
(***************************************************************************)
EXTENDS CustomerDirectory, TLAPS

\* One step of any account function keeps the directory's invariant.
LEMMA DirectoryStep ==
    ASSUME DirectoryInv, [DirectoryNext]_directoryVars
    PROVE  DirectoryInv'
<1> USE CustomersAreNotMarks, UsersAreNotMarks
        DEF DirectoryInv, DirectoryTypeOK, OwnCustomer, DeletedWereMade,
            NoDoc, Undefined, Nobody
<1>1. CASE UNCHANGED directoryVars
    BY <1>1 DEF directoryVars
<1>2. ASSUME NEW u \in User, CreateCustomer(u) PROVE DirectoryInv'
    BY <1>2 DEF CreateCustomer
<1>3. ASSUME NEW u \in User, StoreCustomer(u) PROVE DirectoryInv'
    BY <1>3 DEF StoreCustomer
<1>4. ASSUME NEW u \in User, TouchDocument(u) PROVE DirectoryInv'
    BY <1>4 DEF TouchDocument
<1>5. ASSUME NEW u \in User, DeleteCustomer(u) PROVE DirectoryInv'
    BY <1>5 DEF DeleteCustomer
<1>6. ASSUME NEW u \in User, DropDocument(u) PROVE DirectoryInv'
    BY <1>6 DEF DropDocument
<1>7. QED
    BY <1>1, <1>2, <1>3, <1>4, <1>5, <1>6 DEF DirectoryNext

LEMMA DirectoryStart == DirectoryInit => DirectoryInv
    BY CustomersAreNotMarks
       DEF DirectoryInit, DirectoryInv, DirectoryTypeOK, OwnCustomer, DeletedWereMade,
           NoDoc, Undefined, Nobody

\* A customer keeps the account it was made for: only customers of nobody are
\* given to an account (index.js:21).
LEMMA MadeForIsStable ==
    ASSUME DirectoryTypeOK, [DirectoryNext]_directoryVars,
           NEW c \in Customer, madeFor[c] # Nobody
    PROVE  madeFor'[c] = madeFor[c]
<1> USE DEF DirectoryTypeOK
<1>1. CASE UNCHANGED directoryVars
    BY <1>1 DEF directoryVars
<1>2. CASE DirectoryNext
    BY <1>2 DEF DirectoryNext, CreateCustomer, StoreCustomer, TouchDocument,
                DeleteCustomer, DropDocument
<1>3. QED
    BY <1>1, <1>2

\* The lookup before a charge returns a customer of the account in the
\* document's path, for every interleaving of the account functions.
THEOREM DirectoryOwnCustomer == DirectorySpec => []OwnCustomer
<1>1. DirectoryInv => OwnCustomer
    BY DEF DirectoryInv
<1>2. QED
    BY <1>1, DirectoryStart, DirectoryStep, PTL DEF DirectorySpec
=============================================================================
