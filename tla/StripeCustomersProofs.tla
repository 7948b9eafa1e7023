----------------------- MODULE StripeCustomersProofs -----------------------
(***************************************************************************)
(* The account functions, for any accounts, customers, methods and number  *)
(* of deliveries: they implement CustomerDirectory, and a document's       *)
(* secret is always one of the account's own customers.                    *)
(***************************************************************************)
EXTENDS StripeCustomers, CustomerDirectoryProofs

LEMMA InvocationParts ==
    /\ \A i \in User \X Delivery : i[1] \in User
    /\ \A i \in Method \X Delivery : i[1] \in Method /\ OwnerOf[i[1]] \in User
    /\ \A m \in Method : OwnerOf[m] \in User
    BY OwnerOfType

LEMMA CustomersStart == Init => CustomersInv
<1> SUFFICES ASSUME Init PROVE CustomersInv
    OBVIOUS
<1> USE NoneIsNoValue, InvocationParts DEF Init, Waiting
<1>1. DirectoryInv
    BY DirectoryStart
<1>2. TypeOK
    BY <1>1 DEF TypeOK, DirectoryInv, Invocations
<1>3. SecretOfOwnCustomer /\ OwnLocals
    BY DEF SecretOfOwnCustomer, OwnLocals, CreationsOwn, CleanupsOwn, AdditionsOwn, AttachedOwn
<1>4. QED
    BY <1>1, <1>2, <1>3 DEF CustomersInv

-----------------------------------------------------------------------------
(* Refinement: every action is a step of the directory, or leaves it.      *)

LEMMA CreationImplements ==
    ASSUME CustomersInv, NEW i \in User \X Delivery,
           CreateStripeCustomer(i) \/ CreationFails(i)
    PROVE  [DirectoryNext]_directoryVars
<1> USE InvocationParts DEF directoryVars
<1>1. CASE MakeCustomer(i)
    BY <1>1 DEF MakeCustomer, DirectoryNext, CreateCustomer
<1>2. CASE StoreDocument(i)
    BY <1>2 DEF StoreDocument, CreationAt, CustomersInv, OwnLocals, CreationsOwn, DirectoryNext,
                StoreCustomer
<1>3. CASE MakeFirstIntent(i) \/ CreationFails(i)
    BY <1>3 DEF MakeFirstIntent, CreationFails
<1>4. QED
    BY <1>1, <1>2, <1>3 DEF CreateStripeCustomer

LEMMA AdditionImplements ==
    ASSUME CustomersInv, NEW i \in Method \X Delivery,
           AddPaymentMethodDetails(i) \/ AdditionFails(i)
    PROVE  [DirectoryNext]_directoryVars
<1> USE InvocationParts DEF directoryVars
<1>1. CASE MergeSecret(i)
    <2> DEFINE u == OwnerOf[i[1]]
    <2>1. u \in User /\ UNCHANGED <<madeFor, deleted>>
        BY <1>1 DEF MergeSecret
    <2>2. CASE field[u] = NoDoc
        BY <1>1, <2>1, <2>2 DEF MergeSecret, DirectoryNext, TouchDocument
    <2>3. CASE field[u] # NoDoc
        BY <1>1, <2>1, <2>3 DEF MergeSecret, CustomersInv, TypeOK, DirectoryTypeOK
    <2>4. QED
        BY <2>2, <2>3
<1>2. CASE ~MergeSecret(i)
    BY <1>2 DEF AddPaymentMethodDetails, DeliverMethod, Retrieve, SaveDetails,
                MakeNextIntent, ReportMethod, AdditionFails
<1>3. QED
    BY <1>1, <1>2

LEMMA CleanupImplements ==
    ASSUME CustomersInv, NEW i \in User \X Delivery,
           CleanupUser(i) \/ CleanupFails(i)
    PROVE  [DirectoryNext]_directoryVars
<1> USE InvocationParts DEF directoryVars
<1>1. CASE DeleteAtStripe(i)
    BY <1>1 DEF DeleteAtStripe, CleanupAt, CustomersInv, OwnLocals, CleanupsOwn, DirectoryNext,
                DeleteCustomer
<1>2. CASE DropCustomer(i)
    BY <1>2 DEF DropCustomer, DirectoryNext, DropDocument
<1>3. CASE DeliverDeletion(i) \/ ReadCustomer(i) \/ ListMethods(i) \/ CleanupFails(i)
    BY <1>3 DEF DeliverDeletion, ReadCustomer, ListMethods, CleanupFails
<1>4. QED
    BY <1>1, <1>2, <1>3 DEF CleanupUser

LEMMA NextImplements ==
    ASSUME CustomersInv, [Next]_vars
    PROVE  [DirectoryNext]_directoryVars
<1>1. CASE UNCHANGED vars
    BY <1>1 DEF vars, directoryVars
<1>2. ASSUME NEW u \in User, SignUp(u) \/ DeleteAccount(u)
      PROVE  UNCHANGED directoryVars
    BY <1>2 DEF SignUp, DeleteAccount
<1>3. ASSUME NEW m \in Method, AddMethod(m) \/ FlushDelete(m)
      PROVE  UNCHANGED directoryVars
    BY <1>3 DEF AddMethod, FlushDelete
<1>4. QED
    BY <1>1, <1>2, <1>3, CreationImplements, AdditionImplements, CleanupImplements
       DEF Next

-----------------------------------------------------------------------------
(* The invariant, action by action.                                        *)

\* What every step leaves: the directory's invariant, and whose each customer is.
LEMMA StepFacts ==
    ASSUME CustomersInv, [Next]_vars
    PROVE  /\ DirectoryInv'
           /\ \A c \in Customer, u \in User : madeFor[c] = u => madeFor'[c] = u
<1>1. [DirectoryNext]_directoryVars
    BY NextImplements
<1>2. DirectoryInv'
    BY <1>1, DirectoryStep DEF CustomersInv
<1>3. \A c \in Customer : madeFor[c] # Nobody => madeFor'[c] = madeFor[c]
    BY <1>1, MadeForIsStable DEF CustomersInv, TypeOK
<1>4. QED
    BY <1>2, <1>3, UsersAreNotMarks

\* The locals of functions that do not move stay theirs.
LEMMA OthersKeep ==
    ASSUME CustomersInv, [Next]_vars
    PROVE  /\ UNCHANGED creation => CreationsOwn'
           /\ UNCHANGED cleanup => CleanupsOwn'
           /\ UNCHANGED <<addition, attached>> => AdditionsOwn'
           /\ UNCHANGED attached => AttachedOwn'
           /\ UNCHANGED secret => SecretOfOwnCustomer'
<1> USE NoneIsNoValue, InvocationParts DEF CustomersInv, OwnLocals
<1>1. \A c \in Customer, u \in User : madeFor[c] = u => madeFor'[c] = u
    BY StepFacts
<1>2. UNCHANGED creation => CreationsOwn'
    BY <1>1 DEF CreationsOwn
<1>3. UNCHANGED cleanup => CleanupsOwn'
    BY <1>1 DEF CleanupsOwn
<1>4. UNCHANGED <<addition, attached>> => AdditionsOwn'
    BY <1>1 DEF AdditionsOwn
<1>5. UNCHANGED attached => AttachedOwn'
    BY <1>1 DEF AttachedOwn, TypeOK
<1>6. UNCHANGED secret => SecretOfOwnCustomer'
    BY <1>1 DEF SecretOfOwnCustomer, TypeOK
<1>7. QED
    BY <1>2, <1>3, <1>4, <1>5, <1>6

LEMMA AccountKeeps ==
    ASSUME CustomersInv, [Next]_vars, NEW u \in User, SignUp(u) \/ DeleteAccount(u)
    PROVE  CustomersInv'
<1> USE DEF CustomersInv, SignUp, DeleteAccount, functionVars, directoryVars
<1>1. DirectoryInv'
    BY StepFacts
<1>2. TypeOK'
    BY <1>1 DEF TypeOK, DirectoryInv
<1>3. SecretOfOwnCustomer' /\ OwnLocals'
    BY OthersKeep DEF OwnLocals
<1>4. QED
    BY <1>1, <1>2, <1>3

LEMMA MethodKeeps ==
    ASSUME CustomersInv, [Next]_vars, NEW m \in Method, AddMethod(m) \/ FlushDelete(m)
    PROVE  CustomersInv'
<1> USE InvocationParts DEF CustomersInv, AddMethod, FlushDelete, functionVars, directoryVars
<1>1. DirectoryInv'
    BY StepFacts
<1>2. TypeOK'
    BY <1>1 DEF TypeOK, DirectoryInv
<1>3. SecretOfOwnCustomer' /\ CreationsOwn' /\ CleanupsOwn'
    BY OthersKeep
<1>4. AdditionsOwn'
    BY DEF OwnLocals, AdditionsOwn, TypeOK
<1>5. AttachedOwn'
    BY DEF OwnLocals, AttachedOwn, SecretOfOwnCustomer, TypeOK
<1>6. QED
    BY <1>1, <1>2, <1>3, <1>4, <1>5 DEF OwnLocals

LEMMA CreationKeeps ==
    ASSUME CustomersInv, [Next]_vars, NEW i \in User \X Delivery,
           CreateStripeCustomer(i) \/ CreationFails(i)
    PROVE  CustomersInv'
<1> USE NoneIsNoValue, InvocationParts
        DEF CustomersInv, CreationAt, CreationGoto, directoryVars
<1>1. /\ DirectoryInv'
      /\ \A c \in Customer, u \in User : madeFor[c] = u => madeFor'[c] = u
    BY StepFacts
<1>2. UNCHANGED <<account, method, attached, addition, cleanup, deletes>>
    BY DEF CreateStripeCustomer, MakeCustomer, MakeFirstIntent, StoreDocument, CreationFails
<1>3. CASE MakeCustomer(i)
    <2>1. PICK c \in Customer :
            /\ madeFor'[c] = i[1]
            /\ creation' = [creation EXCEPT ![i] = [pc |-> "intent", customer |-> c]]
        BY <1>3 DEF MakeCustomer, TypeOK, DirectoryTypeOK
    <2>2. UNCHANGED secret
        BY <1>3 DEF MakeCustomer
    <2>3. TypeOK'
        BY <1>1, <1>2, <2>1, <2>2 DEF TypeOK, DirectoryInv, Invocations
    <2>4. SecretOfOwnCustomer' /\ CleanupsOwn' /\ AdditionsOwn' /\ AttachedOwn'
        BY <1>2, <2>2, OthersKeep
    <2>5. CreationsOwn'
        <3>1. i \in User \X Delivery /\ i \in DOMAIN creation
            BY <1>1 DEF TypeOK, Invocations
        <3>2. \A j \in User \X Delivery : j # i => creation'[j] = creation[j]
            BY <1>1, <2>1 DEF TypeOK, Invocations
        <3>3. creation'[i] = [pc |-> "intent", customer |-> c]
            BY <2>1, <3>1
        <3>4. QED
            BY <1>1, <2>1, <3>2, <3>3 DEF OwnLocals, CreationsOwn
    <2>6. QED
        BY <1>1, <2>3, <2>4, <2>5 DEF OwnLocals
<1>4. CASE MakeFirstIntent(i) \/ StoreDocument(i) \/ CreationFails(i)
    <2>1. PICK pc \in {"store", "done", "failed"} :
            /\ creation' = [creation EXCEPT ![i].pc = pc]
            /\ creation[i].pc \in {"intent", "store"}
        BY <1>4 DEF MakeFirstIntent, StoreDocument, CreationFails
    <2>2. secret' = secret \/ secret' = [secret EXCEPT ![i[1]] = creation[i].customer]
        BY <1>4 DEF MakeFirstIntent, StoreDocument, CreationFails
    <2>3. creation[i].customer \in Customer /\ madeFor[creation[i].customer] = i[1]
        BY <2>1 DEF OwnLocals, CreationsOwn
    <2>4. TypeOK'
        <3>1. creation' \in Invocations(User, {"waiting", "intent", "store", "done", "failed"})
            BY <2>1 DEF TypeOK, Invocations
        <3>2. secret' \in [User -> Customer \cup {None}]
            BY <2>2, <2>3 DEF TypeOK
        <3>3. QED
            BY <1>1, <1>2, <3>1, <3>2 DEF TypeOK, DirectoryInv
    <2>5. SecretOfOwnCustomer'
        BY <1>1, <2>2, <2>3 DEF SecretOfOwnCustomer, TypeOK
    <2>6. CleanupsOwn' /\ AdditionsOwn' /\ AttachedOwn'
        BY <1>2, OthersKeep
    <2>7. CreationsOwn'
        <3>1. \A j \in User \X Delivery :
                /\ creation'[j].customer = creation[j].customer
                /\ j # i => creation'[j] = creation[j]
            BY <2>1 DEF TypeOK, Invocations
        <3>2. \A j \in User \X Delivery :
                creation[j].customer \in Customer => madeFor'[creation[j].customer] = j[1]
            BY <1>1 DEF OwnLocals, CreationsOwn
        <3>3. QED
            BY <2>3, <3>1, <3>2 DEF OwnLocals, CreationsOwn
    <2>8. QED
        BY <1>1, <2>4, <2>5, <2>6, <2>7 DEF OwnLocals
<1>5. QED
    BY <1>3, <1>4 DEF CreateStripeCustomer

\* An addition that only moves its counter keeps the customer it holds.
LEMMA GotoKeepsAdditions ==
    ASSUME CustomersInv, [Next]_vars, NEW i \in Method \X Delivery,
           NEW pc \in {"retrieve", "save", "intent", "merge", "report", "done"},
           addition' = [addition EXCEPT ![i].pc = pc],
           UNCHANGED attached,
           pc \in {"retrieve", "save", "intent", "merge"} => attached[i[1]] # None,
           pc = "merge" => addition[i].customer \in Customer
    PROVE  AdditionsOwn'
<1> USE NoneIsNoValue, InvocationParts DEF CustomersInv, OwnLocals
<1>1. \A c \in Customer, u \in User : madeFor[c] = u => madeFor'[c] = u
    BY StepFacts
<1>2. \A j \in Method \X Delivery :
        /\ addition'[j].customer = addition[j].customer
        /\ j # i => addition'[j] = addition[j]
    BY DEF TypeOK, Invocations
<1>3. \A j \in Method \X Delivery :
        addition[j].customer \in Customer => madeFor'[addition[j].customer] = OwnerOf[j[1]]
    BY <1>1 DEF AdditionsOwn
<1>4. addition'[i].pc = pc
    BY DEF TypeOK, Invocations
<1>5. QED
    BY <1>2, <1>3, <1>4 DEF AdditionsOwn

LEMMA AdditionKeeps ==
    ASSUME CustomersInv, [Next]_vars, NEW i \in Method \X Delivery,
           AddPaymentMethodDetails(i) \/ AdditionFails(i)
    PROVE  CustomersInv'
<1> USE NoneIsNoValue, InvocationParts
        DEF CustomersInv, AdditionAt, AdditionGoto, directoryVars
<1>1. /\ DirectoryInv'
      /\ \A c \in Customer, u \in User : madeFor[c] = u => madeFor'[c] = u
    BY StepFacts
<1>2. UNCHANGED <<account, attached, creation, cleanup, deletes>>
    BY DEF AddPaymentMethodDetails, DeliverMethod, Retrieve, SaveDetails, MakeNextIntent,
           MergeSecret, ReportMethod, AdditionFails
<1>3. method' \in [Method -> {"absent", "id", "details", "error", "both"}]
    BY DEF TypeOK, AddPaymentMethodDetails, DeliverMethod, Retrieve, SaveDetails,
           MakeNextIntent, MergeSecret, ReportMethod, AdditionFails
<1>4. CASE Retrieve(i)
    <2>1. PICK c \in {attached[i[1]], None} :
            addition' = [addition EXCEPT ![i] = [pc |-> "save", customer |-> c]]
        BY <1>4 DEF Retrieve
    <2>2. UNCHANGED secret /\ addition[i].pc = "retrieve"
        BY <1>4 DEF Retrieve
    <2>3. c \in Customer \cup {None} /\ attached[i[1]] # None
        BY <2>2 DEF TypeOK, OwnLocals, AdditionsOwn
    <2>4. TypeOK'
        BY <1>1, <1>2, <1>3, <2>1, <2>2, <2>3 DEF TypeOK, DirectoryInv, Invocations
    <2>5. SecretOfOwnCustomer' /\ CreationsOwn' /\ CleanupsOwn' /\ AttachedOwn'
        BY <1>2, <2>2, OthersKeep
    <2>6. c \in Customer => madeFor'[c] = OwnerOf[i[1]]
        BY <1>1, <2>1, <2>3 DEF OwnLocals, AttachedOwn
    <2>7. AdditionsOwn'
        <3>1. \A j \in Method \X Delivery :
                addition'[j] = IF j = i THEN [pc |-> "save", customer |-> c] ELSE addition[j]
            BY <2>1 DEF TypeOK, Invocations
        <3>2. \A j \in Method \X Delivery :
                addition[j].customer \in Customer =>
                    madeFor'[addition[j].customer] = OwnerOf[j[1]]
            BY <1>1 DEF OwnLocals, AdditionsOwn
        <3>3. QED
            BY <1>2, <2>3, <2>6, <3>1, <3>2 DEF OwnLocals, AdditionsOwn
    <2>8. QED
        BY <1>1, <2>4, <2>5, <2>7 DEF OwnLocals
<1>5. CASE MergeSecret(i)
    <2>1. PICK pc \in {"done", "report"} : addition' = [addition EXCEPT ![i].pc = pc]
        BY <1>5 DEF MergeSecret
    <2>2. secret' = [secret EXCEPT ![OwnerOf[i[1]]] = addition[i].customer]
        BY <1>5 DEF MergeSecret
    <2>3. /\ addition[i].customer \in Customer
          /\ madeFor[addition[i].customer] = OwnerOf[i[1]]
        BY <1>5 DEF MergeSecret, OwnLocals, AdditionsOwn
    <2>4. TypeOK'
        BY <1>1, <1>2, <1>3, <2>1, <2>2, <2>3 DEF TypeOK, DirectoryInv, Invocations
    <2>5. SecretOfOwnCustomer'
        BY <1>1, <2>2, <2>3 DEF SecretOfOwnCustomer, TypeOK
    <2>6. CreationsOwn' /\ CleanupsOwn' /\ AttachedOwn'
        BY <1>2, OthersKeep
    <2>7. AdditionsOwn'
        BY <1>2, <2>1, GotoKeepsAdditions
    <2>8. QED
        BY <1>1, <2>4, <2>5, <2>6, <2>7 DEF OwnLocals
<1>6. CASE ~Retrieve(i) /\ ~MergeSecret(i)
    <2>1. PICK pc \in {"retrieve", "save", "intent", "merge", "report", "done"} :
            /\ addition' = [addition EXCEPT ![i].pc = pc]
            /\ pc \in {"retrieve", "save", "intent", "merge"} => attached[i[1]] # None
            /\ pc = "merge" => addition[i].customer \in Customer
        BY <1>6 DEF AddPaymentMethodDetails, DeliverMethod, SaveDetails, MakeNextIntent,
                    ReportMethod, AdditionFails, OwnLocals, AdditionsOwn
    <2>2. UNCHANGED secret
        BY <1>6 DEF AddPaymentMethodDetails, DeliverMethod, SaveDetails, MakeNextIntent,
                    ReportMethod, AdditionFails
    <2>3. TypeOK'
        BY <1>1, <1>2, <1>3, <2>1, <2>2 DEF TypeOK, DirectoryInv, Invocations
    <2>4. SecretOfOwnCustomer' /\ CreationsOwn' /\ CleanupsOwn' /\ AttachedOwn'
        BY <1>2, <2>2, OthersKeep
    <2>5. AdditionsOwn'
        BY <2>1, <1>2, GotoKeepsAdditions
    <2>6. QED
        BY <1>1, <2>3, <2>4, <2>5 DEF OwnLocals
<1>7. QED
    BY <1>4, <1>5, <1>6

LEMMA CleanupKeeps ==
    ASSUME CustomersInv, [Next]_vars, NEW i \in User \X Delivery,
           CleanupUser(i) \/ CleanupFails(i)
    PROVE  CustomersInv'
<1> USE NoneIsNoValue, InvocationParts
        DEF CustomersInv, CleanupAt, CleanupGoto, directoryVars
<1>1. /\ DirectoryInv'
      /\ \A c \in Customer, u \in User : madeFor[c] = u => madeFor'[c] = u
    BY StepFacts
<1>2. /\ UNCHANGED <<account, method, attached, creation, addition>>
      /\ deletes' \subseteq Method
      /\ secret' = secret \/ secret' = [secret EXCEPT ![i[1]] = None]
    BY DEF TypeOK, CleanupUser, DeliverDeletion, ReadCustomer, DeleteAtStripe, ListMethods,
           DropCustomer, CleanupFails
<1>3. SecretOfOwnCustomer'
    BY <1>1, <1>2 DEF SecretOfOwnCustomer, TypeOK
<1>4. ASSUME NEW pc \in {"read", "delete", "list", "drop", "done", "failed"},
             NEW c \in Customer \cup {None},
             cleanup' = [cleanup EXCEPT ![i] = [pc |-> pc, customer |-> c]],
             pc = "delete" => c \in Customer,
             c \in Customer => madeFor[c] = i[1]
      PROVE  CustomersInv'
    <2>1. TypeOK'
        BY <1>1, <1>2, <1>4 DEF TypeOK, DirectoryInv, Invocations
    <2>2. CreationsOwn' /\ AdditionsOwn' /\ AttachedOwn'
        BY <1>2, OthersKeep
    <2>3. \A j \in User \X Delivery :
            cleanup'[j] = IF j = i THEN [pc |-> pc, customer |-> c] ELSE cleanup[j]
        BY <1>4 DEF TypeOK, Invocations
    <2>4. CleanupsOwn'
        <3>1. c \in Customer => madeFor'[c] = i[1]
            BY <1>1, <1>4
        <3>2. \A j \in User \X Delivery :
                cleanup[j].customer \in Customer => madeFor'[cleanup[j].customer] = j[1]
            BY <1>1 DEF OwnLocals, CleanupsOwn
        <3>3. QED
            BY <1>4, <2>3, <3>1, <3>2 DEF OwnLocals, CleanupsOwn
    <2>5. QED
        BY <1>1, <1>3, <2>1, <2>2, <2>4 DEF OwnLocals
<1>5. CASE ReadCustomer(i) /\ field[i[1]] \in Customer
    <2>1. madeFor[field[i[1]]] = i[1]
        BY <1>5 DEF DirectoryInv, OwnCustomer
    <2>2. QED
        BY <1>4, <1>5, <2>1 DEF ReadCustomer
<1>6. CASE ~(ReadCustomer(i) /\ field[i[1]] \in Customer)
    <2>1. PICK pc \in {"read", "list", "drop", "done", "failed"} :
            cleanup' = [cleanup EXCEPT ![i].pc = pc]
        BY <1>6 DEF CleanupUser, DeliverDeletion, ReadCustomer, DeleteAtStripe, ListMethods,
                    DropCustomer, CleanupFails
    <2>2. /\ cleanup[i].customer \in Customer \cup {None}
          /\ cleanup[i].customer \in Customer => madeFor[cleanup[i].customer] = i[1]
        BY DEF TypeOK, Invocations, OwnLocals, CleanupsOwn
    <2>3. cleanup' = [cleanup EXCEPT ![i] = [pc |-> pc, customer |-> cleanup[i].customer]]
        <3>1. [cleanup[i] EXCEPT !.pc = pc] = [pc |-> pc, customer |-> cleanup[i].customer]
            BY DEF TypeOK, Invocations
        <3>2. QED
            BY <2>1, <3>1
    <2>4. QED
        BY <1>4, <2>2, <2>3
<1>7. QED
    BY <1>5, <1>6

-----------------------------------------------------------------------------

LEMMA CustomersStep == CustomersInv /\ [Next]_vars => CustomersInv'
<1> SUFFICES ASSUME CustomersInv, [Next]_vars PROVE CustomersInv'
    OBVIOUS
<1>1. CASE UNCHANGED vars
    BY <1>1 DEF vars, functionVars, directoryVars, CustomersInv, TypeOK, DirectoryInv,
                DirectoryTypeOK, OwnCustomer, DeletedWereMade, SecretOfOwnCustomer, OwnLocals,
                CreationsOwn, CleanupsOwn, AdditionsOwn, AttachedOwn
<1>2. QED
    BY <1>1, AccountKeeps, MethodKeeps, CreationKeeps, AdditionKeeps, CleanupKeeps DEF Next

THEOREM CustomersInvariant == Spec => []CustomersInv
    BY CustomersStart, CustomersStep, PTL DEF Spec

\* The card a client saves with the secret of a document is attached to the
\* account the document belongs to, for every interleaving of the functions.
THEOREM SecretsAreOwn == Spec => []SecretOfOwnCustomer
<1>1. CustomersInv => SecretOfOwnCustomer
    BY DEF CustomersInv
<1>2. QED
    BY <1>1, CustomersInvariant, PTL

\* The account functions implement the directory the payments rely on: what is
\* proved of StripePayments holds of the functions together.
THEOREM CustomersImplementDirectory == Spec => DirectorySpec
<1>1. Init => DirectoryInit
    BY DEF Init
<1>2. CustomersInv /\ [Next]_vars => [DirectoryNext]_directoryVars
    BY NextImplements
<1>3. QED
    BY <1>1, <1>2, CustomersInvariant, PTL DEF Spec, DirectorySpec
-----------------------------------------------------------------------------
(* Where the customers in the documents come from, and when a document goes. *)

\* A document names a customer that a creation of the account has stored in it.
FieldIsStored ==
    \A u \in User :
        field[u] \in Customer =>
            \E k \in User \X Delivery :
                /\ k[1] = u
                /\ creation[k].customer = field[u]
                /\ creation[k].pc = "done"

\* A creation that is done stays as it is, and only creations write customers.
LEMMA CreationsStore ==
    ASSUME CustomersInv, [Next]_vars
    PROVE  /\ \A k \in User \X Delivery : creation[k].pc = "done" => creation'[k] = creation[k]
           /\ \A u \in User :
                \/ field'[u] = field[u]
                \/ field'[u] \notin Customer
                \/ \E k \in User \X Delivery :
                        /\ k[1] = u
                        /\ creation'[k].customer = field'[u]
                        /\ creation'[k].pc = "done"
<1> DEFINE Kept == \A k \in User \X Delivery :
                        creation[k].pc = "done" => creation'[k] = creation[k]
           Named(u) == \/ field'[u] = field[u]
                       \/ field'[u] \notin Customer
                       \/ \E k \in User \X Delivery :
                               /\ k[1] = u
                               /\ creation'[k].customer = field'[u]
                               /\ creation'[k].pc = "done"
<1> SUFFICES Kept /\ \A u \in User : Named(u)
    OBVIOUS
<1> USE InvocationParts, CustomersAreNotMarks
<1>t. /\ creation \in Invocations(User, {"waiting", "intent", "store", "done", "failed"})
      /\ field \in [User -> Customer \cup {NoDoc, Undefined}]
    BY DEF CustomersInv, TypeOK, DirectoryTypeOK
<1>1. CASE UNCHANGED <<creation, field>>
    BY <1>1
<1>2. ASSUME NEW i \in User \X Delivery, CreateStripeCustomer(i) \/ CreationFails(i)
      PROVE  Kept /\ \A u \in User : Named(u)
    <2>1. \A k \in User \X Delivery : k # i => creation'[k] = creation[k]
        BY <1>t, <1>2 DEF CreateStripeCustomer, MakeCustomer, MakeFirstIntent, StoreDocument,
                          CreationFails, CreationGoto, Invocations
    <2>2. creation[i].pc # "done"
        BY <1>2 DEF CreateStripeCustomer, MakeCustomer, MakeFirstIntent, StoreDocument,
                    CreationFails, CreationAt
    <2>3. CASE StoreDocument(i)
        <3>1. /\ creation'[i].pc = "done" /\ creation'[i].customer = creation[i].customer
              /\ field' = [field EXCEPT ![i[1]] = creation[i].customer]
            BY <1>t, <2>3 DEF StoreDocument, CreationGoto, Invocations
        <3>2. ASSUME NEW u \in User PROVE Named(u)
            <4>1. CASE u = i[1]
                BY <1>t, <3>1, <4>1
            <4>2. CASE u # i[1]
                BY <1>t, <3>1, <4>2
            <4>3. QED
                BY <4>1, <4>2
        <3>3. QED
            BY <2>1, <2>2, <3>2
    <2>4. CASE ~StoreDocument(i)
        <3>1. UNCHANGED field
            BY <1>2, <2>4 DEF CreateStripeCustomer, MakeCustomer, MakeFirstIntent,
                              CreationFails, directoryVars
        <3>2. QED
            BY <2>1, <2>2, <3>1
    <2>5. QED
        BY <2>3, <2>4
<1>3. ASSUME NEW i \in User \X Delivery, CleanupUser(i) \/ CleanupFails(i)
      PROVE  Kept /\ \A u \in User : Named(u)
    <2>1. UNCHANGED creation
        BY <1>3 DEF CleanupUser, DeliverDeletion, ReadCustomer, DeleteAtStripe, ListMethods,
                    DropCustomer, CleanupFails
    <2>2. field' = field \/ field' = [field EXCEPT ![i[1]] = NoDoc]
        BY <1>3 DEF CleanupUser, DeliverDeletion, ReadCustomer, DeleteAtStripe, ListMethods,
                    DropCustomer, CleanupFails, directoryVars
    <2>3. \A u \in User : field'[u] = field[u] \/ field'[u] \notin Customer
        BY <1>t, <2>2
    <2>4. QED
        BY <2>1, <2>3
<1>4. ASSUME NEW i \in Method \X Delivery, AddPaymentMethodDetails(i) \/ AdditionFails(i)
      PROVE  Kept /\ \A u \in User : Named(u)
    <2>1. UNCHANGED creation
        BY <1>4 DEF AddPaymentMethodDetails, DeliverMethod, Retrieve, SaveDetails,
                    MakeNextIntent, MergeSecret, ReportMethod, AdditionFails
    <2>2. CASE MergeSecret(i)
        <3>1. \A u \in User : field'[u] = field[u] \/ field'[u] \notin Customer
            BY <1>t, <2>2 DEF MergeSecret
        <3>2. QED
            BY <2>1, <3>1
    <2>3. CASE ~MergeSecret(i)
        BY <1>1, <1>4, <2>3 DEF AddPaymentMethodDetails, DeliverMethod, Retrieve, SaveDetails,
                                MakeNextIntent, ReportMethod, AdditionFails, directoryVars
    <2>4. QED
        BY <2>2, <2>3
<1>5. CASE \/ \E u \in User : SignUp(u) \/ DeleteAccount(u)
           \/ \E m \in Method : AddMethod(m) \/ FlushDelete(m)
           \/ UNCHANGED vars
    BY <1>1, <1>5 DEF SignUp, DeleteAccount, AddMethod, FlushDelete, vars, functionVars,
                      directoryVars
<1>6. QED
    BY <1>2, <1>3, <1>4, <1>5 DEF Next

LEMMA FieldsAreStored ==
    /\ Init => FieldIsStored
    /\ CustomersInv /\ FieldIsStored /\ [Next]_vars => FieldIsStored'
<1>1. ASSUME Init PROVE FieldIsStored
    BY <1>1, CustomersAreNotMarks DEF Init, DirectoryInit, FieldIsStored
<1>2. ASSUME CustomersInv, FieldIsStored, [Next]_vars PROVE FieldIsStored'
    BY <1>2, CreationsStore DEF FieldIsStored
<1>3. QED
    BY <1>1, <1>2

-----------------------------------------------------------------------------
(* One delivery of each event of an account.                               *)

OneDelivery == MaxDeliveries = 1

\* The customer of an account is the one its only creation made.
OneCustomerPerAccount ==
    \A c \in Customer, i \in User \X Delivery :
        madeFor[c] = i[1] => creation[i].pc # "waiting" /\ creation[i].customer = c

\* A cleanup that goes on to the documents has deleted the customer.
DeletedBeforeListed ==
    \A i \in User \X Delivery :
        cleanup[i].pc \in {"list", "drop"} => cleanup[i].customer \in deleted

OneCustomerInv == CustomersInv /\ OneCustomerPerAccount /\ DeletedBeforeListed

LEMMA OneInvocation ==
    ASSUME OneDelivery
    PROVE  \A i, j \in User \X Delivery : i[1] = j[1] => i = j
BY DEF OneDelivery, Delivery

LEMMA OneCustomerStart == Init => OneCustomerInv
<1> SUFFICES ASSUME Init PROVE OneCustomerInv
    OBVIOUS
<1>1. CustomersInv
    BY CustomersStart
<1>2. OneCustomerPerAccount /\ DeletedBeforeListed
    BY UsersAreNotMarks, InvocationParts
       DEF Init, DirectoryInit, Waiting, OneCustomerPerAccount, DeletedBeforeListed
<1>3. QED
    BY <1>1, <1>2 DEF OneCustomerInv

LEMMA CreationMakesOne ==
    ASSUME OneDelivery, OneCustomerInv, NEW i \in User \X Delivery,
           CreateStripeCustomer(i) \/ CreationFails(i)
    PROVE  OneCustomerPerAccount' /\ UNCHANGED <<deleted, cleanup>>
<1> USE InvocationParts DEF OneCustomerInv, CustomersInv, CreationAt, CreationGoto
<1>t. /\ creation \in Invocations(User, {"waiting", "intent", "store", "done", "failed"})
      /\ madeFor \in [Customer -> User \cup {Nobody}]
    BY DEF TypeOK, DirectoryTypeOK
<1>1. CASE MakeCustomer(i)
    <2>1. PICK c \in Customer :
            /\ madeFor[c] = Nobody /\ madeFor' = [madeFor EXCEPT ![c] = i[1]]
            /\ creation' = [creation EXCEPT ![i] = [pc |-> "intent", customer |-> c]]
        BY <1>1 DEF MakeCustomer
    <2>2. creation[i].pc = "waiting" /\ UNCHANGED <<deleted, cleanup>>
        BY <1>1 DEF MakeCustomer
    <2>3. /\ creation'[i] = [pc |-> "intent", customer |-> c] /\ madeFor'[c] = i[1]
          /\ \A j \in User \X Delivery : j # i => creation'[j] = creation[j]
          /\ \A d \in Customer : d # c => madeFor'[d] = madeFor[d]
        BY <1>t, <2>1 DEF Invocations
    <2>4. ASSUME NEW d \in Customer, NEW j \in User \X Delivery, madeFor'[d] = j[1]
          PROVE  creation'[j].pc # "waiting" /\ creation'[j].customer = d
        <3>1. CASE d = c
            BY <2>3, <2>4, <3>1, OneInvocation
        <3>2. CASE d # c
            BY <2>2, <2>3, <2>4, <3>2 DEF OneCustomerPerAccount
        <3>3. QED
            BY <3>1, <3>2
    <2>5. QED
        BY <2>2, <2>4 DEF OneCustomerPerAccount
<1>2. CASE MakeFirstIntent(i) \/ StoreDocument(i) \/ CreationFails(i)
    <2>1. PICK pc \in {"store", "done", "failed"} :
            creation' = [creation EXCEPT ![i].pc = pc]
        BY <1>2 DEF MakeFirstIntent, StoreDocument, CreationFails
    <2>2. creation[i].pc # "waiting" /\ UNCHANGED <<madeFor, deleted, cleanup>>
        BY <1>2 DEF MakeFirstIntent, StoreDocument, CreationFails, directoryVars
    <2>3. /\ creation'[i].pc # "waiting"
          /\ \A j \in User \X Delivery : /\ creation'[j].customer = creation[j].customer
                                         /\ j # i => creation'[j].pc = creation[j].pc
        BY <1>t, <2>1 DEF Invocations
    <2>4. QED
        BY <2>2, <2>3 DEF OneCustomerPerAccount
<1>3. QED
    BY <1>1, <1>2 DEF CreateStripeCustomer

LEMMA CleanupDeletesFirst ==
    ASSUME OneCustomerInv, NEW i \in User \X Delivery, CleanupUser(i) \/ CleanupFails(i)
    PROVE  /\ DeletedBeforeListed'
           /\ UNCHANGED <<madeFor, creation>> /\ deleted \subseteq deleted'
<1> USE InvocationParts DEF OneCustomerInv, CustomersInv, CleanupAt, CleanupGoto
<1>t. cleanup \in Invocations(User,
                {"waiting", "read", "delete", "list", "drop", "done", "failed"})
    BY DEF TypeOK
<1>1. UNCHANGED <<madeFor, creation>> /\ deleted \subseteq deleted'
    BY DEF CleanupUser, DeliverDeletion, ReadCustomer, DeleteAtStripe, ListMethods,
           DropCustomer, CleanupFails, directoryVars
<1>2. \A j \in User \X Delivery : j # i => cleanup'[j] = cleanup[j]
    BY <1>t DEF CleanupUser, DeliverDeletion, ReadCustomer, DeleteAtStripe, ListMethods,
                DropCustomer, CleanupFails, Invocations
<1>3. cleanup'[i].pc \in {"list", "drop"} => cleanup'[i].customer \in deleted'
    <2>1. CASE DeliverDeletion(i) \/ ReadCustomer(i) \/ DropCustomer(i) \/ CleanupFails(i)
        BY <1>t, <2>1 DEF DeliverDeletion, ReadCustomer, DropCustomer, CleanupFails, Invocations
    <2>2. CASE DeleteAtStripe(i)
        BY <1>t, <2>2 DEF DeleteAtStripe, Invocations
    <2>3. CASE ListMethods(i)
        BY <1>t, <1>1, <2>3 DEF ListMethods, Invocations, DeletedBeforeListed
    <2>4. QED
        BY <2>1, <2>2, <2>3 DEF CleanupUser
<1>4. QED
    BY <1>1, <1>2, <1>3 DEF DeletedBeforeListed

LEMMA OneCustomerStep ==
    ASSUME OneDelivery, OneCustomerInv, [Next]_vars
    PROVE  OneCustomerInv'
<1> USE DEF OneCustomerInv
<1>1. CustomersInv'
    BY CustomersStep
<1>2. CASE \E i \in User \X Delivery : CreateStripeCustomer(i) \/ CreationFails(i)
    BY <1>1, <1>2, CreationMakesOne DEF DeletedBeforeListed
<1>3. CASE \E i \in User \X Delivery : CleanupUser(i) \/ CleanupFails(i)
    BY <1>1, <1>3, CleanupDeletesFirst DEF OneCustomerPerAccount
<1>4. CASE UNCHANGED <<madeFor, creation, deleted, cleanup>>
    BY <1>1, <1>4 DEF OneCustomerPerAccount, DeletedBeforeListed
<1>5. CASE \E i \in Method \X Delivery : AddPaymentMethodDetails(i) \/ AdditionFails(i)
    BY <1>4, <1>5
       DEF AddPaymentMethodDetails, DeliverMethod, Retrieve, SaveDetails, MakeNextIntent,
           MergeSecret, ReportMethod, AdditionFails, directoryVars
<1>6. CASE \/ \E u \in User : SignUp(u) \/ DeleteAccount(u)
           \/ \E m \in Method : AddMethod(m) \/ FlushDelete(m)
           \/ UNCHANGED vars
    BY <1>4, <1>6 DEF SignUp, DeleteAccount, AddMethod, FlushDelete, vars, functionVars,
                      directoryVars
<1>7. QED
    BY <1>2, <1>3, <1>5, <1>6 DEF Next

\* A cleanup that drops a document has deleted every customer of the account.
LEMMA NothingLeftToDrop ==
    ASSUME OneCustomerInv, NEW i \in User \X Delivery, DropCustomer(i)
    PROVE  \A c \in Customer : madeFor[c] = i[1] => c \in deleted
<1> USE InvocationParts DEF OneCustomerInv, CustomersInv
<1>1. cleanup[i].pc = "drop"
    BY DEF DropCustomer, CleanupAt
<1>2. /\ cleanup[i].customer \in deleted /\ cleanup[i].customer \in Customer
      /\ madeFor[cleanup[i].customer] = i[1]
    BY <1>1 DEF DeletedBeforeListed, OwnLocals, CleanupsOwn, TypeOK, DirectoryTypeOK
<1>3. QED
    BY <1>2 DEF OneCustomerPerAccount

-----------------------------------------------------------------------------
(* And calls that do not throw.                                            *)

Reliable == OneDelivery /\ ~Fails

NothingForgottenInv == OneCustomerInv /\ NoForgottenCustomer

LEMMA NothingForgottenStart == Init => NothingForgottenInv
<1> SUFFICES ASSUME Init PROVE NothingForgottenInv
    OBVIOUS
<1>1. NoForgottenCustomer
    BY DEF Init, DirectoryInit, NoForgottenCustomer
<1>2. QED
    BY <1>1, OneCustomerStart DEF NothingForgottenInv

\* Steps that leave the customers, their creations and the documents alone, or only
\* delete a customer.
LEMMA NobodyForgotten ==
    ASSUME NothingForgottenInv, UNCHANGED <<madeFor, creation>>, deleted \subseteq deleted',
           \A u \in User : field'[u] = field[u] \/ field[u] \notin Customer
    PROVE  NoForgottenCustomer'
<1>1. \A c \in Customer : madeFor[c] # Nobody => madeFor[c] \in User
    BY DEF NothingForgottenInv, OneCustomerInv, CustomersInv, TypeOK, DirectoryTypeOK
<1>2. QED
    BY <1>1 DEF NothingForgottenInv, NoForgottenCustomer, Holds

LEMMA CreationForgetsNobody ==
    ASSUME NothingForgottenInv, NEW i \in User \X Delivery, CreateStripeCustomer(i)
    PROVE  NoForgottenCustomer'
<1> USE InvocationParts
        DEF NothingForgottenInv, OneCustomerInv, CustomersInv, CreationAt, CreationGoto
<1>t. /\ creation \in Invocations(User, {"waiting", "intent", "store", "done", "failed"})
      /\ madeFor \in [Customer -> User \cup {Nobody}]
      /\ field \in [User -> Customer \cup {NoDoc, Undefined}]
    BY DEF TypeOK, DirectoryTypeOK
<1>1. CASE MakeCustomer(i)
    <2>1. PICK c \in Customer :
            /\ madeFor[c] = Nobody /\ madeFor' = [madeFor EXCEPT ![c] = i[1]]
            /\ creation' = [creation EXCEPT ![i] = [pc |-> "intent", customer |-> c]]
        BY <1>1 DEF MakeCustomer
    <2>2. creation[i].pc = "waiting" /\ UNCHANGED <<field, deleted>>
        BY <1>1 DEF MakeCustomer
    <2>3. /\ creation'[i] = [pc |-> "intent", customer |-> c] /\ madeFor'[c] = i[1]
          /\ \A j \in User \X Delivery : j # i => creation'[j] = creation[j]
          /\ \A d \in Customer : d # c => madeFor'[d] = madeFor[d]
        BY <1>t, <2>1 DEF Invocations
    <2> SUFFICES ASSUME NEW d \in Customer, madeFor'[d] # Nobody
                 PROVE  \/ d \in deleted \/ field[madeFor'[d]] = d
                        \/ \E j \in User \X Delivery : Holds(j, d)'
        BY <2>2 DEF NoForgottenCustomer
    <2>4. CASE d = c
        BY <2>3, <2>4 DEF Holds
    <2>5. CASE d # c
        BY <2>2, <2>3, <2>5 DEF NoForgottenCustomer, Holds
    <2>6. QED
        BY <2>4, <2>5
<1>2. CASE MakeFirstIntent(i)
    <2>1. /\ creation[i].pc = "intent" /\ UNCHANGED <<madeFor, field, deleted>>
          /\ creation' = [creation EXCEPT ![i].pc = "store"]
        BY <1>2 DEF MakeFirstIntent, directoryVars
    <2>2. /\ creation'[i].pc = "store"
          /\ \A j \in User \X Delivery : /\ creation'[j].customer = creation[j].customer
                                         /\ j # i => creation'[j].pc = creation[j].pc
        BY <1>t, <2>1 DEF Invocations
    <2>3. \A c \in Customer, j \in User \X Delivery : Holds(j, c) => Holds(j, c)'
        BY <2>1, <2>2 DEF Holds
    <2>4. QED
        BY <2>1, <2>3 DEF NoForgottenCustomer
<1>3. CASE StoreDocument(i)
    <2>1. /\ creation[i].pc = "store" /\ UNCHANGED <<madeFor, deleted>>
          /\ creation' = [creation EXCEPT ![i].pc = "done"]
          /\ field' = [field EXCEPT ![i[1]] = creation[i].customer]
        BY <1>3 DEF StoreDocument
    <2>2. \A j \in User \X Delivery : /\ creation'[j].customer = creation[j].customer
                                      /\ j # i => creation'[j].pc = creation[j].pc
        BY <1>t, <2>1 DEF Invocations
    <2> SUFFICES ASSUME NEW c \in Customer, madeFor[c] # Nobody
                 PROVE  \/ c \in deleted \/ field'[madeFor[c]] = c
                        \/ \E j \in User \X Delivery : Holds(j, c)'
        BY <2>1 DEF NoForgottenCustomer
    <2>3. madeFor[c] \in User
        BY <1>t
    <2>4. CASE madeFor[c] = i[1]
        <3>1. creation[i].customer = c
            BY <2>4 DEF OneCustomerPerAccount
        <3>2. QED
            BY <1>t, <2>1, <2>4, <3>1
    <2>5. CASE madeFor[c] # i[1]
        <3>1. field'[madeFor[c]] = field[madeFor[c]]
            BY <1>t, <2>1, <2>3, <2>5
        <3>2. ~Holds(i, c)
            BY <2>1, <2>5 DEF Holds, OwnLocals, CreationsOwn
        <3>3. ASSUME NEW j \in User \X Delivery, Holds(j, c)
              PROVE  Holds(j, c)'
            <4>1. j # i
                BY <3>2, <3>3
            <4>2. QED
                BY <2>2, <3>3, <4>1 DEF Holds
        <3>4. QED
            BY <3>1, <3>3 DEF NoForgottenCustomer
    <2>6. QED
        BY <2>4, <2>5
<1>4. QED
    BY <1>1, <1>2, <1>3 DEF CreateStripeCustomer

\* A document is only dropped after its customer was deleted.
LEMMA CleanupForgetsNobody ==
    ASSUME NothingForgottenInv, NEW i \in User \X Delivery, CleanupUser(i)
    PROVE  NoForgottenCustomer'
<1> USE InvocationParts DEF NothingForgottenInv
<1>1. UNCHANGED <<madeFor, creation>> /\ deleted \subseteq deleted'
    BY CleanupDeletesFirst
<1>2. CASE DropCustomer(i)
    <2>1. field' = [field EXCEPT ![i[1]] = NoDoc]
        BY <1>2 DEF DropCustomer
    <2>2. \A c \in Customer : madeFor[c] = i[1] => c \in deleted
        BY <1>2, NothingLeftToDrop
    <2>3. field \in [User -> Customer \cup {NoDoc, Undefined}]
        BY DEF OneCustomerInv, CustomersInv, TypeOK, DirectoryTypeOK
    <2>4. QED
        BY <1>1, <2>1, <2>2, <2>3 DEF NoForgottenCustomer, Holds
<1>3. CASE ~DropCustomer(i)
    <2>1. UNCHANGED field
        BY <1>3 DEF CleanupUser, DeliverDeletion, ReadCustomer, DeleteAtStripe, ListMethods,
                    directoryVars
    <2>2. QED
        BY <1>1, <2>1, NobodyForgotten
<1>4. QED
    BY <1>2, <1>3

LEMMA NothingForgottenStep ==
    ASSUME Reliable, NothingForgottenInv, [Next]_vars
    PROVE  NothingForgottenInv'
<1> USE DEF NothingForgottenInv
<1>1. OneCustomerInv'
    BY OneCustomerStep DEF Reliable
<1>2. CASE \E i \in User \X Delivery : CreateStripeCustomer(i)
    BY <1>1, <1>2, CreationForgetsNobody
<1>3. CASE \E i \in User \X Delivery : CleanupUser(i)
    BY <1>1, <1>3, CleanupForgetsNobody
<1>4. ASSUME UNCHANGED <<madeFor, creation, deleted>>,
             \A u \in User : field'[u] = field[u] \/ field[u] \notin Customer
      PROVE  NothingForgottenInv'
    BY <1>1, <1>4, NobodyForgotten
<1>5. ASSUME NEW i \in Method \X Delivery, AddPaymentMethodDetails(i) \/ AdditionFails(i)
      PROVE  NothingForgottenInv'
    <2>1. CASE MergeSecret(i)
        <3>1. \A u \in User : field'[u] = field[u] \/ field[u] \notin Customer
            BY <2>1, CustomersAreNotMarks
               DEF MergeSecret, OneCustomerInv, CustomersInv, TypeOK, DirectoryTypeOK
        <3>2. QED
            BY <1>4, <2>1, <3>1 DEF MergeSecret
    <2>2. CASE ~MergeSecret(i)
        BY <1>4, <1>5, <2>2
           DEF AddPaymentMethodDetails, DeliverMethod, Retrieve, SaveDetails, MakeNextIntent,
               ReportMethod, AdditionFails, directoryVars
    <2>3. QED
        BY <2>1, <2>2
<1>6. CASE \/ \E u \in User : SignUp(u) \/ DeleteAccount(u)
           \/ \E m \in Method : AddMethod(m) \/ FlushDelete(m)
           \/ UNCHANGED vars
    BY <1>4, <1>6 DEF SignUp, DeleteAccount, AddMethod, FlushDelete, vars, functionVars,
                      directoryVars
<1>7. ASSUME NEW i \in User \X Delivery, CreationFails(i) \/ CleanupFails(i)
      PROVE  FALSE
    BY <1>7 DEF CreationFails, CleanupFails, Reliable
<1>8. QED
    BY <1>2, <1>3, <1>5, <1>6, <1>7 DEF Next

\* No Stripe customer is forgotten when every event comes once and no call throws,
\* in every interleaving of creation, additions and cleanup (index.js:20-32, 122-134).
THEOREM NobodyIsForgotten == ASSUME Reliable PROVE Spec => []NoForgottenCustomer
<1>1. NothingForgottenInv => NoForgottenCustomer
    BY DEF NothingForgottenInv
<1>2. NothingForgottenInv /\ [Next]_vars => NothingForgottenInv'
    BY NothingForgottenStep
<1>3. QED
    BY <1>1, <1>2, NothingForgottenStart, PTL DEF Spec
=============================================================================
