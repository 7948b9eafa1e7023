---------------------------- MODULE BackendProofs ----------------------------
(***************************************************************************)
(* StripePayments, for any accounts, payments, number of deliveries and    *)
(* faults: PaymentsInv is inductive, and the safety properties follow.     *)
(* Then the composition: with the account functions themselves in the      *)
(* place of CustomerDirectory, all of that still holds.                    *)
(***************************************************************************)
EXTENDS Backend, CustomerDirectoryProofs

AP == INSTANCE StripeCustomersProofs WITH MaxDeliveries <- AccountDeliveries

-----------------------------------------------------------------------------
(* The payments, in whatever directory.                                    *)

LEMMA InvocationParts ==
    ASSUME NEW i \in Invocation
    PROVE  i[1] \in Push
    BY DEF Invocation

LEMMA PaymentsStart == Init => PaymentsInv
<1> SUFFICES ASSUME Init PROVE PaymentsInv
    OBVIOUS
<1> USE NoneIsNoValue, InvocationParts DEF Init
<1>1. DirectoryInv
    BY DirectoryStart
<1>2. TypeOK
    BY <1>1 DEF TypeOK, DirectoryInv, Document, InvocationState, Intent, Pc
<1>3. OneIntentPerPush /\ LocalsAreOwn /\ WritesAreOwn /\ DocsAreOwn
    BY DEF OneIntentPerPush, LocalsAreOwn, WritesAreOwn, DocsAreOwn, Made, IntentStatus
<1>4. DocNeverAhead /\ ChargedToOwner
    BY DEF DocNeverAhead, ChargedToOwner
<1>5. QED
    BY <1>1, <1>2, <1>3, <1>4 DEF PaymentsInv

-----------------------------------------------------------------------------
(* Each action preserves the invariant.                                    *)

\* The directory moves on its own: no customer changes hands.
LEMMA DirectoryKeeps ==
    ASSUME PaymentsInv, [DirectoryNext]_directoryVars, UNCHANGED paymentVars
    PROVE  PaymentsInv'
<1> USE UsersAreNotMarks DEF PaymentsInv, paymentVars
<1>1. DirectoryInv'
    BY DirectoryStep
<1>2. TypeOK'
    BY <1>1 DEF TypeOK, DirectoryInv
<1>3. \A i \in Invocation : UserOf[i[1]] # Nobody
    BY UserOfType, InvocationParts
<1>4. \A c \in Customer : madeFor[c] # Nobody => madeFor'[c] = madeFor[c]
    BY MadeForIsStable DEF DirectoryInv
<1>5. LocalsAreOwn'
    BY <1>3, <1>4 DEF LocalsAreOwn, Charged, Made
<1>6. ChargedToOwner'
    BY <1>3, <1>4 DEF ChargedToOwner
<1>7. (OneIntentPerPush /\ WritesAreOwn /\ DocsAreOwn /\ DocNeverAhead)'
    BY DEF OneIntentPerPush, WritesAreOwn, DocsAreOwn, DocNeverAhead, Made, Charged
<1>8. QED
    BY <1>1, <1>2, <1>5, <1>6, <1>7

LEMMA RequestKeeps ==
    ASSUME PaymentsInv, NEW x \in Push, Request(x)
    PROVE  PaymentsInv'
<1> USE DEF PaymentsInv, Request, directoryVars
<1>1. TypeOK' /\ DirectoryInv'
    BY DEF TypeOK, Document, DirectoryInv, DirectoryTypeOK, OwnCustomer, DeletedWereMade
<1>2. (OneIntentPerPush /\ LocalsAreOwn /\ WritesAreOwn /\ ChargedToOwner)'
    BY DEF OneIntentPerPush, LocalsAreOwn, WritesAreOwn, ChargedToOwner, Made, Charged
<1>3. DocsAreOwn' /\ DocNeverAhead'
    BY DEF DocsAreOwn, DocNeverAhead, IntentStatus, Charged, TypeOK, Document
<1>4. QED
    BY <1>1, <1>2, <1>3

LEMMA AuthenticateKeeps ==
    ASSUME PaymentsInv, NEW x \in Push, Authenticate(x)
    PROVE  PaymentsInv'
<1> USE DEF PaymentsInv, Authenticate, directoryVars, Write, Saved
<1>1. /\ doc[x].intent \in Invocation
      /\ doc[x].intent[1] = x
    BY DEF DocsAreOwn, IntentStatus
<1>2. TypeOK' /\ DirectoryInv'
    BY <1>1 DEF TypeOK, Document, Intent, IntentStatus, DirectoryInv, DirectoryTypeOK,
                OwnCustomer, DeletedWereMade
<1>3. OneIntentPerPush' /\ ChargedToOwner'
    BY <1>1 DEF OneIntentPerPush, ChargedToOwner, Made, TypeOK, Intent
<1>4. \A i \in Invocation :
        /\ ledger'[i].reply = ledger[i].reply
        /\ Charged(i) => Charged(i)'
        /\ Made(i)' <=> Made(i)
    BY <1>1 DEF TypeOK, Intent, Charged, Made
<1>5. \A i \in Invocation : ledger[i].reply = "succeeded" => Charged(i)
    BY DEF LocalsAreOwn
<1>6. LocalsAreOwn'
    BY <1>4, <1>5 DEF LocalsAreOwn
<1>7. WritesAreOwn'
    BY <1>4 DEF WritesAreOwn, TypeOK
<1>8. DocsAreOwn' /\ DocNeverAhead'
    BY <1>1, <1>4 DEF DocsAreOwn, DocNeverAhead, TypeOK, Document, IntentStatus
<1>9. QED
    BY <1>2, <1>3, <1>6, <1>7, <1>8

\* Steps of an invocation that only move its counter, or note a customer of its
\* own account, disturb nothing.
LEMMA LocalStepKeeps ==
    ASSUME PaymentsInv, NEW i \in Invocation, NEW state \in InvocationState,
           invocation' = [invocation EXCEPT ![i] = state],
           state.customer \in Customer => madeFor[state.customer] = UserOf[i[1]],
           state.pc = "save" =>
                /\ state.payment \in Invocation
                /\ state.payment[1] = i[1]
                /\ ledger[state.payment].reply \in {"succeeded", "requires_action"},
           UNCHANGED <<doc, ledger, updates, unawaited, directoryVars>>
    PROVE  PaymentsInv'
<1> USE DEF PaymentsInv, directoryVars
<1>1. TypeOK' /\ DirectoryInv'
    BY DEF TypeOK, DirectoryInv, DirectoryTypeOK, OwnCustomer, DeletedWereMade
<1>2. LocalsAreOwn'
    BY DEF LocalsAreOwn, TypeOK, Charged, Made
<1>3. (OneIntentPerPush /\ WritesAreOwn /\ DocsAreOwn /\ DocNeverAhead /\ ChargedToOwner)'
    BY DEF OneIntentPerPush, WritesAreOwn, DocsAreOwn, DocNeverAhead, ChargedToOwner,
           Made, Charged
<1>4. QED
    BY <1>1, <1>2, <1>3

\* What a change of counter makes of an invocation.
LEMMA GotoState ==
    ASSUME PaymentsInv, NEW i \in Invocation, NEW pc \in Pc \ {"save"}, Goto(i, pc)
    PROVE  \E state \in InvocationState :
                /\ invocation' = [invocation EXCEPT ![i] = state]
                /\ state.pc # "save"
                /\ state.customer = invocation[i].customer
<1> DEFINE state == [invocation[i] EXCEPT !.pc = pc]
<1>1. invocation[i] \in InvocationState
    BY DEF PaymentsInv, TypeOK
<1>2. state \in InvocationState /\ state.pc = pc /\ state.customer = invocation[i].customer
    BY <1>1 DEF InvocationState, Pc
<1>3. invocation' = [invocation EXCEPT ![i] = state]
    BY DEF Goto
<1>4. QED
    BY <1>2, <1>3

LEMMA GotoKeeps ==
    ASSUME PaymentsInv, NEW i \in Invocation, NEW pc \in Pc \ {"save"}, Goto(i, pc),
           UNCHANGED <<doc, ledger, updates, unawaited, directoryVars>>
    PROVE  PaymentsInv'
<1>1. PICK state \in InvocationState :
            /\ invocation' = [invocation EXCEPT ![i] = state]
            /\ state.pc # "save"
            /\ state.customer = invocation[i].customer
    BY GotoState
<1>2. state.customer \in Customer => madeFor[state.customer] = UserOf[i[1]]
    BY <1>1 DEF PaymentsInv, LocalsAreOwn
<1>3. QED
    BY <1>1, <1>2, LocalStepKeeps

LEMMA LookupKeeps ==
    ASSUME PaymentsInv, NEW i \in Invocation, Lookup(i)
    PROVE  PaymentsInv'
<1> DEFINE found == field[UserOf[i[1]]]
<1> DEFINE state == [invocation[i] EXCEPT !.pc = "pay", !.customer = found]
<1> USE DEF Lookup
<1>1. UserOf[i[1]] \in User
    BY UserOfType, InvocationParts
<1>2. CASE found = NoDoc
    BY <1>2, GotoKeeps DEF Pc
<1>3. CASE found # NoDoc
    <2>1. invocation[i] \in InvocationState /\ found \in Customer \cup {Undefined}
        BY <1>1, <1>3 DEF PaymentsInv, TypeOK, DirectoryTypeOK
    <2>2. state \in InvocationState /\ state.pc = "pay" /\ state.customer = found
        BY <2>1 DEF InvocationState, Pc
    <2>3. found \in Customer => madeFor[found] = UserOf[i[1]]
        BY <1>1 DEF PaymentsInv, DirectoryInv, OwnCustomer
    <2>4. invocation' = [invocation EXCEPT ![i] = state]
        BY <1>3
    <2>5. QED
        BY <2>2, <2>3, <2>4, LocalStepKeeps
<1>4. QED
    BY <1>2, <1>3

\* What an answer of Stripe makes of an invocation: it saves the intent it was
\* given, which is not a declined one, or it reports.
LEMMA AnswerState ==
    ASSUME PaymentsInv, NEW i \in Invocation, NEW j \in Invocation,
           NEW reply \in Outcome, Answer(i, j, reply)
    PROVE  \E state \in InvocationState :
                /\ invocation' = [invocation EXCEPT ![i] = state]
                /\ state.customer = invocation[i].customer
                /\ state.pc = "save" =>
                       state.payment = j /\ reply # "requires_payment_method"
<1> DEFINE state == [invocation[i] EXCEPT !.pc = "save", !.payment = j]
<1>1. invocation[i] \in InvocationState
    BY DEF PaymentsInv, TypeOK
<1>2. CASE /\ reply # "requires_payment_method"
           /\ invocation' = [invocation EXCEPT ![i].pc = "save", ![i].payment = j]
    <2>1. /\ state \in InvocationState
          /\ state.customer = invocation[i].customer
          /\ state.payment = j
        BY <1>1 DEF InvocationState, Pc
    <2>2. invocation' = [invocation EXCEPT ![i] = state]
        BY <1>2
    <2>3. QED
        BY <1>2, <2>1, <2>2
<1>3. CASE Goto(i, "report")
    BY <1>3, GotoState DEF Pc
<1>4. QED
    BY <1>2, <1>3 DEF Answer

LEMMA PayReplayKeeps ==
    ASSUME PaymentsInv, NEW i \in Invocation, PayReplay(i)
    PROVE  PaymentsInv'
<1>1. PICK j \in Replayed(i) :
            Made(j) /\ j[1] = i[1] /\ Answer(i, j, ledger[j].reply)
    BY DEF PayReplay, Replayed, IdempotencyKey
<1>2. j \in Invocation
    BY DEF Replayed
<1>3. ledger[j].reply \in Outcome
    BY <1>1, <1>2 DEF PaymentsInv, TypeOK, Intent, LocalsAreOwn
<1>4. PICK state \in InvocationState :
            /\ invocation' = [invocation EXCEPT ![i] = state]
            /\ state.customer = invocation[i].customer
            /\ state.pc = "save" =>
                   state.payment = j /\ ledger[j].reply # "requires_payment_method"
    BY <1>1, <1>2, <1>3, AnswerState
<1>5. state.customer \in Customer => madeFor[state.customer] = UserOf[i[1]]
    BY <1>4 DEF PaymentsInv, LocalsAreOwn
<1>6. QED
    BY <1>1, <1>2, <1>3, <1>4, <1>5, LocalStepKeeps DEF PayReplay, Outcome

\* A fresh intent is the first of its push id, and its customer is the one the
\* invocation looked up.
LEMMA PayFreshKeeps ==
    ASSUME PaymentsInv, NEW i \in Invocation, PayFresh(i)
    PROVE  PaymentsInv'
<1> USE DEF PaymentsInv, directoryVars
<1>1. PICK reply \in Outcome :
            /\ ledger' = [ledger EXCEPT ![i] =
                    [status |-> reply, reply |-> reply,
                     customer |-> invocation[i].customer]]
            /\ Answer(i, i, reply)
    BY DEF PayFresh
<1>2. UNCHANGED <<doc, updates, unawaited, directoryVars>> /\ Replayed(i) = {}
    BY DEF PayFresh
<1>3. \A j \in Invocation : j[1] = i[1] => ~Made(j)
    BY <1>2 DEF Replayed, IdempotencyKey
<1>4. PICK state \in InvocationState :
            /\ invocation' = [invocation EXCEPT ![i] = state]
            /\ state.customer = invocation[i].customer
            /\ state.pc = "save" => state.payment = i /\ reply # "requires_payment_method"
    BY <1>1, AnswerState
<1>5. invocation[i].customer \in Customer \cup {Undefined, None}
    BY DEF TypeOK, InvocationState
<1>6. TypeOK' /\ DirectoryInv'
    BY <1>1, <1>2, <1>4, <1>5
       DEF TypeOK, Intent, IntentStatus, Outcome, DirectoryInv, DirectoryTypeOK,
           OwnCustomer, DeletedWereMade
<1>7. \A j \in Invocation : j # i => ledger'[j] = ledger[j]
    BY <1>1 DEF TypeOK
<1>8. /\ ledger'[i].status = reply /\ ledger'[i].reply = reply
      /\ ledger'[i].customer = invocation[i].customer
    BY <1>1 DEF TypeOK
<1>9. OneIntentPerPush'
    BY <1>3, <1>7 DEF OneIntentPerPush, Made
<1>10. \A j \in Invocation : Charged(j) => Charged(j)' /\ j # i
    BY <1>3, <1>7 DEF Charged, Made
<1>11. LocalsAreOwn'
    <2> SUFFICES ASSUME NEW j \in Invocation
                 PROVE  /\ invocation'[j].customer \in Customer =>
                                madeFor'[invocation'[j].customer] = UserOf[j[1]]
                        /\ invocation'[j].pc = "save" =>
                                /\ invocation'[j].payment \in Invocation
                                /\ invocation'[j].payment[1] = j[1]
                                /\ ledger'[invocation'[j].payment].reply
                                        \in {"succeeded", "requires_action"}
                        /\ ledger'[j].reply = "succeeded" => Charged(j)'
                        /\ Made(j)' <=> ledger'[j].reply # "none"
        BY DEF LocalsAreOwn
    <2>1. CASE j = i
        BY <1>1, <1>2, <1>4, <1>8, <2>1 DEF LocalsAreOwn, TypeOK, Charged, Made, Outcome
    <2>2. CASE j # i
        <3>1. invocation'[j] = invocation[j] /\ ledger'[j] = ledger[j]
            BY <1>4, <1>7, <2>2 DEF TypeOK
        <3>2. invocation[j].pc = "save" =>
                    ledger'[invocation[j].payment].reply \in {"succeeded", "requires_action"}
            <4>1. CASE invocation[j].payment = i
                BY <1>3, <4>1 DEF LocalsAreOwn
            <4>2. CASE invocation[j].payment # i
                BY <1>7, <4>2 DEF LocalsAreOwn
            <4>3. QED
                BY <4>1, <4>2
        <3>3. QED
            BY <1>2, <3>1, <3>2 DEF LocalsAreOwn, Charged, Made
    <2>3. QED
        BY <2>1, <2>2
<1>12. WritesAreOwn' /\ DocsAreOwn'
    BY <1>2, <1>10 DEF WritesAreOwn, DocsAreOwn, TypeOK
<1>13. DocNeverAhead'
    BY <1>2, <1>10 DEF DocNeverAhead, DocsAreOwn, IntentStatus
<1>14. ChargedToOwner'
    BY <1>2, <1>7, <1>8 DEF ChargedToOwner, LocalsAreOwn
<1>15. QED
    BY <1>6, <1>9, <1>11, <1>12, <1>13, <1>14

\* await snap.ref.set(payment)
LEMMA SaveKeeps ==
    ASSUME PaymentsInv, NEW i \in Invocation, Save(i)
    PROVE  PaymentsInv'
<1> USE DEF PaymentsInv, directoryVars
<1> DEFINE j == invocation[i].payment
<1>1. /\ j \in Invocation /\ j[1] = i[1]
      /\ ledger[j].reply \in {"succeeded", "requires_action"}
    BY DEF Save, LocalsAreOwn
<1>2. UNCHANGED <<ledger, unawaited, directoryVars>>
    BY DEF Save
<1>3. PICK pc \in {"done", "report"} : Goto(i, pc)
    BY DEF Save
<1>4. PICK state \in InvocationState :
            /\ invocation' = [invocation EXCEPT ![i] = state]
            /\ state.pc # "save"
            /\ state.customer = invocation[i].customer
    BY <1>3, GotoState DEF Pc
<1>5. CASE UNCHANGED <<doc, updates>>
    BY <1>2, <1>3, <1>5, GotoKeeps DEF Pc
<1>6. CASE Write(i[1], Saved(j, ledger[j].reply))
    <2>1. doc' = [doc EXCEPT ![i[1]] = Saved(j, ledger[j].reply)]
        BY <1>6 DEF Write
    <2>2. updates' = updates
        BY <1>1, <1>6 DEF Write, Saved
    <2>3. i[1] \in Push
        BY InvocationParts
    <2>4. TypeOK' /\ DirectoryInv'
        BY <1>1, <1>2, <1>4, <2>1, <2>2, <2>3
           DEF TypeOK, Document, Saved, IntentStatus, DirectoryInv, DirectoryTypeOK,
               OwnCustomer, DeletedWereMade
    <2>5. LocalsAreOwn'
        BY <1>2, <1>4 DEF LocalsAreOwn, TypeOK, Charged, Made
    <2>6. (OneIntentPerPush /\ WritesAreOwn /\ ChargedToOwner)'
        BY <1>2 DEF OneIntentPerPush, WritesAreOwn, ChargedToOwner, Made, Charged
    <2>7. DocsAreOwn'
        BY <1>1, <2>1, <2>3 DEF DocsAreOwn, TypeOK, Saved
    <2>8. ledger[j].reply = "succeeded" => Charged(j)
        BY <1>1 DEF LocalsAreOwn
    <2>9. DocNeverAhead'
        BY <1>1, <1>2, <2>1, <2>3, <2>8 DEF DocNeverAhead, TypeOK, Saved, Charged
    <2>10. QED
        BY <2>4, <2>5, <2>6, <2>7, <2>9
<1>7. QED
    BY <1>5, <1>6 DEF Save

\* The error is merged into the document, whose payment it leaves alone.
LEMMA ReportKeeps ==
    ASSUME PaymentsInv, NEW i \in Invocation, Report(i)
    PROVE  PaymentsInv'
<1> USE DEF PaymentsInv, directoryVars
<1> DEFINE x == i[1]
<1>1. x \in Push /\ UNCHANGED <<ledger, unawaited, directoryVars>> /\ Goto(i, "done")
    BY InvocationParts DEF Report
<1>2. PICK state \in InvocationState :
            /\ invocation' = [invocation EXCEPT ![i] = state]
            /\ state.pc # "save"
            /\ state.customer = invocation[i].customer
    BY <1>1, GotoState DEF Pc
<1>3. CASE UNCHANGED <<doc, updates>>
    BY <1>1, <1>3, GotoKeeps DEF Pc
<1>4. CASE Write(x, Reported(doc[x]))
    <2>1. doc' = [doc EXCEPT ![x] = Reported(doc[x])]
        BY <1>4 DEF Write
    <2>2. /\ Reported(doc[x]) \in Document
          /\ Reported(doc[x]).status = doc[x].status
          /\ Reported(doc[x]).intent = doc[x].intent
        BY <1>1 DEF TypeOK, Document, Reported
    <2>3. updates' \subseteq Invocation
        BY <1>1, <1>4, <2>2 DEF Write, TypeOK, DocsAreOwn, IntentStatus
    <2>4. TypeOK' /\ DirectoryInv'
        BY <1>1, <1>2, <2>1, <2>2, <2>3
           DEF TypeOK, DirectoryInv, DirectoryTypeOK, OwnCustomer, DeletedWereMade
    <2>5. LocalsAreOwn'
        BY <1>1, <1>2 DEF LocalsAreOwn, TypeOK, Charged, Made
    <2>6. (OneIntentPerPush /\ WritesAreOwn /\ ChargedToOwner)'
        BY <1>1 DEF OneIntentPerPush, WritesAreOwn, ChargedToOwner, Made, Charged
    <2>7. DocsAreOwn' /\ DocNeverAhead'
        BY <1>1, <2>1, <2>2 DEF DocsAreOwn, DocNeverAhead, TypeOK, Charged
    <2>8. QED
        BY <2>4, <2>5, <2>6, <2>7
<1>5. QED
    BY <1>3, <1>4 DEF Report

-----------------------------------------------------------------------------
(* confirmStripePayment                                                    *)

\* An intent moves on from requires_confirmation, which is not succeeded, so
\* nothing that was charged changes.
LEMMA ConfirmKeeps ==
    ASSUME PaymentsInv, NEW i \in Invocation, Confirm(i)
    PROVE  PaymentsInv'
<1> USE DEF PaymentsInv, directoryVars
<1>1. PICK status \in Outcome :
        /\ ledger' = [ledger EXCEPT ![i].status = status]
        /\ \/ unawaited' = unawaited \cup {<<i[1], i, status>>}
           \/ UNCHANGED unawaited
    BY DEF Confirm
<1>2. /\ ledger[i].status = "requires_confirmation"
      /\ updates' \subseteq updates
      /\ UNCHANGED <<doc, invocation, directoryVars>>
    BY DEF Confirm, Consume
<1>3. i[1] \in Push
    BY InvocationParts
<1>4. \A k \in Invocation :
        /\ ledger'[k].reply = ledger[k].reply
        /\ ledger'[k].customer = ledger[k].customer
        /\ Charged(k) => Charged(k)'
        /\ Made(k)' <=> Made(k)
    BY <1>1, <1>2 DEF TypeOK, Intent, Charged, Made, Outcome
<1>5. Charged(i)' <=> status = "succeeded"
    BY <1>1 DEF Charged, TypeOK, Intent
<1>6. TypeOK' /\ DirectoryInv'
    BY <1>1, <1>2, <1>3
       DEF TypeOK, Intent, IntentStatus, Outcome, DirectoryInv, DirectoryTypeOK,
           OwnCustomer, DeletedWereMade
<1>7. OneIntentPerPush' /\ LocalsAreOwn' /\ ChargedToOwner'
    BY <1>2, <1>4 DEF OneIntentPerPush, LocalsAreOwn, ChargedToOwner
<1>8. WritesAreOwn'
    BY <1>1, <1>4, <1>5 DEF WritesAreOwn, TypeOK
<1>9. DocsAreOwn' /\ DocNeverAhead'
    BY <1>2, <1>4 DEF DocsAreOwn, DocNeverAhead, IntentStatus
<1>10. QED
    BY <1>6, <1>7, <1>8, <1>9

LEMMA ConfirmRefusedKeeps ==
    ASSUME PaymentsInv, NEW i \in Invocation, ConfirmRefused(i)
    PROVE  PaymentsInv'
    BY DEF PaymentsInv, ConfirmRefused, Consume, directoryVars, TypeOK, DirectoryInv,
           DirectoryTypeOK, OwnCustomer, DeletedWereMade, OneIntentPerPush, LocalsAreOwn,
           WritesAreOwn, DocsAreOwn, DocNeverAhead, ChargedToOwner, Made, Charged

\* A write of an earlier confirmation arrives, perhaps long after it was made.
LEMMA FlushKeeps ==
    ASSUME PaymentsInv, NEW w \in Push \X Invocation \X Outcome, FlushConfirmed(w)
    PROVE  PaymentsInv'
<1> USE DEF PaymentsInv, directoryVars
<1>1. /\ w[1] \in Push /\ w[2] \in Invocation /\ w[3] \in Outcome
      /\ w \in unawaited /\ w[2][1] = w[1]
      /\ w[3] = "succeeded" => Charged(w[2])
    BY DEF FlushConfirmed, WritesAreOwn
<1>2. /\ doc' = [doc EXCEPT ![w[1]] = Saved(w[2], w[3])]
      /\ updates' = updates
      /\ unawaited' \subseteq unawaited
      /\ UNCHANGED <<invocation, ledger, directoryVars>>
    BY <1>1 DEF FlushConfirmed, Write, Saved, Outcome
<1>3. Saved(w[2], w[3]) \in Document
    BY <1>1 DEF Saved, Document, Outcome, IntentStatus
<1>4. TypeOK' /\ DirectoryInv'
    BY <1>1, <1>2, <1>3
       DEF TypeOK, DirectoryInv, DirectoryTypeOK, OwnCustomer, DeletedWereMade
<1>5. (OneIntentPerPush /\ LocalsAreOwn /\ WritesAreOwn /\ ChargedToOwner)'
    BY <1>2 DEF OneIntentPerPush, LocalsAreOwn, WritesAreOwn, ChargedToOwner, Made, Charged
<1>6. DocsAreOwn' /\ DocNeverAhead'
    BY <1>1, <1>2 DEF DocsAreOwn, DocNeverAhead, TypeOK, Saved, Charged
<1>7. QED
    BY <1>4, <1>5, <1>6

LEMMA LoseKeeps ==
    ASSUME PaymentsInv, NEW w \in Push \X Invocation \X Outcome, LoseConfirmed(w)
    PROVE  PaymentsInv'
    BY DEF PaymentsInv, LoseConfirmed, directoryVars, TypeOK, DirectoryInv,
           DirectoryTypeOK, OwnCustomer, DeletedWereMade, OneIntentPerPush, LocalsAreOwn,
           WritesAreOwn, DocsAreOwn, DocNeverAhead, ChargedToOwner, Made, Charged

-----------------------------------------------------------------------------

LEMMA PaymentsStep == PaymentsInv /\ [Next]_vars => PaymentsInv'
<1> SUFFICES ASSUME PaymentsInv, [Next]_vars PROVE PaymentsInv'
    OBVIOUS
<1>1. ASSUME NEW x \in Push, Request(x) \/ Authenticate(x) PROVE PaymentsInv'
    BY <1>1, RequestKeeps, AuthenticateKeeps
<1>2. ASSUME NEW i \in Invocation, CreateStripePayment(i) PROVE PaymentsInv'
    <2>1. CASE Deliver(i)
        BY <2>1, GotoKeeps DEF Deliver, Pc
    <2>2. CASE Lookup(i)
        BY <2>2, LookupKeeps
    <2>3. CASE PayFresh(i)
        BY <2>3, PayFreshKeeps
    <2>4. CASE PayReplay(i)
        BY <2>4, PayReplayKeeps
    <2>5. CASE PayRefused(i)
        BY <2>5, GotoKeeps DEF PayRefused, Pc
    <2>6. CASE Save(i)
        BY <2>6, SaveKeeps
    <2>7. CASE Report(i)
        BY <2>7, ReportKeeps
    <2>8. QED
        BY <1>2, <2>1, <2>2, <2>3, <2>4, <2>5, <2>6, <2>7 DEF CreateStripePayment
<1>3. ASSUME NEW i \in Invocation, Crash(i) PROVE PaymentsInv'
    BY <1>3, GotoKeeps DEF Crash, Pc
<1>4. ASSUME NEW i \in Invocation, Confirm(i) \/ ConfirmRefused(i) PROVE PaymentsInv'
    BY <1>4, ConfirmKeeps, ConfirmRefusedKeeps
<1>5. ASSUME NEW w \in Push \X Invocation \X Outcome, FlushConfirmed(w) \/ LoseConfirmed(w)
      PROVE PaymentsInv'
    BY <1>5, FlushKeeps, LoseKeeps
<1>6. CASE Directory \/ UNCHANGED vars
    BY <1>6, DirectoryKeeps DEF Directory, vars
<1>7. QED
    BY <1>1, <1>2, <1>3, <1>4, <1>5, <1>6 DEF Next, PaymentStep

THEOREM PaymentsInvariant == Spec => []PaymentsInv
    BY PaymentsStart, PaymentsStep, PTL DEF Spec

\* Every value is of its type in every reachable state.
THEOREM PaymentsTypeCorrect == Spec => []TypeOK
<1>1. PaymentsInv => TypeOK
    BY DEF PaymentsInv
<1>2. QED
    BY <1>1, PaymentsInvariant, PTL

\* One document is charged at most once, for any number of deliveries and any
\* faults: the push id is the idempotency key (index.js:73-75).
THEOREM NoDoubleCharge == Spec => []AtMostOneCharge
<1>1. PaymentsInv => AtMostOneCharge
    BY DEF PaymentsInv, OneIntentPerPush, AtMostOneCharge, Charged, Made
<1>2. QED
    BY <1>1, PaymentsInvariant, PTL

\* A document says succeeded only of a payment that was charged for it.
THEOREM DocumentsNeverAhead == Spec => []DocNeverAhead
<1>1. PaymentsInv => DocNeverAhead
    BY DEF PaymentsInv
<1>2. QED
    BY <1>1, PaymentsInvariant, PTL

\* The customer that is charged is one of the document's account, however the
\* account functions interleave with the charge.
THEOREM ChargesGoToOwners == Spec => []ChargedToOwner
<1>1. PaymentsInv => ChargedToOwner
    BY DEF PaymentsInv
<1>2. QED
    BY <1>1, PaymentsInvariant, PTL
-----------------------------------------------------------------------------
(* One delivery, a network that answers and writes that arrive: how far a  *)
(* payment is, seen from the document, the invocation and Stripe.          *)

Reliable == MaxDeliveries = 1 /\ ~NetworkFails /\ ~WriteFails

Unpaid == {"none", "requires_payment_method"}

\* An intent is made once, in the last step before its answer is saved or reported.
MadeInTime ==
    \A i \in Invocation :
        /\ invocation[i].pc \in {"waiting", "lookup", "pay"} => ~Made(i)
        /\ invocation[i].pc = "report" => ledger[i].status \in Unpaid

\* An error is the last word of an invocation about a payment that was not made; a
\* payment status is written when the invocation is over.
DocsFollow ==
    \A i \in Invocation :
        /\ doc[i[1]].error => invocation[i].pc = "done" /\ ledger[i].status \in Unpaid
        /\ doc[i[1]].status \in IntentStatus =>
              invocation[i].pc = "done" /\ ~doc[i[1]].error
        /\ ledger[i].status = "requires_confirmation" =>
              doc[i[1]].status = "requires_confirmation"

\* The answer of a confirmation is still true when its write arrives.
WritesAreCurrent ==
    \A w \in unawaited : /\ doc[w[1]].status = "requires_confirmation"
                         /\ ledger[w[2]].status = w[3]

ReliableInv == PaymentsInv /\ MadeInTime /\ DocsFollow /\ WritesAreCurrent

\* The document has one invocation.
LEMMA OneInvocation ==
    ASSUME Reliable
    PROVE  /\ \A x \in Push : <<x, 1>> \in Invocation
           /\ \A i, j \in Invocation : i[1] = j[1] => i = j
<1>1. 1 .. MaxDeliveries = {1}
    BY DEF Reliable
<1>2. \A i \in Invocation : i = <<i[1], 1>>
    BY <1>1 DEF Invocation
<1>3. QED
    BY <1>1, <1>2 DEF Invocation

\* The parts of the state the invariant speaks of, with their types.
LEMMA ReliableParts ==
    ASSUME ReliableInv
    PROVE  /\ doc \in [Push -> Document] /\ ledger \in [Invocation -> Intent]
           /\ invocation \in [Invocation -> InvocationState]
           /\ \A w \in unawaited : /\ w \in Push \X Invocation \X Outcome
                                    /\ w[2][1] = w[1]
           /\ \A i \in Invocation : i[1] \in Push
BY InvocationParts DEF ReliableInv, PaymentsInv, TypeOK, WritesAreOwn

LEMMA ReliableStart == Init => ReliableInv
<1> SUFFICES ASSUME Init PROVE ReliableInv
    OBVIOUS
<1>1. PaymentsInv
    BY PaymentsStart
<1>2. MadeInTime /\ DocsFollow /\ WritesAreCurrent
    BY InvocationParts DEF Init, MadeInTime, DocsFollow, WritesAreCurrent, Made, IntentStatus
<1>3. QED
    BY <1>1, <1>2 DEF ReliableInv

LEMMA ReliableRequest ==
    ASSUME ReliableInv, NEW x \in Push, Request(x)
    PROVE  MadeInTime' /\ DocsFollow' /\ WritesAreCurrent'
<1> USE ReliableParts DEF ReliableInv, Request
<1>1. doc'[x].status = "new" /\ doc'[x].error = doc[x].error
    BY DEF Document
<1>2. \A y \in Push : y # x => doc'[y] = doc[y]
    OBVIOUS
<1>3. MadeInTime'
    BY DEF MadeInTime, Made
<1>4. DocsFollow'
    BY <1>1, <1>2 DEF DocsFollow, IntentStatus
<1>5. WritesAreCurrent'
    BY <1>1, <1>2 DEF WritesAreCurrent
<1>6. QED
    BY <1>3, <1>4, <1>5

LEMMA ReliableAuthenticate ==
    ASSUME Reliable, ReliableInv, NEW x \in Push, Authenticate(x)
    PROVE  MadeInTime' /\ DocsFollow' /\ WritesAreCurrent'
<1> USE ReliableParts DEF ReliableInv, Authenticate, Write, Saved
<1> DEFINE i == doc[x].intent
<1>1. i \in Invocation /\ i[1] = x /\ ledger[i].status = "requires_action"
    BY DEF PaymentsInv, DocsAreOwn, IntentStatus
<1>2. /\ ledger'[i].status = "requires_confirmation"
      /\ \A j \in Invocation : j # i => ledger'[j] = ledger[j]
      /\ doc'[x].status = "requires_confirmation" /\ ~doc'[x].error
      /\ \A y \in Push : y # x => doc'[y] = doc[y]
    BY <1>1 DEF Intent
<1>3. invocation[i].pc = "done"
    BY <1>1 DEF DocsFollow, IntentStatus
<1>4. MadeInTime'
    BY <1>2, <1>3 DEF MadeInTime, Made
<1>5. DocsFollow'
    BY <1>1, <1>2, <1>3, OneInvocation DEF DocsFollow
<1>6. \A w \in unawaited : w[1] # x
    BY DEF WritesAreCurrent
<1>7. WritesAreCurrent'
    BY <1>1, <1>2, <1>6 DEF WritesAreCurrent
<1>8. QED
    BY <1>4, <1>5, <1>7

\* A step of an invocation that is not over, which writes no payment status.
LEMMA ReliableLocal ==
    ASSUME ReliableInv, NEW i \in Invocation, NEW pc \in Pc,
           invocation'[i].pc = pc,
           \A j \in Invocation : j # i => invocation'[j] = invocation[j],
           invocation[i].pc # "done",
           pc \in {"waiting", "lookup", "pay"} => ~Made(i),
           pc = "report" => ledger[i].status \in Unpaid,
           UNCHANGED <<doc, ledger, unawaited>>
    PROVE  MadeInTime' /\ DocsFollow' /\ WritesAreCurrent'
<1> USE ReliableParts DEF ReliableInv
<1>1. MadeInTime'
    BY DEF MadeInTime, Made
<1>2. DocsFollow'
    BY DEF DocsFollow
<1>3. WritesAreCurrent'
    BY DEF WritesAreCurrent
<1>4. QED
    BY <1>1, <1>2, <1>3

LEMMA GotoPc ==
    ASSUME ReliableInv, NEW i \in Invocation, NEW pc \in Pc, Goto(i, pc)
    PROVE  /\ invocation'[i].pc = pc
           /\ \A j \in Invocation : j # i => invocation'[j] = invocation[j]
BY ReliableParts DEF Goto, InvocationState

\* An answer: a payment is saved, a refusal reported.
LEMMA ReliableFresh ==
    ASSUME Reliable, ReliableInv, NEW i \in Invocation, PayFresh(i)
    PROVE  MadeInTime' /\ DocsFollow' /\ WritesAreCurrent'
<1> USE ReliableParts DEF ReliableInv
<1>1. PICK reply \in Outcome :
            /\ ledger' = [ledger EXCEPT ![i] =
                    [status |-> reply, reply |-> reply,
                     customer |-> invocation[i].customer]]
            /\ Answer(i, i, reply)
    BY DEF PayFresh
<1>2. /\ invocation[i].pc = "pay" /\ UNCHANGED <<doc, unawaited>>
      /\ ledger'[i].status = reply
      /\ \A j \in Invocation : j # i => ledger'[j] = ledger[j]
    BY <1>1 DEF PayFresh
<1>3. \A j \in Invocation : j # i => invocation'[j] = invocation[j]
    BY <1>1 DEF Answer, Goto
<1>4. \/ invocation'[i].pc = "save"
      \/ invocation'[i].pc = "report" /\ reply = "requires_payment_method"
    BY <1>1 DEF Answer, Goto, Reliable, InvocationState
<1>5. MadeInTime'
    BY <1>2, <1>3, <1>4 DEF MadeInTime, Made, Unpaid
<1>6. DocsFollow'
    <2>1. ~doc[i[1]].error /\ doc[i[1]].status \notin IntentStatus
        BY <1>2 DEF DocsFollow
    <2>2. reply # "requires_confirmation"
        BY DEF Outcome
    <2>3. QED
        BY <1>2, <1>3, <2>1, <2>2 DEF DocsFollow
<1>7. \A w \in unawaited : w[2] # i
    BY <1>2 DEF WritesAreCurrent, DocsFollow, IntentStatus
<1>8. WritesAreCurrent'
    BY <1>2, <1>7 DEF WritesAreCurrent
<1>9. QED
    BY <1>5, <1>6, <1>8

LEMMA ReliableSave ==
    ASSUME Reliable, ReliableInv, NEW i \in Invocation, Save(i)
    PROVE  MadeInTime' /\ DocsFollow' /\ WritesAreCurrent'
<1> USE ReliableParts DEF ReliableInv
<1> DEFINE j == invocation[i].payment
<1>1. /\ invocation[i].pc = "save" /\ Goto(i, "done")
      /\ doc' = [doc EXCEPT ![i[1]] = Saved(j, ledger[j].reply)]
      /\ UNCHANGED <<ledger, unawaited>>
    BY DEF Save, Write, Reliable
<1>2. /\ invocation'[i].pc = "done"
      /\ \A k \in Invocation : k # i => invocation'[k] = invocation[k]
    BY <1>1, GotoPc DEF Pc
<1>3. ~doc'[i[1]].error /\ \A y \in Push : y # i[1] => doc'[y] = doc[y]
    BY <1>1 DEF Saved
<1>4. doc[i[1]].status \notin IntentStatus
    BY <1>1 DEF DocsFollow
<1>5. ledger[i].status # "requires_confirmation"
    BY <1>4 DEF DocsFollow, IntentStatus
<1>6. MadeInTime'
    BY <1>1, <1>2 DEF MadeInTime, Made
<1>7. DocsFollow'
    BY <1>1, <1>2, <1>3, <1>5, OneInvocation DEF DocsFollow
<1>8. \A w \in unawaited : w[1] # i[1]
    BY <1>4 DEF WritesAreCurrent, IntentStatus
<1>9. WritesAreCurrent'
    BY <1>1, <1>3, <1>8 DEF WritesAreCurrent
<1>10. QED
    BY <1>6, <1>7, <1>9

LEMMA ReliableReport ==
    ASSUME Reliable, ReliableInv, NEW i \in Invocation, Report(i)
    PROVE  MadeInTime' /\ DocsFollow' /\ WritesAreCurrent'
<1> USE ReliableParts DEF ReliableInv
<1>1. /\ invocation[i].pc = "report" /\ Goto(i, "done")
      /\ doc' = [doc EXCEPT ![i[1]] = Reported(doc[i[1]])]
      /\ UNCHANGED <<ledger, unawaited>>
    BY DEF Report, Write, Reliable
<1>2. /\ invocation'[i].pc = "done"
      /\ \A k \in Invocation : k # i => invocation'[k] = invocation[k]
    BY <1>1, GotoPc DEF Pc
<1>3. /\ doc'[i[1]].status = doc[i[1]].status
      /\ \A y \in Push : y # i[1] => doc'[y] = doc[y]
    BY <1>1 DEF Reported, Document
<1>4. doc[i[1]].status \notin IntentStatus /\ ledger[i].status \in Unpaid
    BY <1>1 DEF DocsFollow, MadeInTime
<1>5. MadeInTime'
    BY <1>1, <1>2 DEF MadeInTime, Made
<1>6. DocsFollow'
    BY <1>1, <1>2, <1>3, <1>4, OneInvocation DEF DocsFollow
<1>7. WritesAreCurrent'
    BY <1>1, <1>3 DEF WritesAreCurrent
<1>8. QED
    BY <1>5, <1>6, <1>7

\* An intent is confirmed once for every authentication, so no older answer is on its
\* way.
LEMMA ReliableConfirm ==
    ASSUME Reliable, ReliableInv, NEW i \in Invocation, Confirm(i)
    PROVE  MadeInTime' /\ DocsFollow' /\ WritesAreCurrent'
<1> USE ReliableParts DEF ReliableInv
<1>1. PICK status \in Outcome :
        /\ ledger' = [ledger EXCEPT ![i].status = status]
        /\ \/ unawaited' = unawaited \cup {<<i[1], i, status>>}
           \/ UNCHANGED unawaited
    BY DEF Confirm
<1>2. /\ ledger[i].status = "requires_confirmation" /\ UNCHANGED <<doc, invocation>>
      /\ ledger'[i].status = status
      /\ \A j \in Invocation : j # i => ledger'[j] = ledger[j]
    BY <1>1 DEF Confirm, Intent
<1>3. doc[i[1]].status = "requires_confirmation" /\ invocation[i].pc = "done"
      /\ ~doc[i[1]].error
    BY <1>2 DEF DocsFollow, IntentStatus
<1>4. MadeInTime'
    BY <1>2, <1>3 DEF MadeInTime, Made
<1>5. DocsFollow'
    BY <1>2, <1>3 DEF DocsFollow, Outcome
<1>6. \A w \in unawaited : w[2] # i
    BY <1>2 DEF WritesAreCurrent, Outcome
<1>7. WritesAreCurrent'
    BY <1>1, <1>2, <1>3, <1>6 DEF WritesAreCurrent
<1>8. QED
    BY <1>4, <1>5, <1>7

LEMMA ReliableFlush ==
    ASSUME Reliable, ReliableInv, NEW w \in Push \X Invocation \X Outcome, FlushConfirmed(w)
    PROVE  MadeInTime' /\ DocsFollow' /\ WritesAreCurrent'
<1> USE ReliableParts DEF ReliableInv
<1>1. /\ w \in unawaited /\ w[2][1] = w[1] /\ unawaited' = unawaited \ {w}
      /\ doc' = [doc EXCEPT ![w[1]] = Saved(w[2], w[3])]
      /\ UNCHANGED <<invocation, ledger>>
    BY DEF FlushConfirmed, Write
<1>2. /\ doc'[w[1]].status = w[3] /\ ~doc'[w[1]].error
      /\ \A y \in Push : y # w[1] => doc'[y] = doc[y]
    BY <1>1 DEF Saved
<1>3. /\ doc[w[1]].status = "requires_confirmation" /\ ledger[w[2]].status = w[3]
      /\ invocation[w[2]].pc = "done"
    BY <1>1 DEF WritesAreCurrent, DocsFollow, IntentStatus
<1>4. w[3] # "requires_confirmation"
    BY DEF Outcome
<1>5. MadeInTime'
    BY <1>1 DEF MadeInTime, Made
<1>6. DocsFollow'
    BY <1>1, <1>2, <1>3, <1>4, OneInvocation DEF DocsFollow
<1>7. \A v \in unawaited : v[1] = w[1] => v = w
    <2> SUFFICES ASSUME NEW v \in unawaited, v[1] = w[1] PROVE v = w
        OBVIOUS
    <2>1. v[2] = w[2]
        BY <1>1, OneInvocation
    <2>2. v[3] = w[3]
        BY <1>1, <2>1 DEF WritesAreCurrent
    <2>3. v \in Push \X Invocation \X Outcome
        OBVIOUS
    <2>4. QED
        BY <2>1, <2>2, <2>3
<1>8. WritesAreCurrent'
    BY <1>1, <1>2, <1>7 DEF WritesAreCurrent
<1>9. QED
    BY <1>5, <1>6, <1>8

LEMMA ReliableStep ==
    ASSUME Reliable, ReliableInv, [Next]_vars
    PROVE  ReliableInv'
<1> USE DEF ReliableInv
<1>0. PaymentsInv'
    BY PaymentsStep
<1>1. ASSUME NEW x \in Push, Request(x) \/ Authenticate(x) PROVE ReliableInv'
    BY <1>0, <1>1, ReliableRequest, ReliableAuthenticate
<1>2. ASSUME NEW i \in Invocation, CreateStripePayment(i) \/ Crash(i) PROVE ReliableInv'
    <2>a. invocation[i].pc \in {"waiting", "lookup", "pay"} => ~Made(i)
        BY DEF MadeInTime
    <2>b. ~Made(i) => ledger[i].status \in Unpaid
        BY DEF Made, Unpaid
    <2>1. CASE Deliver(i)
        BY <1>0, <2>1, <2>a, GotoPc, ReliableLocal DEF Deliver, Pc
    <2>2. CASE Lookup(i)
        <3>1. /\ invocation'[i].pc \in {"pay", "report"}
              /\ \A j \in Invocation : j # i => invocation'[j] = invocation[j]
            BY <2>2, ReliableParts DEF Lookup, Goto, InvocationState
        <3>2. QED
            BY <1>0, <2>2, <2>a, <2>b, <3>1, ReliableLocal DEF Lookup, Pc
    <2>3. CASE PayFresh(i)
        BY <1>0, <2>3, ReliableFresh
    <2>4. CASE PayReplay(i)
        <3>1. PICK j \in Invocation : Made(j) /\ j[1] = i[1]
            BY <2>4 DEF PayReplay, Replayed, IdempotencyKey
        <3>2. QED
            BY <2>4, <2>a, <3>1, OneInvocation DEF PayReplay
    <2>5. CASE PayRefused(i)
        BY <1>0, <2>5, <2>a, <2>b, GotoPc, ReliableLocal DEF PayRefused, Pc
    <2>6. CASE Save(i)
        BY <1>0, <2>6, ReliableSave
    <2>7. CASE Report(i)
        BY <1>0, <2>7, ReliableReport
    <2>8. CASE Crash(i)
        BY <1>0, <2>8, GotoPc, ReliableLocal DEF Crash, Pc
    <2>9. QED
        BY <1>2, <2>1, <2>2, <2>3, <2>4, <2>5, <2>6, <2>7, <2>8 DEF CreateStripePayment
<1>3. ASSUME NEW i \in Invocation, Confirm(i) \/ ConfirmRefused(i) PROVE ReliableInv'
    <2>1. CASE Confirm(i)
        BY <1>0, <2>1, ReliableConfirm
    <2>2. CASE ConfirmRefused(i)
        BY <1>0, <2>2 DEF ConfirmRefused, MadeInTime, Made, DocsFollow, WritesAreCurrent
    <2>3. QED
        BY <1>3, <2>1, <2>2
<1>4. ASSUME NEW w \in Push \X Invocation \X Outcome, FlushConfirmed(w) \/ LoseConfirmed(w)
      PROVE  ReliableInv'
    BY <1>0, <1>4, ReliableFlush DEF LoseConfirmed, Reliable
<1>5. CASE Directory \/ UNCHANGED vars
    BY <1>0, <1>5 DEF Directory, vars, paymentVars, MadeInTime, Made, DocsFollow,
                      WritesAreCurrent
<1>6. QED
    BY <1>1, <1>2, <1>3, <1>4, <1>5 DEF Next, PaymentStep

\* What the user sees as a failure did not take money, when every event comes once and
\* every call and write gets through (index.js:90-95).
THEOREM ErrorsAreFree == ASSUME Reliable PROVE Spec => []ErrorMeansUncharged
<1>1. ReliableInv => ErrorMeansUncharged
    BY DEF ReliableInv, DocsFollow, ErrorMeansUncharged, Charged, Unpaid
<1>2. ReliableInv /\ [Next]_vars => ReliableInv'
    BY ReliableStep
<1>3. QED
    BY <1>1, <1>2, ReliableStart, PTL DEF Spec

\* A payment that succeeded is never shown as anything else again, under the same
\* conditions (index.js:89, 114).
THEOREM SuccessesStick == ASSUME Reliable PROVE Spec => SuccessSticks
<1>1. ReliableInv /\ [Next]_vars => ReliableInv'
    BY ReliableStep
<1>2. ReliableInv /\ [Next]_vars =>
        [\A x \in Push :
            doc[x].status = "succeeded" =>
                /\ doc'[x].status = "succeeded"
                /\ ~doc'[x].error]_vars
    <2> SUFFICES ASSUME ReliableInv, [Next]_vars, NEW x \in Push,
                        doc[x].status = "succeeded"
                 PROVE  doc'[x].status = "succeeded" /\ ~doc'[x].error
        OBVIOUS
    <2> USE ReliableParts
    <2>1. <<x, 1>> \in Invocation /\ \A i \in Invocation : i[1] = x => i = <<x, 1>>
        BY OneInvocation
    <2>2. \A i \in Invocation : i[1] = x => invocation[i].pc = "done" /\ ~doc[x].error
        BY DEF ReliableInv, DocsFollow, IntentStatus
    <2>3. \A w \in unawaited : w[1] # x
        BY DEF ReliableInv, WritesAreCurrent
    <2>4. doc'[x] = doc[x]
        <3>1. ASSUME NEW y \in Push, Request(y) \/ Authenticate(y) PROVE doc'[x] = doc[x]
            BY <3>1 DEF Request, Authenticate, Write
        <3>2. ASSUME NEW i \in Invocation, CreateStripePayment(i) \/ Crash(i)
              PROVE  doc'[x] = doc[x]
            BY <3>2, <2>2 DEF CreateStripePayment, Crash, Deliver, Lookup, PayFresh, PayReplay,
                              PayRefused, Save, Report, Write
        <3>3. ASSUME NEW i \in Invocation, Confirm(i) \/ ConfirmRefused(i)
              PROVE  doc'[x] = doc[x]
            BY <3>3 DEF Confirm, ConfirmRefused
        <3>4. ASSUME NEW w \in Push \X Invocation \X Outcome,
                     FlushConfirmed(w) \/ LoseConfirmed(w)
              PROVE  doc'[x] = doc[x]
            BY <3>4, <2>3 DEF FlushConfirmed, LoseConfirmed, Write
        <3>5. CASE Directory \/ UNCHANGED vars
            BY <3>5 DEF Directory, vars, paymentVars
        <3>6. QED
            BY <3>1, <3>2, <3>3, <3>4, <3>5 DEF Next, PaymentStep
    <2>5. QED
        BY <2>1, <2>2, <2>4
<1>3. QED
    BY <1>1, <1>2, ReliableStart, PTL DEF Spec, SuccessSticks

-----------------------------------------------------------------------------
(* The account functions of Backend are those StripeCustomersProofs is about. *)

LEMMA SameAccounts ==
    /\ Accounts!Init => AP!Init
    /\ Accounts!Next => AP!Next
    /\ Accounts!Delivery = AP!Delivery
BY DEF NoDoc, Nobody, Undefined, Accounts!NoDoc, Accounts!Nobody, Accounts!Undefined,
       AP!NoDoc, AP!Nobody, AP!Undefined, Accounts!Init, AP!Init, Accounts!DirectoryInit, AP!DirectoryInit,
       Accounts!Waiting, AP!Waiting, Accounts!Delivery, AP!Delivery,
       Accounts!Next, AP!Next, Accounts!SignUp, AP!SignUp,
       Accounts!DeleteAccount, AP!DeleteAccount, Accounts!AddMethod, AP!AddMethod,
       Accounts!FlushDelete, AP!FlushDelete,
       Accounts!CreateStripeCustomer, AP!CreateStripeCustomer,
       Accounts!CreationFails, AP!CreationFails, Accounts!CleanupUser, AP!CleanupUser,
       Accounts!CleanupFails, AP!CleanupFails,
       Accounts!AddPaymentMethodDetails, AP!AddPaymentMethodDetails,
       Accounts!AdditionFails, AP!AdditionFails,
       Accounts!MakeCustomer, AP!MakeCustomer, Accounts!MakeFirstIntent, AP!MakeFirstIntent,
       Accounts!StoreDocument, AP!StoreDocument,
       Accounts!DeliverMethod, AP!DeliverMethod, Accounts!Retrieve, AP!Retrieve,
       Accounts!SaveDetails, AP!SaveDetails, Accounts!MakeNextIntent, AP!MakeNextIntent,
       Accounts!MergeSecret, AP!MergeSecret, Accounts!ReportMethod, AP!ReportMethod,
       Accounts!DeliverDeletion, AP!DeliverDeletion, Accounts!ReadCustomer, AP!ReadCustomer,
       Accounts!DeleteAtStripe, AP!DeleteAtStripe, Accounts!ListMethods, AP!ListMethods,
       Accounts!DropCustomer, AP!DropCustomer,
       Accounts!CreationAt, AP!CreationAt, Accounts!CreationGoto, AP!CreationGoto,
       Accounts!AdditionAt, AP!AdditionAt, Accounts!AdditionGoto, AP!AdditionGoto,
       Accounts!CleanupAt, AP!CleanupAt, Accounts!CleanupGoto, AP!CleanupGoto,
       Accounts!functionVars, AP!functionVars,
       Accounts!directoryVars, AP!directoryVars

LEMMA PaymentsLeaveDirectory == PaymentStep => UNCHANGED directoryVars
    BY DEF PaymentStep, Request, Authenticate, CreateStripePayment, Deliver, Lookup, PayFresh,
           PayReplay, PayRefused, Save, Report, Crash, Confirm, ConfirmRefused,
           FlushConfirmed, LoseConfirmed

\* Every step of the backend is one of the account functions, or leaves what they share.
LEMMA AccountsStep ==
    ASSUME [BackendPayment \/ BackendAccount]_backendVars
    PROVE  [AP!Next]_AP!vars
<1>1. CASE BackendAccount
    BY <1>1, SameAccounts DEF BackendAccount
<1>2. CASE BackendPayment
    BY <1>2, PaymentsLeaveDirectory
       DEF BackendPayment, accountVars, AP!vars, AP!functionVars, AP!directoryVars, directoryVars
<1>3. CASE UNCHANGED backendVars
    BY <1>3 DEF backendVars, vars, accountVars, AP!vars, AP!functionVars, AP!directoryVars,
                directoryVars
<1>4. QED
    BY <1>1, <1>2, <1>3

-----------------------------------------------------------------------------
(* What StripeCustomersProofs shows of the account functions, for Backend. *)

\* The assumptions of StripeCustomers hold of the constants of Backend.
LEMMA AccountsAssumptions ==
    /\ OwnerOf \in [Method -> User]
    /\ AccountDeliveries \in Nat \ {0}
    /\ Fails \in BOOLEAN
    /\ None \notin Customer \cup {AP!NoDoc, AP!Undefined}
    /\ Customer \cap {AP!NoDoc, AP!Undefined, AP!Nobody} = {}
    /\ AP!Nobody \notin User
BY MethodsType, AccountDeliveriesType, FailsType, NoneIsNoValue, CustomersAreNotMarks,
   UsersAreNotMarks
   DEF NoDoc, Nobody, Undefined, AP!NoDoc, AP!Nobody, AP!Undefined

AccountsInv == AP!CustomersInv /\ AP!FieldIsStored

LEMMA AccountsStart == BackendInit => AccountsInv
    BY AccountsAssumptions, SameAccounts, AP!CustomersStart, AP!FieldsAreStored
       DEF BackendInit, AccountsInv

LEMMA AccountsKeep ==
    ASSUME AccountsInv, [BackendPayment \/ BackendAccount]_backendVars
    PROVE  AccountsInv'
<1>1. [AP!Next]_AP!vars
    BY AccountsStep
<1>2. AP!CustomersInv'
    BY <1>1, AccountsAssumptions, AP!CustomersStep DEF AccountsInv
<1>3. AP!FieldIsStored'
    BY <1>1, AccountsAssumptions, AP!FieldsAreStored DEF AccountsInv
<1>4. QED
    BY <1>2, <1>3 DEF AccountsInv

-----------------------------------------------------------------------------
(* Refinement.                                                             *)

LEMMA DirectoryRefined ==
    ASSUME AccountsInv, BackendAccount
    PROVE  [DirectoryNext]_directoryVars
<1>1. [AP!DirectoryNext]_AP!directoryVars
    BY AccountsAssumptions, SameAccounts, AP!NextImplements DEF BackendAccount, AccountsInv
<1>2. QED
    BY <1>1 DEF DirectoryNext, directoryVars, AP!DirectoryNext, AP!directoryVars,
                CreateCustomer, StoreCustomer, TouchDocument, DeleteCustomer, DropDocument,
                AP!CreateCustomer, AP!StoreCustomer, AP!TouchDocument, AP!DeleteCustomer,
                AP!DropDocument, NoDoc, Undefined, Nobody, AP!NoDoc, AP!Undefined, AP!Nobody

LEMMA BackendRefined ==
    ASSUME AccountsInv, [BackendPayment \/ BackendAccount]_backendVars
    PROVE  [Next]_vars
<1>1. CASE BackendPayment
    BY <1>1 DEF BackendPayment, Next
<1>2. CASE BackendAccount
    BY <1>2, DirectoryRefined DEF BackendAccount, Next, Directory, vars
<1>3. CASE UNCHANGED backendVars
    BY <1>3 DEF backendVars
<1>4. QED
    BY <1>1, <1>2, <1>3

THEOREM BackendInvariant == BackendSpec => []AccountsInv
    BY AccountsStart, AccountsKeep, PTL DEF BackendSpec

\* The account functions keep to the directory, so that what is proved of the payment
\* functions in StripePayments holds of them beside the account functions
\* (index.js:20-30, 50-55, 122-134 against 72).
LEMMA BackendIsPayments == BackendSpec => Spec
<1>1. BackendInit => Init
    BY DEF BackendInit
<1>2. AccountsInv /\ [BackendPayment \/ BackendAccount]_backendVars => [Next]_vars
    BY BackendRefined
<1>3. QED
    BY <1>1, <1>2, BackendInvariant, PTL DEF BackendSpec, Spec

\* So the whole backend charges a payment document at most once (index.js:73-75).
THEOREM BackendChargesOnce == BackendSpec => []AtMostOneCharge
    BY BackendIsPayments, NoDoubleCharge, PTL

-----------------------------------------------------------------------------
(* The customers payments are made with.                                   *)

\* A payment step leaves the customer of an invocation, or reads the document's.
LEMMA PaymentsUseDocuments ==
    ASSUME TypeOK, PaymentStep, NEW i \in Invocation
    PROVE  \/ invocation'[i].customer = invocation[i].customer
           \/ invocation'[i].customer = field[UserOf[i[1]]]
<1> USE UserOfType
<1>t. invocation \in [Invocation -> InvocationState]
    BY DEF TypeOK
<1>1. ASSUME NEW j \in Invocation, Lookup(j)
      PROVE  \/ invocation'[i].customer = invocation[i].customer
             \/ invocation'[i].customer = field[UserOf[i[1]]]
    BY <1>t, <1>1 DEF Lookup, Goto, InvocationState
<1>2. ASSUME NEW j \in Invocation, CreateStripePayment(j) \/ Crash(j), ~Lookup(j)
      PROVE  invocation'[i].customer = invocation[i].customer
    BY <1>t, <1>2 DEF CreateStripePayment, Deliver, PayFresh, PayReplay, PayRefused, Save,
                      Report, Crash, Answer, Goto, InvocationState
<1>3. CASE \/ \E x \in Push : Request(x) \/ Authenticate(x)
           \/ \E j \in Invocation : Confirm(j) \/ ConfirmRefused(j)
           \/ \E w \in Push \X Invocation \X Outcome : FlushConfirmed(w) \/ LoseConfirmed(w)
    BY <1>3 DEF Request, Authenticate, Confirm, ConfirmRefused, FlushConfirmed, LoseConfirmed
<1>4. QED
    BY <1>1, <1>2, <1>3 DEF PaymentStep

LEMMA CustomersInUseStart == BackendInit => CustomersInUseWereStored
    BY NoneIsNoValue DEF BackendInit, Init, CustomersInUseWereStored

LEMMA CustomersInUseStep ==
    ASSUME TypeOK, AccountsInv, CustomersInUseWereStored,
           [BackendPayment \/ BackendAccount]_backendVars
    PROVE  CustomersInUseWereStored'
<1> USE SameAccounts
<1>1. CASE BackendPayment
    <2>1. PaymentStep /\ UNCHANGED creation
        BY <1>1 DEF BackendPayment, accountVars
    <2>2. ASSUME NEW i \in Invocation, invocation'[i].customer \in Customer
          PROVE  \E k \in User \X Accounts!Delivery :
                    /\ k[1] = UserOf[i[1]]
                    /\ creation[k].customer = invocation'[i].customer
                    /\ creation[k].pc = "done"
        <3>1. UserOf[i[1]] \in User
            BY UserOfType DEF Invocation
        <3>2. CASE invocation'[i].customer = invocation[i].customer
            BY <2>2, <3>2 DEF CustomersInUseWereStored
        <3>3. CASE invocation'[i].customer = field[UserOf[i[1]]]
            BY <2>2, <3>1, <3>3 DEF AccountsInv, AP!FieldIsStored
        <3>4. QED
            BY <2>1, <3>2, <3>3, PaymentsUseDocuments
    <2>3. QED
        BY <2>1, <2>2 DEF CustomersInUseWereStored
<1>2. CASE ~BackendPayment
    <2>1. UNCHANGED invocation
        BY <1>2 DEF BackendAccount, paymentVars, backendVars, vars
    <2>2. \A k \in User \X AP!Delivery : creation[k].pc = "done" => creation'[k] = creation[k]
        <3>1. [AP!Next]_AP!vars
            BY AccountsStep
        <3>2. QED
            BY <3>1, AccountsAssumptions, AP!CreationsStore DEF AccountsInv
    <2>3. QED
        BY <2>1, <2>2 DEF CustomersInUseWereStored
<1>3. QED
    BY <1>1, <1>2

\* Every payment is made with a customer that a creation of the account stored, for
\* any accounts, deliveries and faults (index.js:26, 72).
THEOREM CustomersInUse == BackendSpec => []CustomersInUseWereStored
<1>1. Spec => []PaymentsInv
    BY PaymentsInvariant
<1>2. PaymentsInv => TypeOK
    BY DEF PaymentsInv
<1>3. QED
    BY <1>1, <1>2, BackendIsPayments, BackendInvariant, CustomersInUseStart,
       CustomersInUseStep, PTL DEF BackendSpec

-----------------------------------------------------------------------------
(* The order of a cleanup.                                                 *)

LEMMA DocumentsGoLast ==
    ASSUME AP!OneCustomerInv, AccountsInv, [BackendPayment \/ BackendAccount]_backendVars,
           NEW u \in User, field[u] \in Customer, field'[u] = NoDoc
    PROVE  field[u] \in deleted
<1> USE AccountsAssumptions, CustomersAreNotMarks
<1>t. field \in [User -> Customer \cup {NoDoc, Undefined}] /\ madeFor[field[u]] = u
    BY DEF AccountsInv, AP!CustomersInv, AP!DirectoryInv, AP!DirectoryTypeOK, AP!OwnCustomer,
           AP!NoDoc, AP!Undefined, NoDoc, Undefined
<1>1. PICK i \in User \X AP!Delivery : AP!DropCustomer(i) /\ i[1] = u
    <2>1. BackendAccount
        BY <1>t, PaymentsLeaveDirectory
           DEF BackendPayment, backendVars, vars, directoryVars
    <2>2. AP!Next
        BY <2>1, SameAccounts DEF BackendAccount
    <2>3. field'[u] # field[u] /\ field'[u] \notin Customer \cup {Undefined}
        BY DEF NoDoc, Undefined
    <2>4. ASSUME NEW i \in User \X AP!Delivery, AP!CleanupUser(i)
          PROVE  AP!DropCustomer(i) /\ i[1] = u
        BY <1>t, <2>3, <2>4
           DEF AP!CleanupUser, AP!DeliverDeletion, AP!ReadCustomer, AP!DeleteAtStripe,
               AP!ListMethods, AP!DropCustomer, AP!directoryVars
    <2>5. ASSUME NEW i \in User \X AP!Delivery,
                 \/ AP!CreateStripeCustomer(i) \/ AP!CreationFails(i) \/ AP!CleanupFails(i)
          PROVE  FALSE
        <3>1. UNCHANGED field \/ AP!StoreDocument(i)
            BY <2>5 DEF AP!CreateStripeCustomer, AP!MakeCustomer, AP!MakeFirstIntent,
                        AP!CreationFails, AP!CleanupFails, AP!directoryVars
        <3>2. CASE AP!StoreDocument(i)
            BY <1>t, <2>3, <3>2
               DEF AP!StoreDocument, AP!CreationAt, AccountsInv, AP!CustomersInv,
                   AP!OwnLocals, AP!CreationsOwn
        <3>3. QED
            BY <2>3, <3>1, <3>2
    <2>6. ASSUME NEW i \in Method \X AP!Delivery,
                 AP!AddPaymentMethodDetails(i) \/ AP!AdditionFails(i)
          PROVE  FALSE
        <3>1. UNCHANGED field \/ AP!MergeSecret(i)
            BY <2>6 DEF AP!AddPaymentMethodDetails, AP!DeliverMethod, AP!Retrieve,
                        AP!SaveDetails, AP!MakeNextIntent, AP!ReportMethod, AP!AdditionFails,
                        AP!directoryVars
        <3>2. CASE AP!MergeSecret(i)
            BY <1>t, <2>3, <3>2 DEF AP!MergeSecret, AP!NoDoc, AP!Undefined
        <3>3. QED
            BY <2>3, <3>1, <3>2
    <2>7. ASSUME \/ \E v \in User : AP!SignUp(v) \/ AP!DeleteAccount(v)
                 \/ \E m \in Method : AP!AddMethod(m) \/ AP!FlushDelete(m)
          PROVE  FALSE
        BY <2>3, <2>7 DEF AP!SignUp, AP!DeleteAccount, AP!AddMethod, AP!FlushDelete,
                          AP!directoryVars
    <2>8. QED
        BY <2>2, <2>4, <2>5, <2>6, <2>7 DEF AP!Next
<1>2. \A c \in Customer : madeFor[c] = i[1] => c \in deleted
    BY <1>1, AP!NothingLeftToDrop
<1>3. QED
    BY <1>1, <1>2, <1>t

\* Where the events of an account come once, a document goes only after the customer
\* it names went at Stripe, wherever a function throws (index.js:125, 132).
THEOREM DocumentsDropLast ==
    ASSUME AccountDeliveries = 1
    PROVE  BackendSpec => DeletedBeforeDropped
<1>1. BackendInit => AP!OneCustomerInv
    BY AccountsAssumptions, SameAccounts, AP!OneCustomerStart DEF BackendInit
<1>2. AP!OneCustomerInv /\ [BackendPayment \/ BackendAccount]_backendVars => AP!OneCustomerInv'
    BY AccountsAssumptions, AccountsStep, AP!OneCustomerStep DEF AP!OneDelivery
<1>3. AP!OneCustomerInv /\ AccountsInv /\ [BackendPayment \/ BackendAccount]_backendVars =>
        [\A u \in User :
            field[u] \in Customer /\ field'[u] = NoDoc => field[u] \in deleted]_backendVars
    BY DocumentsGoLast
<1>4. QED
    BY <1>1, <1>2, <1>3, BackendInvariant, PTL DEF BackendSpec, DeletedBeforeDropped
=============================================================================
